------------------------- MODULE ControlPlaneProofs -------------------------
(***************************************************************************)
(* What the control plane promises of identities, and with the catalog,    *)
(* the governed surfaces and the seeds around it, for any number of        *)
(* clients, keys, principals, credentials, grants and resources.           *)
(*                                                                         *)
(* The argument is about what can no longer change.  A revoked credential  *)
(* or grant stays revoked, and a principal or a resource that comes back   *)
(* has a later stamp (RowsGrow); so what was revoked when a request came   *)
(* is revoked, or has been replaced, for as long as the request lives      *)
(* (BarredSound), and what it was authenticated and authorized on is not   *)
(* among it (RequestSound).  A mutation under a key leaves a row, or a     *)
(* binding that is kept, that refuses the same mutation (EffectsKept), and *)
(* a request's number tells the key that it alone may show (KeysShown).    *)
(*                                                                         *)
(* The second half says the same of the whole store under SeedSpec         *)
(* (StoreSafe): every step lets it grow (StoreGrows) and leaves the grants *)
(* that are there as they stand (GrantsStand); a write that was checked    *)
(* against a stamp leaves a later one (TokenSpent), a version stays as it  *)
(* was published (PublicationStands), and the catalog shows of a server or *)
(* a tool what its owner row says (StoreLinks).  Beside it, LockSafe: what *)
(* a retrieval has found to stand is among the rows it holds, and is still *)
(* as it was found, since whoever would change one of them waits           *)
(* (WaitsForLocks).                                                        *)
(***************************************************************************)
EXTENDS Seeds, TLAPS

-----------------------------------------------------------------------------
(* The inductive invariant *)

RequestFields ==
    {"n", "op", "key", "target", "value", "cred", "seen", "barred", "pc", "who",
     "active", "grant", "status", "replayed"}
IsRequest(r) ==
    r = [f \in RequestFields |-> r[f]] /\ r.status \in Nat /\ r.replayed \in BOOLEAN

RowTypes ==
    /\ principal \in [Principals -> PrincipalRow \cup {None}]
    /\ credential \in [Credentials -> CredentialRow \cup {None}]
    /\ grant \in [Grants -> GrantRow \cup {None}]
    /\ \A r \in Resources : resource[r] # None => resource[r].stamp \in Nat
    /\ revealed \in [Credentials -> Nat]
    /\ \A k \in Credentials : credential[k] # None => principal[credential[k].owner] # None

RequestTypes ==
    /\ sent \in Nat
    /\ req = [c \in Clients |-> req[c]]
    /\ \A c \in Clients : IsRequest(req[c]) /\ req[c].n \in 0..sent

\* What was revoked when a request came has not come back.
BarredSound(r) ==
    /\ \A k \in Credentials : <<"credential", k, 0>> \in r.barred =>
          credential[k] # None /\ credential[k].status = "revoked"
    /\ \A g \in Grants : <<"grant", g, 0>> \in r.barred =>
          grant[g] # None /\ grant[g].status = "revoked"
    /\ \A p \in Principals : \A s : <<"principal", p, s>> \in r.barred =>
          /\ principal[p] # None /\ s \in Nat /\ s <= principal[p].stamp
          /\ s = principal[p].stamp => principal[p].status # "active"
    /\ \A o : \A s : <<"resource", o, s>> \in r.barred =>
          /\ o \in Resources /\ resource[o] # None
          /\ s \in Nat /\ s <= resource[o].stamp
          /\ s = resource[o].stamp => resource[o].status # "active"

Known == {"authenticated", "authorized", "checked"}
Allowed == {"authorized", "checked"}
Evidenced(op) == op \notin UsageRoutes \cup AuditRoutes \cup GovernedOps

\* A request in flight is one that may be sent, and nothing that it rests on was out
\* when it came.
RequestSound(r) ==
    r.pc \notin Finished =>
        /\ r.op \in Operations /\ r.n # 0
        /\ r.key # None => r.op \in Keyed
        /\ r.op \notin GovernedOps =>
              \E in \in Inputs[r.op] : r.target = in[1] /\ r.value = in[2]
        /\ r.cred \in Credentials /\ credential[r.cred] # None
        /\ BarredSound(r)
        /\ r.pc \in Known =>
              /\ <<"credential", r.cred, 0>> \notin r.barred
              /\ r.who \in Principals /\ principal[r.who] # None
              /\ r.active => \A s : <<"principal", r.who, s>> \in r.barred =>
                                       s < principal[r.who].stamp
        /\ r.pc \in Allowed =>
              /\ r.active /\ r.grant \in Grants /\ <<"grant", r.grant, 0>> \notin r.barred
              /\ Evidenced(r.op) =>
                    \A s : <<"resource", CONTROL_SCOPES(r.op)[2], s>> \in r.barred =>
                              s < resource[CONTROL_SCOPES(r.op)[2]].stamp

\* Two requests never have one number.
Numbered ==
    \A c, d \in Clients : c # d /\ req[c].n # 0 => req[c].n # req[d].n

\* A mutation under a key cannot be made again: its row is there, or its binding is kept.
Kept(e) ==
    \/ e.op = "principals.create" /\ e.target \in Principals /\ principal[e.target] # None
    \/ e.op = "grants.create" /\ e.target \in Grants /\ grant[e.target] # None
    \/ /\ e.op \in {"credentials.issue", "credentials.rotate"}
       /\ \E b \in idem : b.kept /\ b.scope = <<e.who, e.op, e.target>> /\ b.key = e.key
EffectsKept == \A e \in effects : e.key # None => Kept(e)

\* A key that was shown belongs to a request that is over.
KeysShown ==
    /\ \A k \in Credentials : credential[k] # None => credential[k].by <= sent
    /\ \A k \in Credentials : revealed[k] # 0 =>
          /\ revealed[k] = 1 /\ credential[k] # None
          /\ \A c \in Clients : req[c].pc \notin Finished => req[c].n # credential[k].by

\* A replaced key is there, revoked, and replaced by one key.
KeysReplaced ==
    /\ \A k \in Credentials : credential[k] # None /\ credential[k].replaces # None =>
          /\ credential[credential[k].replaces] # None
          /\ credential[credential[k].replaces].status = "revoked"
    /\ \A j, k \in Credentials :
          /\ credential[j] # None /\ credential[k] # None
          /\ credential[j].replaces # None
          /\ credential[j].replaces = credential[k].replaces
          => j = k

\* The inductive invariant.
ControlSafe ==
    /\ RowTypes
    /\ RequestTypes
    /\ \A c \in Clients : RequestSound(req[c])
    /\ Numbered
    /\ EffectsKept
    /\ KeysShown
    /\ KeysReplaced
    /\ OneEffectPerKey
    /\ SuccessAudited
    /\ RevokedStaysOut

-----------------------------------------------------------------------------
(* What a step leaves alone *)

\* No row disappears, a revocation is final, and a principal or a resource that changes
\* has a later stamp.
RowsGrow ==
    /\ \A k \in Credentials : credential[k] # None =>
          /\ credential'[k] # None
          /\ credential'[k].by = credential[k].by
          /\ credential[k].status = "revoked" => credential'[k].status = "revoked"
    /\ \A g \in Grants : grant[g] # None =>
          /\ grant'[g] # None
          /\ grant[g].status = "revoked" => grant'[g].status = "revoked"
    /\ \A p \in Principals : principal[p] # None =>
          /\ principal'[p] # None /\ principal[p].stamp <= principal'[p].stamp
          /\ principal'[p].stamp = principal[p].stamp => principal'[p].status = principal[p].status
    /\ \A o \in Resources : resource[o] # None =>
          /\ resource'[o] # None /\ resource[o].stamp <= resource'[o].stamp
          /\ resource'[o].stamp = resource[o].stamp => resource'[o].status = resource[o].status

\* Rows that nothing touches have grown by nothing.
LEMMA RowsStay ==
    ASSUME RowTypes, UNCHANGED <<principal, credential, grant, resource, revealed>>
    PROVE  RowTypes' /\ RowsGrow
<1>1. RowTypes'
  BY DEF RowTypes
<1>2. /\ \A p \in Principals : principal[p] # None => principal[p].stamp \in Nat
      /\ \A o \in Resources : resource[o] # None => resource[o].stamp \in Nat
  BY DEF RowTypes, PrincipalRow
<1> QED  BY <1>1, <1>2 DEF RowsGrow

\* What was out when a request came stays out while the rows grow.
LEMMA BarredStays ==
    ASSUME RowTypes, RowTypes', RowsGrow, NEW r, BarredSound(r)
    PROVE  BarredSound(r)'
<1>1. \A k \in Credentials : <<"credential", k, 0>> \in r.barred =>
         credential'[k] # None /\ credential'[k].status = "revoked"
  BY DEF BarredSound, RowsGrow
<1>2. \A g \in Grants : <<"grant", g, 0>> \in r.barred =>
         grant'[g] # None /\ grant'[g].status = "revoked"
  BY DEF BarredSound, RowsGrow
<1>3. ASSUME NEW p \in Principals, NEW s, <<"principal", p, s>> \in r.barred
      PROVE  /\ principal'[p] # None /\ s \in Nat /\ s <= principal'[p].stamp
             /\ s = principal'[p].stamp => principal'[p].status # "active"
  <2>1. /\ principal[p] # None /\ s \in Nat /\ s <= principal[p].stamp
        /\ s = principal[p].stamp => principal[p].status # "active"
    BY <1>3 DEF BarredSound
  <2>2. /\ principal'[p] # None /\ principal[p].stamp <= principal'[p].stamp
        /\ principal'[p].stamp = principal[p].stamp => principal'[p].status = principal[p].status
    BY <2>1 DEF RowsGrow
  <2>3. principal[p].stamp \in Nat /\ principal'[p].stamp \in Nat
    BY <2>1, <2>2 DEF RowTypes, PrincipalRow
  <2> QED  BY <2>1, <2>2, <2>3
<1>4. ASSUME NEW o, NEW s, <<"resource", o, s>> \in r.barred
      PROVE  /\ o \in Resources /\ resource'[o] # None
             /\ s \in Nat /\ s <= resource'[o].stamp
             /\ s = resource'[o].stamp => resource'[o].status # "active"
  <2>1. /\ o \in Resources /\ resource[o] # None /\ s \in Nat /\ s <= resource[o].stamp
        /\ s = resource[o].stamp => resource[o].status # "active"
    BY <1>4 DEF BarredSound
  <2>2. /\ resource'[o] # None /\ resource[o].stamp <= resource'[o].stamp
        /\ resource'[o].stamp = resource[o].stamp => resource'[o].status = resource[o].status
    BY <2>1 DEF RowsGrow
  <2>3. resource[o].stamp \in Nat /\ resource'[o].stamp \in Nat
    BY <2>1, <2>2 DEF RowTypes
  <2> QED  BY <2>1, <2>2, <2>3
<1> QED  BY <1>1, <1>2, <1>3, <1>4 DEF BarredSound

\* A request is as sound after a step that lets the rows grow.
LEMMA SoundStays ==
    ASSUME RowTypes, RowTypes', RowsGrow, NEW r, RequestSound(r)
    PROVE  RequestSound(r)'
<1> SUFFICES ASSUME r.pc \notin Finished
             PROVE  /\ r.op \in Operations /\ r.n # 0
                    /\ r.key # None => r.op \in Keyed
                    /\ r.op \notin GovernedOps =>
                          \E in \in Inputs[r.op] : r.target = in[1] /\ r.value = in[2]
                    /\ r.cred \in Credentials /\ credential'[r.cred] # None
                    /\ BarredSound(r)'
                    /\ r.pc \in Known =>
                          /\ <<"credential", r.cred, 0>> \notin r.barred
                          /\ r.who \in Principals /\ principal'[r.who] # None
                          /\ r.active => \A s : <<"principal", r.who, s>> \in r.barred =>
                                                   s < principal'[r.who].stamp
                    /\ r.pc \in Allowed =>
                          /\ r.active /\ r.grant \in Grants
                          /\ <<"grant", r.grant, 0>> \notin r.barred
                          /\ Evidenced(r.op) =>
                                \A s : <<"resource", CONTROL_SCOPES(r.op)[2], s>> \in r.barred =>
                                          s < resource'[CONTROL_SCOPES(r.op)[2]].stamp
  BY DEF RequestSound
<1>1. BarredSound(r) /\ BarredSound(r)'
  BY BarredStays DEF RequestSound
<1>2. r.cred \in Credentials /\ credential'[r.cred] # None
  BY DEF RequestSound, RowsGrow
<1>3. ASSUME r.pc \in Known
      PROVE  /\ <<"credential", r.cred, 0>> \notin r.barred
             /\ r.who \in Principals /\ principal'[r.who] # None
             /\ r.active => \A s : <<"principal", r.who, s>> \in r.barred =>
                                      s < principal'[r.who].stamp
  <2>1. /\ <<"credential", r.cred, 0>> \notin r.barred
        /\ r.who \in Principals /\ principal[r.who] # None
        /\ r.active => \A s : <<"principal", r.who, s>> \in r.barred =>
                                 s < principal[r.who].stamp
    BY <1>3 DEF RequestSound
  <2>2. principal'[r.who] # None /\ principal[r.who].stamp <= principal'[r.who].stamp
    BY <2>1 DEF RowsGrow
  <2>3. principal[r.who].stamp \in Nat /\ principal'[r.who].stamp \in Nat
    BY <2>1, <2>2 DEF RowTypes, PrincipalRow
  <2>4. \A s : <<"principal", r.who, s>> \in r.barred => s \in Nat
    BY <1>1, <2>1 DEF BarredSound
  <2> QED  BY <2>1, <2>2, <2>3, <2>4
<1>4. ASSUME r.pc \in Allowed
      PROVE  /\ r.active /\ r.grant \in Grants /\ <<"grant", r.grant, 0>> \notin r.barred
             /\ Evidenced(r.op) =>
                   \A s : <<"resource", CONTROL_SCOPES(r.op)[2], s>> \in r.barred =>
                             s < resource'[CONTROL_SCOPES(r.op)[2]].stamp
  <2> DEFINE o == CONTROL_SCOPES(r.op)[2]
  <2>1. /\ r.active /\ r.grant \in Grants /\ <<"grant", r.grant, 0>> \notin r.barred
        /\ Evidenced(r.op) => \A s : <<"resource", o, s>> \in r.barred => s < resource[o].stamp
    BY <1>4 DEF RequestSound
  <2> HIDE DEF o
  <2>2. ASSUME NEW s, <<"resource", o, s>> \in r.barred, s < resource[o].stamp
        PROVE  s < resource'[o].stamp
    <3>1. o \in Resources /\ resource[o] # None /\ s \in Nat
      BY <1>1, <2>2 DEF BarredSound
    <3>2. resource'[o] # None /\ resource[o].stamp <= resource'[o].stamp
      BY <3>1 DEF RowsGrow
    <3>3. resource[o].stamp \in Nat /\ resource'[o].stamp \in Nat
      BY <3>1, <3>2 DEF RowTypes
    <3> QED  BY <2>2, <3>1, <3>2, <3>3
  <2>3. Evidenced(r.op) => \A s : <<"resource", o, s>> \in r.barred => s < resource'[o].stamp
    BY <2>1, <2>2
  <2> QED  BY <2>1, <2>3 DEF o
<1> QED  BY <1>1, <1>2, <1>3, <1>4 DEF RequestSound

-----------------------------------------------------------------------------
(* One request moves *)

\* A client's request becomes another one; the other clients keep theirs.
LEMMA RequestMoves ==
    ASSUME RequestTypes, NEW c \in Clients, NEW q, req' = [req EXCEPT ![c] = q]
    PROVE  /\ req' = [d \in Clients |-> req'[d]] /\ req'[c] = q
           /\ \A d \in Clients : d # c => req'[d] = req[d]
BY DEF RequestTypes

\* Requests stay sound, typed and numbered when one of them moves on or ends.
LEMMA RequestsKeep ==
    ASSUME ControlSafe, NEW c \in Clients, NEW q, req' = [req EXCEPT ![c] = q],
           IsRequest(q), q.n \in {0, req[c].n}, sent' = sent,
           RowTypes', RowsGrow, RequestSound(q)'
    PROVE  /\ RequestTypes' /\ Numbered'
           /\ \A d \in Clients : RequestSound(req[d])'
<1>1. RowTypes /\ RequestTypes /\ Numbered /\ \A d \in Clients : RequestSound(req[d])
  BY DEF ControlSafe
<1>2. /\ req' = [d \in Clients |-> req'[d]] /\ req'[c] = q
      /\ \A d \in Clients : d # c => req'[d] = req[d]
  BY <1>1, RequestMoves
<1>3. RequestTypes'
  BY <1>1, <1>2 DEF RequestTypes
<1>4. Numbered'
  BY <1>1, <1>2 DEF Numbered
<1>5. ASSUME NEW d \in Clients PROVE RequestSound(req[d])'
  <2>1. CASE d = c
    BY <1>2, <2>1
  <2>2. CASE d # c
    BY <1>1, <1>2, <2>2, SoundStays
  <2> QED  BY <2>1, <2>2
<1> QED  BY <1>3, <1>4, <1>5

\* A request that ends, or goes on under its number.
Ends(r, q) ==
    \/ q.pc \in Finished
    \/ r.pc \notin Finished /\ q.n = r.n

\* Such a request shows no key again.
LEMMA ShownStays ==
    ASSUME ControlSafe, NEW c \in Clients, NEW q, req' = [req EXCEPT ![c] = q],
           Ends(req[c], q), sent' = sent, revealed' = revealed, RowsGrow,
           \A k \in Credentials : credential[k] = None /\ credential'[k] # None =>
              credential'[k].by <= sent
    PROVE  KeysShown'
<1>1. /\ req'[c] = q
      /\ \A d \in Clients : d # c => req'[d] = req[d]
  BY RequestMoves DEF ControlSafe
<1>2. KeysShown
  BY DEF ControlSafe
<1>3. ASSUME NEW k \in Credentials, credential'[k] # None PROVE credential'[k].by <= sent'
  BY <1>2, <1>3 DEF KeysShown, RowsGrow
<1>4. ASSUME NEW k \in Credentials, revealed'[k] # 0
      PROVE  /\ revealed'[k] = 1 /\ credential'[k] # None
             /\ \A d \in Clients : req'[d].pc \notin Finished => req'[d].n # credential'[k].by
  <2>1. /\ revealed[k] = 1 /\ credential[k] # None
        /\ \A d \in Clients : req[d].pc \notin Finished => req[d].n # credential[k].by
    BY <1>2, <1>4 DEF KeysShown
  <2>2. credential'[k] # None /\ credential'[k].by = credential[k].by
    BY <2>1 DEF RowsGrow
  <2>3. ASSUME NEW d \in Clients, req'[d].pc \notin Finished
        PROVE  req'[d].n # credential'[k].by
    BY <1>1, <2>1, <2>2, <2>3 DEF Ends
  <2> QED  BY <2>1, <2>2, <2>3
<1> QED  BY <1>3, <1>4 DEF KeysShown

\* An answer is told once its event is there.
Told(r, events) ==
    r.pc = "done" /\ r.status \in 200..299 =>
        \/ \E a \in events : a.n = r.n /\ a.status = r.status
        \/ r.replayed /\ r.op \in {"grants.create", "aliases.create", "catalog.create"}

\* What is audited stays audited.
LEMMA AuditStays ==
    ASSUME ControlSafe, NEW c \in Clients, NEW q, req' = [req EXCEPT ![c] = q],
           audit \subseteq audit', Told(q, audit'),
           \A e \in effects' \ effects : e.op \in AuditedInTransaction =>
              \E a \in audit' : a.n = e.n
    PROVE  SuccessAudited'
<1>1. /\ req'[c] = q
      /\ \A d \in Clients : d # c => req'[d] = req[d]
  BY RequestMoves DEF ControlSafe
<1>2. SuccessAudited
  BY DEF ControlSafe
<1>3. ASSUME NEW d \in Clients PROVE Told(req'[d], audit')
  <2>1. CASE d = c
    BY <1>1, <2>1
  <2>2. CASE d # c
    BY <1>1, <1>2, <2>2 DEF SuccessAudited, Told
  <2> QED  BY <2>1, <2>2
<1>4. \A e \in effects' : e.op \in AuditedInTransaction => \E a \in audit' : a.n = e.n
  BY <1>2 DEF SuccessAudited
<1> QED  BY <1>3, <1>4 DEF SuccessAudited, Told

\* A step of a request that writes no row: an answer, a decision, a check.
LEMMA QuietKeeps ==
    ASSUME ControlSafe, NEW c \in Clients, NEW q, req' = [req EXCEPT ![c] = q],
           UNCHANGED <<identity, resource, idem, sent, effects>>,
           IsRequest(q), q.n \in {0, req[c].n}, Ends(req[c], q), RequestSound(q),
           audit \subseteq audit', Told(q, audit')
    PROVE  ControlSafe'
<1>1. UNCHANGED <<principal, credential, grant, resource, revealed>>
  BY DEF identity
<1>2. RowTypes' /\ RowsGrow
  BY <1>1, RowsStay DEF ControlSafe
<1>3. RequestSound(q)'
  BY <1>2, SoundStays DEF ControlSafe
<1>4. /\ RequestTypes' /\ Numbered'
      /\ \A d \in Clients : RequestSound(req[d])'
  BY <1>2, <1>3, RequestsKeep
<1>5. KeysShown'
  BY <1>1, <1>2, ShownStays
<1>6. SuccessAudited'
  BY AuditStays
<1>7. EffectsKept' /\ OneEffectPerKey' /\ RevokedStaysOut' /\ KeysReplaced'
  BY <1>1 DEF ControlSafe, EffectsKept, Kept, OneEffectPerKey, RevokedStaysOut, KeysReplaced
<1> QED  BY <1>2, <1>4, <1>5, <1>6, <1>7 DEF ControlSafe

\* NoRequest is a request that is over.
LEMMA NoRequestFacts ==
    /\ IsRequest(NoRequest) /\ NoRequest.n = 0 /\ NoRequest.pc = "idle"
    /\ RequestSound(NoRequest)
BY DEF NoRequest, IsRequest, RequestFields, RequestSound, Finished

\* What is left of a request that was answered.
Left(r, status, replayed) ==
    IF status < 400
    THEN [NoRequest EXCEPT !.n = r.n, !.op = r.op, !.pc = "done",
                           !.status = status, !.replayed = replayed]
    ELSE NoRequest

\* An answer leaves a request that is over, under its number or under none.
LEMMA AnsweredFacts ==
    ASSUME NEW c \in Clients, NEW status \in Nat, NEW replayed \in BOOLEAN
    PROVE  LET q == Left(req[c], status, replayed)
           IN /\ Answered(c, status, replayed) = [req EXCEPT ![c] = q]
              /\ IsRequest(q) /\ q.n \in {0, req[c].n} /\ q.pc \in Finished /\ RequestSound(q)
              /\ q.pc = "done" => /\ status < 400 /\ q.n = req[c].n /\ q.status = status
                                  /\ q.op = req[c].op /\ q.replayed = replayed
<1> DEFINE told == [NoRequest EXCEPT !.n = req[c].n, !.op = req[c].op, !.pc = "done",
                                     !.status = status, !.replayed = replayed]
           q == Left(req[c], status, replayed)
<1>1. /\ Answered(c, status, replayed) = [req EXCEPT ![c] = q]
      /\ q = IF status < 400 THEN told ELSE NoRequest
  BY DEF Answered, Left
<1>2. /\ IsRequest(told) /\ told.n = req[c].n /\ told.pc = "done" /\ told.status = status
      /\ told.op = req[c].op /\ told.replayed = replayed
  BY DEF NoRequest, IsRequest, RequestFields
<1> HIDE DEF told, q
<1>3. RequestSound(told)
  BY <1>2 DEF RequestSound, Finished
<1>4. /\ IsRequest(q) /\ q.n \in {0, req[c].n} /\ q.pc \in Finished /\ RequestSound(q)
      /\ q.pc = "done" => /\ status < 400 /\ q.n = req[c].n /\ q.status = status
                          /\ q.op = req[c].op /\ q.replayed = replayed
  BY <1>1, <1>2, <1>3, NoRequestFacts DEF Finished
<1> QED  BY <1>1, <1>4 DEF q

-----------------------------------------------------------------------------
(* Answers and admission *)

\* A request that ends in an answer which its events bear out.
LEMMA EndsKeeps ==
    ASSUME ControlSafe, NEW c \in Clients, NEW status \in Nat, NEW replayed \in BOOLEAN,
           req' = Answered(c, status, replayed), audit \subseteq audit',
           UNCHANGED <<identity, resource, idem, sent, effects>>,
           \/ status >= 400
           \/ \E a \in audit' : a.n = req[c].n /\ a.status = status
           \/ replayed /\ req[c].op \in {"grants.create", "aliases.create", "catalog.create"}
    PROVE  ControlSafe'
<1> DEFINE q == Left(req[c], status, replayed)
<1>1. /\ req' = [req EXCEPT ![c] = q]
      /\ IsRequest(q) /\ q.n \in {0, req[c].n} /\ q.pc \in Finished /\ RequestSound(q)
      /\ q.pc = "done" => /\ status < 400 /\ q.n = req[c].n /\ q.status = status
                          /\ q.op = req[c].op /\ q.replayed = replayed
  BY AnsweredFacts
<1> HIDE DEF q
<1>2. Told(q, audit')
  BY <1>1 DEF Told
<1> QED  BY <1>1, <1>2, QuietKeeps DEF Ends

\* The event of a success is the one that its answer waits for.
LEMMA EventFacts ==
    ASSUME NEW c \in Clients, NEW status \in Nat, audit' = audit \cup Event(c, status)
    PROVE  /\ audit \subseteq audit'
           /\ status >= 400 \/ \E a \in audit' : a.n = req[c].n /\ a.status = status
<1> DEFINE a == [n |-> req[c].n, status |-> status]
<1>1. a.n = req[c].n /\ a.status = status
  OBVIOUS
<1>2. status < 400 => audit' = audit \cup {a}
  BY DEF Event
<1> HIDE DEF a
<1> QED  BY <1>1, <1>2

\* An answer whose event was refused is a 503 and changes nothing.
LEMMA UnauditedKeeps ==
    ASSUME ControlSafe, NEW c \in Clients, req' = Answered(c, 503, FALSE),
           UNCHANGED <<identity, resource, idem, audit, sent, effects>>
    PROVE  ControlSafe'
<1> DEFINE status == 503
<1>1. status \in Nat /\ status >= 400 /\ req' = Answered(c, status, FALSE)
  OBVIOUS
<1>2. audit \subseteq audit' /\ UNCHANGED <<identity, resource, idem, sent, effects>>
  OBVIOUS
<1> HIDE DEF status
<1> QED  BY <1>1, <1>2, EndsKeeps

\* An answer, or its 503, once its event was accepted or not.
LEMMA AnswerKeeps ==
    ASSUME ControlSafe, NEW c \in Clients, NEW status \in Nat, Answer(c, status)
    PROVE  ControlSafe'
<1>1. UNCHANGED <<identity, resource, idem, sent, effects>>
  BY DEF Answer
<1>2. CASE audit' = audit \cup Event(c, status) /\ req' = Answered(c, status, FALSE)
  BY <1>1, <1>2, EventFacts, EndsKeeps
<1>3. CASE req' = Answered(c, 503, FALSE) /\ audit' = audit
  BY <1>1, <1>3, UnauditedKeeps
<1> QED  BY <1>2, <1>3 DEF Answer, finish

\* A transaction whose event was refused.
LEMMA AuditRefusedKeeps ==
    ASSUME ControlSafe, NEW c \in Clients, AuditRefused(c)
    PROVE  ControlSafe'
BY UnauditedKeeps DEF AuditRefused

\* A stored answer is told without an event by the three handlers that do so.
LEMMA ReplayKeeps ==
    ASSUME ControlSafe, NEW c \in Clients, NEW status \in Nat, Replay(c, status),
           req[c].op \in {"grants.create", "aliases.create", "catalog.create"}
    PROVE  ControlSafe'
BY EndsKeeps DEF Replay

\* A request is lost before its answer.
LEMMA LoseKeeps ==
    ASSUME ControlSafe, NEW c \in Clients, Lose(c)
    PROVE  ControlSafe'
BY NoRequestFacts, QuietKeeps DEF Lose, Ends, Told, Finished

\* A request that goes on within its handler.
LEMMA GoesKeeps ==
    ASSUME ControlSafe, NEW c \in Clients, NEW q, req' = [req EXCEPT ![c] = q],
           UNCHANGED <<identity, resource, idem, audit, sent, effects>>,
           IsRequest(q), q.n = req[c].n, req[c].pc \notin Finished, q.pc \notin Finished,
           RequestSound(q)
    PROVE  ControlSafe'
BY QuietKeeps DEF Ends, Told, Finished

\* The caller is who owns the key now, and the key is not out.
LEMMA AuthenticateKeeps ==
    ASSUME ControlSafe, NEW c \in Clients, Authenticate(c)
    PROVE  ControlSafe'
<1> DEFINE r == req[c]
           row == credential[r.cred]
           active == principal[row.owner].status = "active"
           q == [r EXCEPT !.pc = "authenticated", !.who = row.owner, !.active = active]
<1>1. CASE Answer(c, 401)
  BY <1>1, AnswerKeeps
<1>2. CASE /\ row.status = "active"
           /\ req' = [req EXCEPT ![c].pc = "authenticated", ![c].who = row.owner,
                                 ![c].active = active]
           /\ UNCHANGED <<identity, resource, idem, audit, sent, effects>>
  <2>1. RowTypes /\ RequestTypes /\ RequestSound(r) /\ IsRequest(r) /\ r.pc = "arrived"
    BY DEF ControlSafe, RequestTypes, Authenticate
  <2>2. req' = [req EXCEPT ![c] = q]
    BY <1>2, <2>1 DEF RequestTypes
  <2>3. /\ r.cred \in Credentials /\ row # None /\ BarredSound(r) /\ r.op \in Operations
        /\ r.n # 0 /\ (r.key # None => r.op \in Keyed)
        /\ r.op \notin GovernedOps =>
              \E in \in Inputs[r.op] : r.target = in[1] /\ r.value = in[2]
    BY <2>1 DEF RequestSound, Finished
  <2>4. row \in CredentialRow /\ row.owner \in Principals /\ principal[row.owner] # None
    BY <2>1, <2>3 DEF RowTypes, CredentialRow
  <2>5. principal[row.owner].stamp \in Nat
    BY <2>1, <2>4 DEF RowTypes, PrincipalRow
  <2>6. <<"credential", r.cred, 0>> \notin r.barred
    BY <1>2, <2>3 DEF BarredSound
  <2>7. active => \A s : <<"principal", row.owner, s>> \in r.barred =>
                            s < principal[row.owner].stamp
    BY <2>3, <2>4, <2>5 DEF BarredSound
  <2> HIDE DEF row, active
  <2>8. /\ IsRequest(q) /\ q.n = r.n /\ q.op = r.op /\ q.key = r.key /\ q.target = r.target
        /\ q.value = r.value /\ q.cred = r.cred /\ q.barred = r.barred
        /\ q.pc = "authenticated" /\ q.who = row.owner /\ q.active = active
    BY <2>1 DEF IsRequest, RequestFields
  <2> HIDE DEF q
  <2>9. BarredSound(q)
    BY <2>3, <2>8 DEF BarredSound
  <2>10. RequestSound(q)
    BY <2>3, <2>4, <2>6, <2>7, <2>8, <2>9 DEF RequestSound, Known, Allowed, row
  <2> QED  BY <1>2, <2>1, <2>2, <2>8, <2>10, GoesKeeps DEF Finished
<1> QED  BY <1>1, <1>2 DEF Authenticate

\* The grant that allows a request, and the resource it names, are active when it is
\* authorized; so neither was out when the request came.
LEMMA AuthorizeKeeps ==
    ASSUME ControlSafe, NEW c \in Clients, Authorize(c)
    PROVE  ControlSafe'
<1> DEFINE r == req[c]
           allowing == CASE r.op \in UsageRoutes -> authorize_usage(r)
                         [] r.op \in AuditRoutes -> _authorized(r)
                         [] OTHER -> _authorize(r)
<1>1. CASE Answer(c, IF r.op = "credentials.list" THEN 404 ELSE 403)
  BY <1>1, AnswerKeeps
<1>2. CASE /\ \E g \in allowing :
                 req' = [req EXCEPT ![c].pc = "authorized", ![c].grant = g]
           /\ UNCHANGED <<identity, resource, idem, audit, sent, effects>>
  <2>1. PICK g \in allowing : req' = [req EXCEPT ![c].pc = "authorized", ![c].grant = g]
    BY <1>2
  <2> DEFINE q == [r EXCEPT !.pc = "authorized", !.grant = g]
             o == CONTROL_SCOPES(r.op)[2]
  <2>2. /\ RowTypes /\ RequestTypes /\ RequestSound(r) /\ IsRequest(r)
        /\ r.pc = "authenticated"
    BY DEF ControlSafe, RequestTypes, Authorize
  <2>3. req' = [req EXCEPT ![c] = q]
    BY <2>1, <2>2 DEF RequestTypes
  <2>4. /\ r.cred \in Credentials /\ credential[r.cred] # None /\ BarredSound(r)
        /\ r.op \in Operations /\ r.n # 0 /\ (r.key # None => r.op \in Keyed)
        /\ r.op \notin GovernedOps =>
              \E in \in Inputs[r.op] : r.target = in[1] /\ r.value = in[2]
        /\ <<"credential", r.cred, 0>> \notin r.barred
        /\ r.who \in Principals /\ principal[r.who] # None
        /\ r.active => \A s : <<"principal", r.who, s>> \in r.barred =>
                                 s < principal[r.who].stamp
    BY <2>2 DEF RequestSound, Finished, Known
  <2>5. /\ r.active /\ g \in Grants /\ grant[g] # None /\ grant[g].status = "active"
        /\ Evidenced(r.op) => resource[o] # None /\ resource[o].status = "active"
    BY <2>1 DEF authorize_usage, _authorized, _authorize, evaluate, find_active, Evidenced
  <2>6. <<"grant", g, 0>> \notin r.barred
    BY <2>4, <2>5 DEF BarredSound
  <2> HIDE DEF o
  <2>7. ASSUME Evidenced(r.op), NEW s, <<"resource", o, s>> \in r.barred
        PROVE  s < resource[o].stamp
    <3>1. /\ o \in Resources /\ s \in Nat /\ s <= resource[o].stamp
          /\ s # resource[o].stamp
      BY <2>4, <2>5, <2>7 DEF BarredSound
    <3>2. resource[o].stamp \in Nat
      BY <2>2, <2>5, <2>7, <3>1 DEF RowTypes
    <3> QED  BY <3>1, <3>2
  <2>8. /\ IsRequest(q) /\ q.n = r.n /\ q.op = r.op /\ q.key = r.key /\ q.target = r.target
        /\ q.value = r.value /\ q.cred = r.cred /\ q.barred = r.barred
        /\ q.pc = "authorized" /\ q.who = r.who /\ q.active = r.active /\ q.grant = g
    BY <2>2 DEF IsRequest, RequestFields
  <2> HIDE DEF q
  <2>9. BarredSound(q)
    BY <2>4, <2>8 DEF BarredSound
  <2>10. RequestSound(q)
    BY <2>4, <2>5, <2>6, <2>7, <2>8, <2>9 DEF RequestSound, Known, Allowed, o
  <2> QED  BY <1>2, <2>2, <2>3, <2>8, <2>10, GoesKeeps DEF Finished
<1> QED  BY <1>1, <1>2 DEF Authorize

\* A malformed request is answered.
LEMMA RefuseMalformedKeeps ==
    ASSUME ControlSafe, NEW c \in Clients, RefuseMalformed(c)
    PROVE  ControlSafe'
BY AnswerKeeps DEF RefuseMalformed

\* What is barred when a request comes is what is out then.
LEMMA RevokedIsOut ==
    ASSUME RowTypes, NEW r, r.barred = Revoked
    PROVE  BarredSound(r)
<1>1. /\ \A p \in Principals : principal[p] # None => principal[p].stamp \in Nat
      /\ \A o \in Resources : resource[o] # None => resource[o].stamp \in Nat
  BY DEF RowTypes, PrincipalRow
<1>2. ASSUME NEW k, <<"credential", k, 0>> \in r.barred
      PROVE  credential[k] # None /\ credential[k].status = "revoked"
  BY <1>2 DEF Revoked
<1>3. ASSUME NEW g, <<"grant", g, 0>> \in r.barred
      PROVE  grant[g] # None /\ grant[g].status = "revoked"
  BY <1>3 DEF Revoked
<1>4. ASSUME NEW p, NEW s, <<"principal", p, s>> \in r.barred
      PROVE  /\ p \in Principals /\ principal[p] # None /\ s = principal[p].stamp
             /\ principal[p].status # "active"
  BY <1>4 DEF Revoked
<1>5. ASSUME NEW o, NEW s, <<"resource", o, s>> \in r.barred
      PROVE  /\ o \in Resources /\ resource[o] # None /\ s = resource[o].stamp
             /\ resource[o].status # "active"
  BY <1>5 DEF Revoked
<1> QED  BY <1>1, <1>2, <1>3, <1>4, <1>5 DEF BarredSound

\* A new request has a new number.
LEMMA SubmitKeeps ==
    ASSUME ControlSafe, NEW c \in Clients, Submit(c)
    PROVE  ControlSafe'
<1>1. /\ req[c].pc \in Finished /\ sent' = sent + 1
      /\ UNCHANGED <<principal, credential, grant, revealed, resource, idem, audit, effects>>
  BY DEF Submit, identity
<1>2. PICK op \in Operations, cred \in Credentials :
         \E in \in Inputs[op], key \in IF op \in Keyed THEN Keys ELSE {None} :
            /\ credential[cred] # None
            /\ req' = [req EXCEPT ![c] =
                 [NoRequest EXCEPT !.n = sent + 1, !.op = op, !.key = key,
                    !.target = in[1], !.value = in[2], !.cred = cred,
                    !.seen = Stamp(op, in[1]), !.barred = Revoked,
                    !.pc = "arrived"]]
  BY DEF Submit
<1>3. PICK in \in Inputs[op], key \in IF op \in Keyed THEN Keys ELSE {None} :
         /\ credential[cred] # None
         /\ req' = [req EXCEPT ![c] =
              [NoRequest EXCEPT !.n = sent + 1, !.op = op, !.key = key,
                 !.target = in[1], !.value = in[2], !.cred = cred,
                 !.seen = Stamp(op, in[1]), !.barred = Revoked,
                 !.pc = "arrived"]]
  BY <1>2
<1> DEFINE stamp == Stamp(op, in[1])
           barred == Revoked
           q == [NoRequest EXCEPT !.n = sent + 1, !.op = op, !.key = key,
                   !.target = in[1], !.value = in[2], !.cred = cred,
                   !.seen = stamp, !.barred = barred, !.pc = "arrived"]
<1>4. req' = [req EXCEPT ![c] = q]
  BY <1>3
<1> HIDE DEF stamp, barred
<1>5. /\ IsRequest(q) /\ q.n = sent + 1 /\ q.op = op /\ q.key = key /\ q.target = in[1]
      /\ q.value = in[2] /\ q.cred = cred /\ q.barred = barred /\ q.pc = "arrived"
  BY DEF NoRequest, IsRequest, RequestFields
<1> HIDE DEF q
<1>6. RowTypes /\ RequestTypes /\ sent \in Nat
  BY DEF ControlSafe, RequestTypes
<1>7. BarredSound(q)
  BY <1>5, <1>6, RevokedIsOut DEF barred
<1>8. RequestSound(q)
  BY <1>3, <1>5, <1>6, <1>7 DEF RequestSound, Known, Allowed
<1>9. RowTypes' /\ RowsGrow
  BY <1>1, <1>6, RowsStay
<1>10. /\ req' = [d \in Clients |-> req'[d]] /\ req'[c] = q
       /\ \A d \in Clients : d # c => req'[d] = req[d]
  BY <1>4, <1>6, RequestMoves
<1>11. \A d \in Clients : IsRequest(req[d]) /\ req[d].n \in 0..sent
  BY <1>6 DEF RequestTypes
<1>12. RequestTypes'
  <2>1. \A d \in Clients : IsRequest(req'[d]) /\ req'[d].n \in 0..(sent + 1)
    BY <1>5, <1>6, <1>10, <1>11
  <2> QED  BY <1>1, <1>6, <1>10, <2>1 DEF RequestTypes, IsRequest
<1>13. Numbered'
  BY <1>5, <1>6, <1>10, <1>11 DEF ControlSafe, Numbered
<1>14. ASSUME NEW d \in Clients PROVE RequestSound(req[d])'
  <2>1. RequestSound(req'[d])
    BY <1>8, <1>10 DEF ControlSafe
  <2> QED  BY <1>6, <1>9, <2>1, SoundStays
<1>15. KeysShown'
  <2>1. \A k \in Credentials : credential[k] # None => credential[k].by \in Nat
    BY <1>6 DEF RowTypes, CredentialRow
  <2>2. \A k \in Credentials : credential[k] # None => credential[k].by <= sent
    BY DEF ControlSafe, KeysShown
  <2>3. \A k \in Credentials : credential[k] # None => credential[k].by <= sent + 1
    BY <1>6, <2>1, <2>2
  <2>4. ASSUME NEW k \in Credentials, revealed[k] # 0
        PROVE  /\ revealed[k] = 1 /\ credential[k] # None
               /\ \A d \in Clients : req'[d].pc \notin Finished => req'[d].n # credential[k].by
    <3>1. /\ revealed[k] = 1 /\ credential[k] # None
          /\ \A d \in Clients : req[d].pc \notin Finished => req[d].n # credential[k].by
      BY <2>4 DEF ControlSafe, KeysShown
    <3>2. q.n # credential[k].by
      BY <1>5, <1>6, <2>1, <2>2, <3>1
    <3> QED  BY <1>10, <3>1, <3>2
  <2> QED  BY <1>1, <2>3, <2>4 DEF KeysShown
<1>16. SuccessAudited'
  BY <1>1, <1>4, <1>5, AuditStays DEF Told
<1>17. EffectsKept' /\ OneEffectPerKey' /\ RevokedStaysOut' /\ KeysReplaced'
  BY <1>1 DEF ControlSafe, EffectsKept, Kept, OneEffectPerKey, RevokedStaysOut, KeysReplaced
<1> QED  BY <1>9, <1>12, <1>13, <1>14, <1>15, <1>16, <1>17 DEF ControlSafe

\* A key is shown by the request that made it, which is over then.
LEMMA FinishKeeps ==
    ASSUME ControlSafe, NEW c \in Clients, Finish(c)
    PROVE  ControlSafe'
<1> DEFINE r == req[c]
<1>1. /\ r.pc = "committed"
      /\ UNCHANGED <<principal, credential, grant, resource, idem, sent, effects>>
  BY DEF Finish
<1>2. /\ RowTypes /\ RequestTypes /\ RequestSound(r) /\ KeysShown /\ Numbered
      /\ r.status \in Nat /\ r.replayed \in BOOLEAN
  BY DEF ControlSafe, RequestTypes, IsRequest
<1>3. r.n # 0 /\ r.pc \notin Finished
  BY <1>1, <1>2 DEF RequestSound, Finished
<1>4. CASE req' = Answered(c, 503, FALSE) /\ UNCHANGED <<audit, revealed>>
  BY <1>1, <1>4, UnauditedKeeps DEF identity
<1>5. CASE /\ audit' = audit \cup Event(c, r.status)
           /\ req' = Answered(c, r.status, r.replayed)
           /\ revealed' = [k \in Credentials |->
                 IF ~r.replayed /\ credential[k] # None /\ credential[k].by = r.n
                 THEN revealed[k] + 1 ELSE revealed[k]]
  <2> PICK q : q = Left(r, r.status, r.replayed)
    OBVIOUS
  <2>1. /\ req' = [req EXCEPT ![c] = q]
        /\ IsRequest(q) /\ q.n \in {0, r.n} /\ q.pc \in Finished /\ RequestSound(q)
        /\ q.pc = "done" => /\ r.status < 400 /\ q.n = r.n /\ q.status = r.status
                            /\ q.op = r.op /\ q.replayed = r.replayed
    BY <1>2, <1>5, AnsweredFacts
  <2>2. /\ audit \subseteq audit'
        /\ r.status >= 400 \/ \E a \in audit' : a.n = r.n /\ a.status = r.status
    BY <1>2, <1>5, EventFacts, SMTT(30)
  <2>3. Told(q, audit')
    BY <1>2, <2>1, <2>2 DEF Told
  <2>4. revealed' \in [Credentials -> Nat]
    BY <1>2, <1>5 DEF RowTypes
  <2>5. RowTypes' /\ RowsGrow
    <3>1. RowTypes'
      BY <1>1, <1>2, <2>4 DEF RowTypes
    <3>2. /\ \A p \in Principals : principal[p] # None => principal[p].stamp \in Nat
          /\ \A o \in Resources : resource[o] # None => resource[o].stamp \in Nat
      BY <1>2 DEF RowTypes, PrincipalRow
    <3> QED  BY <1>1, <3>1, <3>2 DEF RowsGrow
  <2>6. RequestSound(q)'
    BY <1>2, <2>1, <2>5, SoundStays
  <2>7. /\ RequestTypes' /\ Numbered' /\ \A d \in Clients : RequestSound(req[d])'
    BY <1>1, <2>1, <2>5, <2>6, RequestsKeep
  <2>8. SuccessAudited'
    BY <1>1, <2>1, <2>2, <2>3, AuditStays
  <2>9. /\ req'[c] = q /\ \A d \in Clients : d # c => req'[d] = req[d]
    BY <1>2, <2>1, RequestMoves
  <2>10. ASSUME NEW k \in Credentials, revealed'[k] # 0
         PROVE  /\ revealed'[k] = 1 /\ credential[k] # None
                /\ \A d \in Clients : req'[d].pc \notin Finished => req'[d].n # credential[k].by
    <3>1. CASE revealed[k] # 0
      <4>1. /\ revealed[k] = 1 /\ credential[k] # None
            /\ \A d \in Clients : req[d].pc \notin Finished => req[d].n # credential[k].by
        BY <1>2, <3>1 DEF KeysShown
      <4>2. revealed'[k] = revealed[k]
        BY <1>3, <1>5, <4>1
      <4> QED  BY <2>1, <2>9, <4>1, <4>2
    <3>2. CASE revealed[k] = 0
      <4>1. credential[k] # None /\ credential[k].by = r.n /\ revealed'[k] = revealed[k] + 1
        BY <1>5, <2>10, <3>2
      <4>2. \A d \in Clients : d # c => req[d].n # r.n
        BY <1>2, <1>3 DEF Numbered
      <4> QED  BY <2>1, <2>9, <3>2, <4>1, <4>2
    <3> QED  BY <3>1, <3>2
  <2>11. KeysShown'
    BY <1>1, <1>2, <2>10 DEF KeysShown
  <2>12. EffectsKept' /\ OneEffectPerKey' /\ RevokedStaysOut' /\ KeysReplaced'
    BY <1>1 DEF ControlSafe, EffectsKept, Kept, OneEffectPerKey, RevokedStaysOut, KeysReplaced
  <2> QED  BY <2>5, <2>7, <2>8, <2>11, <2>12 DEF ControlSafe
<1> QED  BY <1>4, <1>5 DEF Finish

\* A replay that is told, and audited, as a first answer is.
LEMMA ReplayFirstKeeps ==
    ASSUME ControlSafe, NEW c \in Clients, req[c].pc = "authorized", NEW status \in Nat,
           ReplayFirst(c, status)
    PROVE  ControlSafe'
<1> DEFINE r == req[c]
           q == [r EXCEPT !.pc = "committed", !.status = status, !.replayed = TRUE]
<1>1. RequestTypes /\ RequestSound(r) /\ IsRequest(r)
  BY DEF ControlSafe, RequestTypes
<1>2. req' = [req EXCEPT ![c] = q]
  BY <1>1 DEF ReplayFirst, RequestTypes
<1>3. /\ IsRequest(q) /\ q.n = r.n /\ q.op = r.op /\ q.key = r.key /\ q.target = r.target
      /\ q.value = r.value /\ q.cred = r.cred /\ q.barred = r.barred /\ q.pc = "committed"
  BY <1>1 DEF IsRequest, RequestFields
<1> HIDE DEF q
<1>4. BarredSound(q)
  BY <1>1, <1>3 DEF RequestSound, BarredSound, Finished
<1>5. RequestSound(q)
  BY <1>1, <1>3, <1>4 DEF RequestSound, Known, Allowed, Finished
<1> QED  BY <1>2, <1>3, <1>5, GoesKeeps DEF ReplayFirst, Finished

-----------------------------------------------------------------------------
(* A mutation is committed *)

\* What a mutation rests on was not out when its request came.
LEMMA EvidenceStands ==
    ASSUME ControlSafe, NEW c \in Clients, req[c].pc \in Allowed, Evidenced(req[c].op)
    PROVE  Effect(c).evidence \cap Effect(c).barred = {}
<1> DEFINE r == req[c]
           o == CONTROL_SCOPES(r.op)[2]
<1>1. /\ r.cred \in Credentials /\ BarredSound(r)
      /\ <<"credential", r.cred, 0>> \notin r.barred
      /\ r.who \in Principals /\ principal[r.who] # None
      /\ \A s : <<"principal", r.who, s>> \in r.barred => s < principal[r.who].stamp
      /\ r.grant \in Grants /\ <<"grant", r.grant, 0>> \notin r.barred
      /\ \A s : <<"resource", o, s>> \in r.barred => s < resource[o].stamp
  BY DEF ControlSafe, RequestSound, Finished, Known, Allowed
<1>2. principal[r.who].stamp \in Nat
  BY <1>1 DEF ControlSafe, RowTypes, PrincipalRow
<1>3. <<"principal", r.who, principal[r.who].stamp>> \notin r.barred
  BY <1>1, <1>2
<1>4. <<"resource", o, resource[o].stamp>> \notin r.barred
  <2> SUFFICES ASSUME <<"resource", o, resource[o].stamp>> \in r.barred PROVE FALSE
    OBVIOUS
  <2> HIDE DEF o
  <2>1. resource[o].stamp \in Nat /\ resource[o].stamp < resource[o].stamp
    BY <1>1 DEF BarredSound
  <2> QED  BY <2>1
<1>5. /\ Effect(c).evidence = {<<"credential", r.cred, 0>>,
                               <<"principal", r.who, principal[r.who].stamp>>}
                              \cup {<<"grant", g, 0>> : g \in {r.grant}}
                              \cup {<<"resource", t, resource[t].stamp>> : t \in {o}}
      /\ Effect(c).barred = r.barred
  BY DEF Effect, Evidence
<1> HIDE DEF o
<1> QED  BY <1>1, <1>3, <1>4, <1>5

\* What an effect remembers of its request.
LEMMA EffectFacts ==
    ASSUME NEW c \in Clients
    PROVE  /\ Effect(c).n = req[c].n /\ Effect(c).op = req[c].op /\ Effect(c).who = req[c].who
           /\ Effect(c).key = req[c].key /\ Effect(c).target = req[c].target
           /\ Effect(c).seen = req[c].seen
BY DEF Effect

\* A key under which nothing like this was done yet.
Fresh(e) ==
    \A f \in effects : f.key # None =>
        <<e.who, e.op, e.key, e.target, e.seen>> # <<f.who, f.op, f.key, f.target, f.seen>>

\* What was kept is kept while the rows grow and no binding is lost.
LEMMA KeptStays ==
    ASSUME RowsGrow, idem \subseteq idem', NEW e, Kept(e)
    PROVE  Kept(e)'
BY DEF Kept, RowsGrow

\* A mutation, its binding and, for some handlers, its event.
LEMMA CommitKeeps ==
    ASSUME ControlSafe, NEW c \in Clients, NEW q, req' = [req EXCEPT ![c] = q],
           req[c].pc \in Allowed, Evidenced(req[c].op),
           IsRequest(q), q.n \in {0, req[c].n}, Ends(req[c], q), RequestSound(q),
           sent' = sent, revealed' = revealed, idem \subseteq idem',
           NEW e, e = Effect(c), effects' = effects \cup {e},
           audit \subseteq audit', Told(q, audit'),
           e.op \in AuditedInTransaction => \E a \in audit' : a.n = e.n,
           RowTypes', RowsGrow, KeysReplaced',
           \A k \in Credentials : credential[k] = None /\ credential'[k] # None =>
              credential'[k].by <= sent,
           e.key # None => Kept(e)' /\ Fresh(e)
    PROVE  ControlSafe'
<1>1. RequestSound(q)'
  BY SoundStays DEF ControlSafe
<1>2. RequestTypes' /\ Numbered' /\ \A d \in Clients : RequestSound(req[d])'
  BY <1>1, RequestsKeep
<1>3. KeysShown'
  BY ShownStays
<1>4. SuccessAudited'
  BY AuditStays
<1>5. RevokedStaysOut'
  <2>1. e.evidence \cap e.barred = {}
    BY EvidenceStands
  <2> QED  BY <2>1 DEF ControlSafe, RevokedStaysOut
<1>6. EffectsKept'
  <2>1. \A f \in effects : f.key # None => Kept(f)'
    BY KeptStays DEF ControlSafe, EffectsKept
  <2> QED  BY <2>1 DEF EffectsKept
<1>7. OneEffectPerKey'
  <2>1. OneEffectPerKey
    BY DEF ControlSafe
  <2> QED  BY <2>1 DEF OneEffectPerKey, Fresh
<1> QED  BY <1>2, <1>3, <1>4, <1>5, <1>6, <1>7 DEF ControlSafe

\* The binding of a request that carries a key.
LEMMA ClaimsFacts ==
    ASSUME NEW c \in Clients, Claims(c)
    PROVE  idem \subseteq idem' /\ (req[c].key # None => Bound(c) \in idem')
BY DEF Claims

\* The mutation is committed and its handler audits afterwards.
LEMMA FirstKeeps ==
    ASSUME ControlSafe, NEW c \in Clients, NEW status \in Nat, CommitsFirst(c, status),
           req[c].pc \in Allowed, Evidenced(req[c].op), req[c].op \notin AuditedInTransaction,
           revealed' = revealed, RowTypes', RowsGrow, KeysReplaced',
           \A k \in Credentials : credential[k] = None /\ credential'[k] # None =>
              credential'[k].by <= sent,
           NEW e, e = Effect(c), e.key # None => Kept(e)' /\ Fresh(e)
    PROVE  ControlSafe'
<1> DEFINE r == req[c]
<1> PICK q : q = [r EXCEPT !.pc = "committed", !.status = status]
  OBVIOUS
<1>1. RequestTypes /\ RequestSound(r) /\ IsRequest(r) /\ r.pc \notin Finished
  BY DEF ControlSafe, RequestTypes, Allowed, Finished
<1>2. req' = [req EXCEPT ![c] = q]
  BY <1>1 DEF CommitsFirst, RequestTypes
<1>3. /\ IsRequest(q) /\ q.n = r.n /\ q.op = r.op /\ q.key = r.key /\ q.target = r.target
      /\ q.value = r.value /\ q.cred = r.cred /\ q.barred = r.barred /\ q.pc = "committed"
  BY <1>1 DEF IsRequest, RequestFields
<1>4. BarredSound(q)
  BY <1>1, <1>3 DEF RequestSound, BarredSound
<1>5. RequestSound(q)
  BY <1>1, <1>3, <1>4 DEF RequestSound, Known, Allowed
<1>6. /\ sent' = sent /\ audit' = audit /\ effects' = effects \cup {e} /\ idem \subseteq idem'
  BY ClaimsFacts DEF CommitsFirst
<1>7. Ends(r, q) /\ Told(q, audit')
  BY <1>1, <1>3 DEF Ends, Told
<1>8. e.op = r.op
  BY EffectFacts
<1> QED  BY <1>2, <1>3, <1>5, <1>6, <1>7, <1>8, CommitKeeps

\* The mutation and its event are committed together.
LEMMA AuditedStep ==
    ASSUME ControlSafe, NEW c \in Clients, NEW status \in Nat, status \in 200..299,
           NEW replayed \in BOOLEAN, req' = Answered(c, status, replayed),
           audit' = audit \cup Event(c, status), Claims(c), sent' = sent,
           req[c].pc \in Allowed, Evidenced(req[c].op),
           revealed' = revealed, RowTypes', RowsGrow, KeysReplaced',
           \A k \in Credentials : credential[k] = None /\ credential'[k] # None =>
              credential'[k].by <= sent,
           NEW e, e = Effect(c), effects' = effects \cup {e},
           e.key # None => Kept(e)' /\ Fresh(e)
    PROVE  ControlSafe'
<1> DEFINE q == Left(req[c], status, replayed)
<1>1. /\ req' = [req EXCEPT ![c] = q]
      /\ IsRequest(q) /\ q.n \in {0, req[c].n} /\ q.pc \in Finished /\ RequestSound(q)
      /\ q.pc = "done" => status < 400 /\ q.n = req[c].n /\ q.status = status
  BY AnsweredFacts
<1> HIDE DEF q
<1>2. idem \subseteq idem'
  BY ClaimsFacts
<1>3. /\ audit \subseteq audit'
      /\ \E a \in audit' : a.n = req[c].n /\ a.status = status
  BY EventFacts
<1>4. Ends(req[c], q) /\ Told(q, audit')
  BY <1>1, <1>3 DEF Ends, Told
<1>5. e.n = req[c].n
  BY EffectFacts
<1> QED  BY <1>1, <1>2, <1>3, <1>4, <1>5, CommitKeeps

\* So it is for a handler that audits in its transaction.
LEMMA AuditedKeeps ==
    ASSUME ControlSafe, NEW c \in Clients, NEW status \in Nat, status \in 200..299,
           CommitsAudited(c, status), req[c].pc \in Allowed, Evidenced(req[c].op),
           revealed' = revealed, RowTypes', RowsGrow, KeysReplaced',
           \A k \in Credentials : credential[k] = None /\ credential'[k] # None =>
              credential'[k].by <= sent,
           NEW e, e = Effect(c), e.key # None => Kept(e)' /\ Fresh(e)
    PROVE  ControlSafe'
<1>1. /\ req' = Answered(c, status, FALSE) /\ audit' = audit \cup Event(c, status)
      /\ Claims(c) /\ sent' = sent /\ effects' = effects \cup {e}
  BY DEF CommitsAudited
<1> QED  BY <1>1, AuditedStep

-----------------------------------------------------------------------------
(* The operations *)

\* What the contract says of the operations that write identities.
LEMMA RouteFacts ==
    /\ {"principals.status.replace", "credentials.revoke", "grants.revoke"} \cap Keyed = {}
    /\ \A op \in {"principals.create", "principals.status.replace", "credentials.issue",
                  "credentials.revoke", "credentials.rotate", "grants.create",
                  "grants.revoke"} : Evidenced(op)
    /\ {"principals.create", "principals.status.replace", "credentials.issue",
        "credentials.revoke", "credentials.rotate"} \cap AuditedInTransaction = {}
<1>1. ASSUME NEW x \in Routes,
             x.op \in {"principals.status.replace", "credentials.revoke", "grants.revoke"}
      PROVE  "key" \notin x.carries
  BY <1>1 DEF Routes, PrincipalRoutes, CredentialRoutes, GrantRoutes, AliasRoutes,
              CatalogRoutes, SkillRoutes, BoKRoutes, LimitRoutes, Route
<1>2. {"principals.status.replace", "credentials.revoke", "grants.revoke"} \cap Keyed = {}
  BY <1>1 DEF Keyed
<1> QED  BY <1>2 DEF Evidenced, UsageRoutes, AuditRoutes, GovernedOps, MCPRoutes,
                     ResolutionRoutes, RetrievalRoutes, AuditedInTransaction

\* The body of a request that its handler acts on.
LEMMA BodyFacts ==
    ASSUME ControlSafe, NEW c \in Clients, req[c].pc \in Allowed,
           req[c].op \notin GovernedOps
    PROVE  /\ req[c].key # None => req[c].op \in Keyed
           /\ req[c].n \in Nat /\ req[c].n <= sent
           /\ req[c].op \in {"principals.create", "principals.status.replace",
                             "credentials.issue"} => req[c].target \in Principals
           /\ req[c].op \in {"credentials.revoke", "credentials.rotate"} =>
                 req[c].target \in Credentials
           /\ req[c].op \in {"grants.create", "grants.revoke"} => req[c].target \in Grants
           /\ req[c].op = "principals.create" => req[c].value \in {"human", "agent"}
           /\ req[c].op = "principals.status.replace" =>
                 req[c].value \in {"active", "inactive"}
           /\ req[c].op \in {"credentials.issue", "credentials.rotate"} =>
                 req[c].value \in {"never", "soon"}
           /\ req[c].op = "grants.create" => req[c].value \in
                 [principal : Principals, action : STRING, resource : Resources]
<1>1. RequestSound(req[c]) /\ req[c].n \in 0..sent /\ sent \in Nat
  BY DEF ControlSafe, RequestTypes
<1>2. /\ req[c].op \in Operations /\ (req[c].key # None => req[c].op \in Keyed)
      /\ \E in \in Inputs[req[c].op] : req[c].target = in[1] /\ req[c].value = in[2]
  BY <1>1 DEF RequestSound, Allowed, Finished
<1> QED  BY <1>1, <1>2, InputsAssumption

\* A principal is created where there was none.
LEMMA CreatePrincipalKeeps ==
    ASSUME ControlSafe, NEW c \in Clients, create_principal(c)
    PROVE  ControlSafe'
<1> DEFINE r == req[c]
<1>1. r.op = "principals.create" /\ r.pc = "authorized" /\ r.pc \in Allowed
  BY DEF create_principal, At, Allowed
<1>2. CASE ReplayFirst(c, 201)
  BY <1>1, <1>2, ReplayFirstKeeps
<1>3. CASE Answer(c, 409)
  BY <1>3, AnswerKeeps
<1>4. CASE /\ principal[r.target] = None
           /\ principal' = [principal EXCEPT ![r.target] = NewPrincipal(r.value)]
           /\ CommitsFirst(c, 201)
           /\ UNCHANGED <<credential, grant, revealed, resource>>
  <2>1. r.target \in Principals /\ r.value \in {"human", "agent"} /\ RowTypes
    BY <1>1, BodyFacts DEF GovernedOps, MCPRoutes, ResolutionRoutes, RetrievalRoutes, ControlSafe
  <2>2. NewPrincipal(r.value) \in PrincipalRow /\ NewPrincipal(r.value) # None
    BY <2>1, SeedsAssumption DEF NewPrincipal, PrincipalRow
  <2>3. /\ principal' \in [Principals -> PrincipalRow \cup {None}]
        /\ principal'[r.target] # None
        /\ \A p \in Principals : principal[p] # None => principal'[p] = principal[p]
    BY <1>4, <2>1, <2>2 DEF RowTypes
  <2>4. RowTypes'
    BY <1>4, <2>1, <2>3 DEF RowTypes, CredentialRow
  <2>5. RowsGrow
    <3>1. /\ \A p \in Principals : principal[p] # None => principal[p].stamp \in Nat
          /\ \A o \in Resources : resource[o] # None => resource[o].stamp \in Nat
      BY <2>1 DEF RowTypes, PrincipalRow
    <3> QED  BY <1>4, <2>3, <3>1 DEF RowsGrow
  <2>6. KeysReplaced'
    BY <1>4 DEF ControlSafe, KeysReplaced
  <2> PICK e : e = Effect(c)
    OBVIOUS
  <2>7. e.op = r.op /\ e.target = r.target
    BY EffectFacts
  <2>8. Kept(e)'
    BY <1>1, <2>1, <2>3, <2>7 DEF Kept
  <2>9. Fresh(e)
    BY <1>1, <1>4, <2>7 DEF Fresh, ControlSafe, EffectsKept, Kept
  <2> QED  BY <1>1, <1>4, <2>4, <2>5, <2>6, <2>8, <2>9, RouteFacts, FirstKeeps
<1> QED  BY <1>2, <1>3, <1>4 DEF create_principal

\* A new status is a new stamp.
LEMMA ReplaceStatusKeeps ==
    ASSUME ControlSafe, NEW c \in Clients, replace_principal_status(c)
    PROVE  ControlSafe'
<1> DEFINE r == req[c]
           row == principal[r.target]
<1>1. r.op = "principals.status.replace" /\ r.pc \in Allowed
  BY DEF replace_principal_status, At, Allowed
<1>2. CASE Answer(c, 404) \/ Answer(c, 409)
  BY <1>2, AnswerKeeps
<1>3. CASE /\ row # None
           /\ principal' = [principal EXCEPT ![r.target] = StatusReplaced(row, r.value)]
           /\ CommitsFirst(c, 200)
           /\ UNCHANGED <<credential, grant, revealed, resource>>
  <2>1. /\ r.target \in Principals /\ r.value \in {"active", "inactive"} /\ RowTypes
        /\ r.key = None
    BY <1>1, BodyFacts, RouteFacts
       DEF GovernedOps, MCPRoutes, ResolutionRoutes, RetrievalRoutes, ControlSafe
  <2>2. row \in PrincipalRow
    BY <1>3, <2>1 DEF RowTypes
  <2> DEFINE set == [row EXCEPT !.status = r.value]
             new == [set EXCEPT !.stamp = row.stamp + 1]
  <2>3. StatusReplaced(row, r.value) = new
    BY <2>2 DEF StatusReplaced, PrincipalRow
  <2>4. set \in PrincipalRow /\ row.stamp \in Nat
    BY <2>1, <2>2 DEF PrincipalRow
  <2> HIDE DEF set
  <2>5. new \in PrincipalRow /\ new.stamp = row.stamp + 1
    BY <2>4 DEF PrincipalRow
  <2> HIDE DEF new
  <2>6. /\ principal' \in [Principals -> PrincipalRow \cup {None}]
        /\ principal'[r.target] = new /\ new # None
        /\ \A p \in Principals : p # r.target => principal'[p] = principal[p]
    BY <1>3, <2>1, <2>3, <2>5, SeedsAssumption DEF RowTypes
  <2>7. RowTypes'
    BY <1>3, <2>1, <2>6 DEF RowTypes, CredentialRow
  <2>8. RowsGrow
    <3>1. /\ \A p \in Principals : principal[p] # None => principal[p].stamp \in Nat
          /\ \A o \in Resources : resource[o] # None => resource[o].stamp \in Nat
      BY <2>1 DEF RowTypes, PrincipalRow
    <3>2. ASSUME NEW p \in Principals, principal[p] # None
          PROVE  /\ principal'[p] # None /\ principal[p].stamp <= principal'[p].stamp
                 /\ principal'[p].stamp = principal[p].stamp =>
                       principal'[p].status = principal[p].status
      <4>1. CASE p = r.target
        BY <2>4, <2>5, <2>6, <4>1
      <4>2. CASE p # r.target
        BY <2>6, <3>1, <3>2, <4>2
      <4> QED  BY <4>1, <4>2
    <3> QED  BY <1>3, <3>1, <3>2 DEF RowsGrow
  <2>9. KeysReplaced'
    BY <1>3 DEF ControlSafe, KeysReplaced
  <2> PICK e : e = Effect(c)
    OBVIOUS
  <2>10. e.key = None
    BY <2>1, EffectFacts
  <2> QED  BY <1>1, <1>3, <2>7, <2>8, <2>9, <2>10, RouteFacts, FirstKeeps
<1> QED  BY <1>2, <1>3 DEF replace_principal_status

\* The rows that a change of keys leaves alone.
KeysOnly == UNCHANGED <<principal, grant, revealed, resource>>

\* Every key that was there keeps its owner, its number and what it replaces, and a
\* revoked one stays revoked.
KeysGrow ==
    \A k \in Credentials : credential[k] # None =>
        /\ credential'[k] # None
        /\ credential'[k].owner = credential[k].owner
        /\ credential'[k].by = credential[k].by
        /\ credential'[k].replaces = credential[k].replaces
        /\ credential[k].status = "revoked" => credential'[k].status = "revoked"

\* A change of keys is a growth of the rows.
LEMMA KeysChange ==
    ASSUME RowTypes, KeysOnly, KeysGrow,
           credential' \in [Credentials -> CredentialRow \cup {None}],
           \A k \in Credentials : credential[k] = None /\ credential'[k] # None =>
              principal[credential'[k].owner] # None
    PROVE  RowTypes' /\ RowsGrow
<1>1. RowTypes'
  BY DEF RowTypes, KeysOnly, KeysGrow
<1>2. /\ \A p \in Principals : principal[p] # None => principal[p].stamp \in Nat
      /\ \A o \in Resources : resource[o] # None => resource[o].stamp \in Nat
  BY DEF RowTypes, PrincipalRow
<1> QED  BY <1>1, <1>2 DEF RowsGrow, KeysOnly, KeysGrow

\* A key that is revoked and otherwise as it was.
LEMMA KeyRevokedFacts ==
    ASSUME RowTypes, NEW k \in Credentials, credential[k] # None
    PROVE  /\ KeyRevoked(k) \in [Credentials -> CredentialRow \cup {None}]
           /\ KeyRevoked(k)[k] # None /\ KeyRevoked(k)[k].status = "revoked"
           /\ KeyRevoked(k)[k].owner = credential[k].owner
           /\ KeyRevoked(k)[k].by = credential[k].by
           /\ KeyRevoked(k)[k].replaces = credential[k].replaces
           /\ \A j \in Credentials : j # k => KeyRevoked(k)[j] = credential[j]
<1>1. credential[k] \in CredentialRow /\ credential \in [Credentials -> CredentialRow \cup {None}]
  BY DEF RowTypes
<1> DEFINE new == [credential[k] EXCEPT !.status = "revoked"]
<1>2. KeyRevoked(k) = [credential EXCEPT ![k] = new]
  BY <1>1 DEF KeyRevoked
<1>3. /\ new \in CredentialRow /\ new.status = "revoked" /\ new.owner = credential[k].owner
      /\ new.by = credential[k].by /\ new.replaces = credential[k].replaces
  BY <1>1 DEF CredentialRow
<1> HIDE DEF new
<1>4. new # None
  BY <1>3, SeedsAssumption
<1> QED  BY <1>1, <1>2, <1>3, <1>4

\* A fresh identifier is one that no key has.
LEMMA FreshFacts ==
    ASSUME Unused # {}
    PROVE  FreshId \in Credentials /\ credential[FreshId] = None
BY DEF FreshId, Unused

\* The key that a request makes.
LEMMA IssuedFacts ==
    ASSUME ControlSafe, NEW c \in Clients, req[c].pc \in Allowed,
           req[c].op \in {"credentials.issue", "credentials.rotate"},
           NEW holder \in Principals, NEW old \in Credentials \cup {None}
    PROVE  LET new == Issued(c, holder, old)
           IN /\ new \in CredentialRow /\ new # None /\ new.owner = holder
              /\ new.replaces = old /\ new.by = req[c].n
<1>1. req[c].n \in Nat /\ req[c].value \in {"never", "soon"}
  BY BodyFacts DEF GovernedOps, MCPRoutes, ResolutionRoutes, RetrievalRoutes
<1> DEFINE new == Issued(c, holder, old)
<1>2. /\ new \in CredentialRow /\ new.owner = holder /\ new.replaces = old
      /\ new.by = req[c].n
  BY <1>1 DEF Issued, CredentialRow
<1> HIDE DEF new
<1>3. new # None
  BY <1>2, SeedsAssumption
<1> QED  BY <1>2, <1>3 DEF new

\* The binding of a key that was made is kept, and was not there before.
LEMMA KeyBinding ==
    ASSUME ControlSafe, NEW c \in Clients, Claims(c), IsNew(c),
           req[c].op \in {"credentials.issue", "credentials.rotate"},
           NEW e, e = Effect(c), e.key # None
    PROVE  Kept(e)' /\ Fresh(e)
<1>1. /\ e.op = req[c].op /\ e.who = req[c].who /\ e.key = req[c].key
      /\ e.target = req[c].target
  BY EffectFacts
<1>2. BindingScope(req[c]) = <<e.who, e.op, e.target>>
  BY <1>1 DEF BindingScope
<1>3. /\ Bound(c) \in idem' /\ Bound(c).kept /\ Bound(c).key = e.key
      /\ Bound(c).scope = <<e.who, e.op, e.target>>
  BY <1>1, <1>2, ClaimsFacts DEF Bound
<1>4. Kept(e)'
  BY <1>1, <1>3 DEF Kept
<1>5. \A b \in idem : ~(b.scope = <<e.who, e.op, e.target>> /\ b.key = e.key)
  BY <1>1, <1>2 DEF IsNew, Bindings
<1>6. Fresh(e)
  <2> SUFFICES ASSUME NEW f \in effects, f.key # None, f.who = e.who, f.op = e.op,
                      f.key = e.key, f.target = e.target
               PROVE  FALSE
    BY DEF Fresh
  <2>1. Kept(f)
    BY DEF ControlSafe, EffectsKept
  <2> QED  BY <1>1, <1>5, <2>1 DEF Kept
<1> QED  BY <1>4, <1>6

\* A key is issued to a principal that is there.
LEMMA IssueKeeps ==
    ASSUME ControlSafe, NEW c \in Clients, issue_credential(c)
    PROVE  ControlSafe'
<1> DEFINE r == req[c]
           id == FreshId
           new == Issued(c, r.target, None)
<1>1. r.op = "credentials.issue" /\ r.pc = "authorized" /\ r.pc \in Allowed
  BY DEF issue_credential, At, Allowed
<1>2. CASE Answer(c, 404) \/ Answer(c, 409) \/ Answer(c, 500)
  BY <1>2, AnswerKeeps
<1>3. CASE ReplayFirst(c, 201)
  BY <1>1, <1>3, ReplayFirstKeeps
<1>4. CASE /\ principal[r.target] # None /\ IsNew(c) /\ Unused # {}
           /\ credential' = [credential EXCEPT ![id] = new]
           /\ CommitsFirst(c, 201)
           /\ UNCHANGED <<principal, grant, revealed, resource>>
  <2>1. r.target \in Principals /\ RowTypes /\ KeysReplaced /\ r.n <= sent
    BY <1>1, BodyFacts DEF GovernedOps, MCPRoutes, ResolutionRoutes, RetrievalRoutes, ControlSafe
  <2>2. id \in Credentials /\ credential[id] = None
    BY <1>4, FreshFacts
  <2>3. /\ new \in CredentialRow /\ new # None /\ new.owner = r.target
        /\ new.replaces = None /\ new.by = r.n
    BY <1>1, <2>1, IssuedFacts
  <2> HIDE DEF id, new
  <2>4. /\ credential' \in [Credentials -> CredentialRow \cup {None}]
        /\ credential'[id] = new
        /\ \A k \in Credentials : k # id => credential'[k] = credential[k]
    BY <1>4, <2>1, <2>2, <2>3 DEF RowTypes
  <2>5. RowTypes' /\ RowsGrow
    BY <1>4, <2>1, <2>2, <2>3, <2>4, KeysChange DEF KeysOnly, KeysGrow
  <2>6. KeysReplaced'
    <3>1. \A k \in Credentials : credential[k] # None => credential[k].replaces \in Credentials \cup {None}
      BY <2>1 DEF RowTypes, CredentialRow
    <3> QED  BY <2>1, <2>2, <2>3, <2>4, <3>1 DEF KeysReplaced
  <2>7. \A k \in Credentials : credential[k] = None /\ credential'[k] # None =>
           credential'[k].by <= sent
    BY <2>1, <2>3, <2>4
  <2> PICK e : e = Effect(c)
    OBVIOUS
  <2>8. e.key # None => Kept(e)' /\ Fresh(e)
    BY <1>1, <1>4, KeyBinding DEF CommitsFirst
  <2> QED  BY <1>1, <1>4, <2>5, <2>6, <2>7, <2>8, RouteFacts, FirstKeeps
<1> QED  BY <1>2, <1>3, <1>4 DEF issue_credential

\* A key is revoked.
LEMMA RevokeKeyKeeps ==
    ASSUME ControlSafe, NEW c \in Clients, revoke_credential(c)
    PROVE  ControlSafe'
<1> DEFINE r == req[c]
<1>1. r.op = "credentials.revoke" /\ r.pc \in Allowed
  BY DEF revoke_credential, At, Allowed
<1>2. CASE Answer(c, 404)
  BY <1>2, AnswerKeeps
<1>3. CASE /\ credential[r.target] # None
           /\ credential' = KeyRevoked(r.target)
           /\ CommitsFirst(c, 204)
           /\ UNCHANGED <<principal, grant, revealed, resource>>
  <2>1. r.target \in Credentials /\ RowTypes /\ KeysReplaced /\ r.key = None
    BY <1>1, BodyFacts, RouteFacts
       DEF GovernedOps, MCPRoutes, ResolutionRoutes, RetrievalRoutes, ControlSafe
  <2>2. /\ credential' \in [Credentials -> CredentialRow \cup {None}]
        /\ credential'[r.target] # None /\ credential'[r.target].status = "revoked"
        /\ credential'[r.target].owner = credential[r.target].owner
        /\ credential'[r.target].by = credential[r.target].by
        /\ credential'[r.target].replaces = credential[r.target].replaces
        /\ \A j \in Credentials : j # r.target => credential'[j] = credential[j]
    BY <1>3, <2>1, KeyRevokedFacts
  <2>3. RowTypes' /\ RowsGrow
    BY <1>3, <2>1, <2>2, KeysChange, SMTT(40) DEF KeysOnly, KeysGrow
  <2>4. KeysReplaced'
    <3>1. \A k \in Credentials : credential[k] # None => credential[k].replaces \in Credentials \cup {None}
      BY <2>1 DEF RowTypes, CredentialRow
    <3> QED  BY <1>3, <2>1, <2>2, <3>1 DEF KeysReplaced
  <2>5. \A k \in Credentials : ~(credential[k] = None /\ credential'[k] # None)
    BY <1>3, <2>2
  <2> PICK e : e = Effect(c)
    OBVIOUS
  <2>6. e.key = None
    BY <2>1, EffectFacts
  <2> QED  BY <1>1, <1>3, <2>3, <2>4, <2>5, <2>6, RouteFacts, FirstKeeps
<1> QED  BY <1>2, <1>3 DEF revoke_credential

\* A key is replaced once: it is active before and revoked from then on.
LEMMA RotateKeeps ==
    ASSUME ControlSafe, NEW c \in Clients, rotate_credential(c)
    PROVE  ControlSafe'
<1> DEFINE r == req[c]
           k == r.target
           old == credential[k]
           id == FreshId
           new == Issued(c, old.owner, k)
<1>1. r.op = "credentials.rotate" /\ r.pc = "authorized" /\ r.pc \in Allowed
  BY DEF rotate_credential, At, Allowed
<1>2. CASE Answer(c, 404) \/ Answer(c, 409)
  BY <1>2, AnswerKeeps
<1>3. CASE ReplayFirst(c, 201)
  BY <1>1, <1>3, ReplayFirstKeeps
<1>4. CASE /\ old # None /\ IsNew(c) /\ old.status = "active" /\ Unused # {}
           /\ credential' = Rotated(c, k)
           /\ CommitsFirst(c, 201)
           /\ UNCHANGED <<principal, grant, revealed, resource>>
  <2>1. k \in Credentials /\ RowTypes /\ KeysReplaced /\ r.n <= sent
    BY <1>1, BodyFacts DEF GovernedOps, MCPRoutes, ResolutionRoutes, RetrievalRoutes, ControlSafe
  <2>2. id \in Credentials /\ credential[id] = None
    BY <1>4, FreshFacts
  <2>3. old.owner \in Principals /\ principal[old.owner] # None
    BY <1>4, <2>1 DEF RowTypes, CredentialRow
  <2>4. /\ new \in CredentialRow /\ new # None /\ new.owner = old.owner
        /\ new.replaces = k /\ new.by = r.n
    BY <1>1, <2>1, <2>3, IssuedFacts
  <2> DEFINE half == KeyRevoked(k)
  <2>5. credential' = [half EXCEPT ![id] = new]
    BY <1>4 DEF Rotated
  <2>6. /\ half \in [Credentials -> CredentialRow \cup {None}]
        /\ half[k] # None /\ half[k].status = "revoked" /\ half[k].owner = old.owner
        /\ half[k].by = old.by /\ half[k].replaces = old.replaces
        /\ \A j \in Credentials : j # k => half[j] = credential[j]
    BY <1>4, <2>1, KeyRevokedFacts
  <2> HIDE DEF id, new, half
  <2>7. /\ credential' \in [Credentials -> CredentialRow \cup {None}]
        /\ id # k /\ credential'[id] = new
        /\ credential'[k] # None /\ credential'[k].status = "revoked"
        /\ credential'[k].owner = old.owner /\ credential'[k].by = old.by
        /\ credential'[k].replaces = old.replaces
        /\ \A j \in Credentials : j # k /\ j # id => credential'[j] = credential[j]
    BY <1>4, <2>1, <2>2, <2>4, <2>5, <2>6, SMTT(40)
  <2>8. RowTypes' /\ RowsGrow
    BY <1>4, <2>1, <2>2, <2>3, <2>4, <2>7, KeysChange DEF KeysOnly, KeysGrow
  <2>9. KeysReplaced'
    <3>1. \A j \in Credentials : credential[j] # None => credential[j].replaces \in Credentials \cup {None}
      BY <2>1 DEF RowTypes, CredentialRow
    <3>2. k # None
      BY <2>1, ControlAssumption
    <3>3. \A j \in Credentials : credential[j] # None => credential[j].replaces # k
      BY <1>4, <2>1, <3>2 DEF KeysReplaced
    <3>4. ASSUME NEW j \in Credentials, credential'[j] # None, credential'[j].replaces # None
          PROVE  /\ credential'[credential'[j].replaces] # None
                 /\ credential'[credential'[j].replaces].status = "revoked"
      <4>1. CASE j = id
        BY <2>4, <2>7, <4>1
      <4>2. CASE j # id
        <5>1. /\ credential[j] # None /\ credential'[j].replaces = credential[j].replaces
              /\ credential[j].replaces \in Credentials
          BY <1>4, <2>7, <3>1, <3>4, <4>2
        <5>2. /\ credential[credential[j].replaces] # None
              /\ credential[credential[j].replaces].status = "revoked"
          BY <2>1, <3>4, <5>1 DEF KeysReplaced
        <5> QED  BY <1>4, <2>2, <2>7, <5>1, <5>2
      <4> QED  BY <4>1, <4>2
    <3>5. ASSUME NEW i \in Credentials, NEW j \in Credentials,
                 credential'[i] # None, credential'[j] # None, credential'[i].replaces # None,
                 credential'[i].replaces = credential'[j].replaces
          PROVE  i = j
      <4>1. CASE i # id /\ j # id
        BY <1>4, <2>1, <2>7, <3>5, <4>1 DEF KeysReplaced
      <4>2. CASE i = id /\ j # id
        BY <1>4, <2>4, <2>7, <3>3, <3>5, <4>2
      <4>3. CASE i # id /\ j = id
        BY <1>4, <2>4, <2>7, <3>3, <3>5, <4>3
      <4> QED  BY <4>1, <4>2, <4>3
    <3> QED  BY <3>4, <3>5 DEF KeysReplaced
  <2>10. \A j \in Credentials : credential[j] = None /\ credential'[j] # None =>
            credential'[j].by <= sent
    BY <1>4, <2>1, <2>4, <2>7
  <2> PICK e : e = Effect(c)
    OBVIOUS
  <2>11. e.key # None => Kept(e)' /\ Fresh(e)
    BY <1>1, <1>4, KeyBinding DEF CommitsFirst
  <2> QED  BY <1>1, <1>4, <2>8, <2>9, <2>10, <2>11, RouteFacts, FirstKeeps
<1> QED  BY <1>2, <1>3, <1>4 DEF rotate_credential

\* The checks of a new grant, before its insert.
LEMMA CheckGrantKeeps ==
    ASSUME ControlSafe, NEW c \in Clients, CheckGrant(c)
    PROVE  ControlSafe'
<1> DEFINE r == req[c]
           q == [r EXCEPT !.pc = "checked"]
<1>1. r.op = "grants.create" /\ r.pc = "authorized"
  BY DEF CheckGrant, At
<1>2. CASE Replay(c, 201)
  BY <1>1, <1>2, ReplayKeeps
<1>3. CASE Answer(c, 409) \/ Answer(c, 404) \/ Answer(c, 422)
  BY <1>3, AnswerKeeps
<1>4. CASE /\ req' = [req EXCEPT ![c].pc = "checked"]
           /\ UNCHANGED <<identity, resource, idem, audit, sent, effects>>
  <2>1. RequestTypes /\ RequestSound(r) /\ IsRequest(r)
    BY DEF ControlSafe, RequestTypes
  <2>2. req' = [req EXCEPT ![c] = q]
    BY <1>4, <2>1 DEF RequestTypes
  <2>3. /\ IsRequest(q) /\ q.n = r.n /\ q.op = r.op /\ q.key = r.key /\ q.target = r.target
        /\ q.value = r.value /\ q.cred = r.cred /\ q.barred = r.barred /\ q.pc = "checked"
        /\ q.who = r.who /\ q.active = r.active /\ q.grant = r.grant
    BY <2>1 DEF IsRequest, RequestFields
  <2> HIDE DEF q
  <2>4. BarredSound(q)
    BY <1>1, <2>1, <2>3 DEF RequestSound, BarredSound, Finished
  <2>5. RequestSound(q)
    BY <1>1, <2>1, <2>3, <2>4 DEF RequestSound, Known, Allowed, Finished
  <2> QED  BY <1>1, <1>4, <2>2, <2>3, <2>5, GoesKeeps DEF Finished
<1> QED  BY <1>2, <1>3, <1>4 DEF CheckGrant

\* A change of grants is a growth of the rows.
LEMMA GrantsChange ==
    ASSUME RowTypes, UNCHANGED <<principal, credential, revealed, resource>>,
           grant' \in [Grants -> GrantRow \cup {None}],
           \A g \in Grants : grant[g] # None =>
              /\ grant'[g] # None
              /\ grant[g].status = "revoked" => grant'[g].status = "revoked"
    PROVE  RowTypes' /\ RowsGrow
<1>1. RowTypes'
  BY DEF RowTypes
<1>2. /\ \A p \in Principals : principal[p] # None => principal[p].stamp \in Nat
      /\ \A o \in Resources : resource[o] # None => resource[o].stamp \in Nat
  BY DEF RowTypes, PrincipalRow
<1> QED  BY <1>1, <1>2 DEF RowsGrow

\* A grant is inserted where there was none.
LEMMA CreateGrantKeeps ==
    ASSUME ControlSafe, NEW c \in Clients, create_grant(c)
    PROVE  ControlSafe'
<1> DEFINE r == req[c]
           new == NewGrant(r.value)
<1>1. r.op = "grants.create" /\ r.pc = "checked" /\ r.pc \in Allowed
  BY DEF create_grant, At, Allowed
<1>2. CASE Replay(c, 201)
  BY <1>1, <1>2, ReplayKeeps
<1>3. CASE Answer(c, 409)
  BY <1>3, AnswerKeeps
<1>4. CASE AuditRefused(c)
  BY <1>4, AuditRefusedKeeps
<1>5. CASE /\ ~Duplicated(r.target, r.value)
           /\ grant' = [grant EXCEPT ![r.target] = new]
           /\ CommitsAudited(c, 201)
           /\ UNCHANGED <<principal, credential, revealed, resource>>
  <2>1. /\ r.target \in Grants /\ RowTypes
        /\ r.value \in [principal : Principals, action : STRING, resource : Resources]
    BY <1>1, BodyFacts DEF GovernedOps, MCPRoutes, ResolutionRoutes, RetrievalRoutes, ControlSafe
  <2>2. grant[r.target] = None
    BY <1>5 DEF Duplicated
  <2>3. new \in GrantRow /\ new # None
    BY <2>1, SeedsAssumption DEF NewGrant, GrantRow
  <2> HIDE DEF new
  <2>4. /\ grant' \in [Grants -> GrantRow \cup {None}] /\ grant'[r.target] # None
        /\ \A g \in Grants : g # r.target => grant'[g] = grant[g]
    BY <1>5, <2>1, <2>3 DEF RowTypes
  <2>5. RowTypes' /\ RowsGrow
    BY <1>5, <2>1, <2>2, <2>4, GrantsChange
  <2>6. KeysReplaced'
    BY <1>5 DEF ControlSafe, KeysReplaced
  <2> PICK e : e = Effect(c)
    OBVIOUS
  <2>7. e.op = r.op /\ e.target = r.target
    BY EffectFacts
  <2>8. Kept(e)'
    BY <1>1, <2>1, <2>4, <2>7 DEF Kept
  <2>9. Fresh(e)
    BY <1>1, <2>2, <2>7 DEF Fresh, ControlSafe, EffectsKept, Kept
  <2> QED  BY <1>1, <1>5, <2>5, <2>6, <2>8, <2>9, RouteFacts, AuditedKeeps
<1> QED  BY <1>2, <1>3, <1>4, <1>5 DEF create_grant

\* A grant is revoked.
LEMMA RevokeGrantKeeps ==
    ASSUME ControlSafe, NEW c \in Clients, revoke_grant(c)
    PROVE  ControlSafe'
<1> DEFINE r == req[c]
           new == [grant[r.target] EXCEPT !.status = "revoked"]
<1>1. r.op = "grants.revoke" /\ r.pc \in Allowed
  BY DEF revoke_grant, At, Allowed
<1>2. CASE Answer(c, 404)
  BY <1>2, AnswerKeeps
<1>3. CASE AuditRefused(c)
  BY <1>3, AuditRefusedKeeps
<1>4. CASE /\ grant[r.target] # None
           /\ grant' = [grant EXCEPT ![r.target].status = "revoked"]
           /\ CommitsAudited(c, 204)
           /\ UNCHANGED <<principal, credential, revealed, resource>>
  <2>1. r.target \in Grants /\ RowTypes /\ r.key = None
    BY <1>1, BodyFacts, RouteFacts
       DEF GovernedOps, MCPRoutes, ResolutionRoutes, RetrievalRoutes, ControlSafe
  <2>2. grant[r.target] \in GrantRow /\ grant \in [Grants -> GrantRow \cup {None}]
    BY <1>4, <2>1 DEF RowTypes
  <2>3. grant' = [grant EXCEPT ![r.target] = new]
    BY <1>4, <2>1, <2>2
  <2>4. new \in GrantRow /\ new.status = "revoked"
    BY <2>2 DEF GrantRow
  <2> HIDE DEF new
  <2>5. new # None
    BY <2>4, SeedsAssumption
  <2>6. /\ grant' \in [Grants -> GrantRow \cup {None}] /\ grant'[r.target] = new
        /\ \A g \in Grants : g # r.target => grant'[g] = grant[g]
    BY <2>1, <2>2, <2>3, <2>4
  <2>7. RowTypes' /\ RowsGrow
    BY <1>4, <2>1, <2>4, <2>5, <2>6, GrantsChange
  <2>8. KeysReplaced'
    BY <1>4 DEF ControlSafe, KeysReplaced
  <2> PICK e : e = Effect(c)
    OBVIOUS
  <2>9. e.key = None
    BY <2>1, EffectFacts
  <2> QED  BY <1>1, <1>4, <2>7, <2>8, <2>9, RouteFacts, AuditedKeeps
<1> QED  BY <1>2, <1>3, <1>4 DEF revoke_grant

\* The reads, of the rows and of the evidence, answer and change nothing.
LEMMA ReadsKeep ==
    ASSUME ControlSafe, NEW c \in Clients,
           \/ list_principals(c) \/ get_principal(c) \/ list_credentials(c) \/ list_grants(c)
           \/ read_usage(c) \/ read_usage_requests(c) \/ list_events(c) \/ get_event(c)
    PROVE  ControlSafe'
<1>1. \E status \in Nat : Answer(c, status)
  BY DEF list_principals, get_principal, list_credentials, list_grants, read_usage,
         read_usage_requests, list_events, get_event
<1> QED  BY <1>1, AnswerKeeps

-----------------------------------------------------------------------------
(* Time passes *)

\* What nobody's request is concerned with.
LEMMA OthersStay ==
    ASSUME ControlSafe, RowTypes', RowsGrow, UNCHANGED <<req, sent>>
    PROVE  RequestTypes' /\ Numbered' /\ \A d \in Clients : RequestSound(req[d])'
<1>1. RequestTypes' /\ Numbered'
  BY DEF ControlSafe, RequestTypes, Numbered, IsRequest
<1>2. ASSUME NEW d \in Clients PROVE RequestSound(req[d])'
  <2>1. RequestSound(req'[d])
    BY DEF ControlSafe
  <2> QED  BY <2>1, SoundStays DEF ControlSafe
<1> QED  BY <1>1, <1>2

\* A key expires.
LEMMA ExpireKeeps ==
    ASSUME ControlSafe, Expire
    PROVE  ControlSafe'
<1>1. UNCHANGED <<principal, grant, revealed, resource, idem, audit, req, sent, effects>>
  BY DEF Expire
<1>2. PICK k \in Credentials :
         credential[k] # None /\ credential' = [credential EXCEPT ![k].expired = TRUE]
  BY DEF Expire
<1>3. /\ RowTypes /\ credential[k] \in CredentialRow
      /\ credential \in [Credentials -> CredentialRow \cup {None}]
  BY <1>2 DEF ControlSafe, RowTypes
<1> DEFINE new == [credential[k] EXCEPT !.expired = TRUE]
<1>4. credential' = [credential EXCEPT ![k] = new]
  BY <1>2, <1>3
<1>5. /\ new \in CredentialRow /\ new.status = credential[k].status
      /\ new.owner = credential[k].owner /\ new.by = credential[k].by
      /\ new.replaces = credential[k].replaces
  BY <1>3 DEF CredentialRow
<1> HIDE DEF new
<1>6. new # None
  BY <1>5, SeedsAssumption
<1>7. /\ credential' \in [Credentials -> CredentialRow \cup {None}] /\ credential'[k] = new
      /\ \A j \in Credentials : j # k => credential'[j] = credential[j]
  BY <1>3, <1>4, <1>5
<1>8. RowTypes' /\ RowsGrow
  BY <1>1, <1>2, <1>3, <1>5, <1>6, <1>7, KeysChange DEF KeysOnly, KeysGrow
<1>9. RequestTypes' /\ Numbered' /\ \A d \in Clients : RequestSound(req[d])'
  BY <1>1, <1>8, OthersStay
<1>10. KeysReplaced'
  <2>1. KeysReplaced
    BY DEF ControlSafe
  <2>2. \A j \in Credentials : /\ (credential'[j] # None) <=> (credential[j] # None)
                               /\ credential[j] # None =>
                                     /\ credential'[j].replaces = credential[j].replaces
                                     /\ credential'[j].status = credential[j].status
    BY <1>2, <1>5, <1>6, <1>7
  <2>3. \A j \in Credentials : credential[j] # None =>
           credential[j].replaces \in Credentials \cup {None}
    BY <1>3 DEF RowTypes, CredentialRow
  <2> QED  BY <2>1, <2>2, <2>3 DEF KeysReplaced
<1>11. KeysShown'
  <2>1. KeysShown
    BY DEF ControlSafe
  <2>2. \A j \in Credentials : /\ (credential'[j] # None) <=> (credential[j] # None)
                               /\ credential[j] # None => credential'[j].by = credential[j].by
    BY <1>2, <1>5, <1>6, <1>7
  <2> QED  BY <1>1, <2>1, <2>2 DEF KeysShown
<1>12. EffectsKept' /\ OneEffectPerKey' /\ RevokedStaysOut' /\ SuccessAudited'
  BY <1>1 DEF ControlSafe, EffectsKept, Kept, OneEffectPerKey, RevokedStaysOut, SuccessAudited
<1> QED  BY <1>8, <1>9, <1>10, <1>11, <1>12 DEF ControlSafe

\* A binding that is not kept ends.
LEMMA RetentionKeeps ==
    ASSUME ControlSafe, RetentionEnds
    PROVE  ControlSafe'
<1>1. UNCHANGED <<principal, credential, grant, revealed, resource, audit, req, sent, effects>>
  BY DEF RetentionEnds, identity
<1>2. RowTypes' /\ RowsGrow
  BY <1>1, RowsStay DEF ControlSafe
<1>3. RequestTypes' /\ Numbered' /\ \A d \in Clients : RequestSound(req[d])'
  BY <1>1, <1>2, OthersStay
<1>4. EffectsKept'
  <2>1. \A b \in idem : b.kept => b \in idem'
    BY DEF RetentionEnds
  <2>2. EffectsKept
    BY DEF ControlSafe
  <2>3. ASSUME NEW e, Kept(e) PROVE Kept(e)'
    BY <1>1, <2>1, <2>3 DEF Kept
  <2> QED  BY <1>1, <2>2, <2>3 DEF EffectsKept
<1>5. KeysShown' /\ KeysReplaced' /\ OneEffectPerKey' /\ RevokedStaysOut' /\ SuccessAudited'
  BY <1>1 DEF ControlSafe, KeysShown, KeysReplaced, OneEffectPerKey, RevokedStaysOut,
              SuccessAudited
<1> QED  BY <1>2, <1>3, <1>4, <1>5 DEF ControlSafe

-----------------------------------------------------------------------------
(* Theorems *)

\* The seeds are there and nobody has asked for anything.
LEMMA InitControl == ControlInit => ControlSafe
<1> SUFFICES ASSUME ControlInit PROVE ControlSafe
  OBVIOUS
<1>1. RowTypes
  BY SeedsAssumption DEF ControlInit, RowTypes
<1>2. RequestTypes /\ Numbered /\ \A c \in Clients : RequestSound(req[c])
  <2>1. req = [c \in Clients |-> NoRequest] /\ sent = 0
    BY DEF ControlInit
  <2>2. \A c \in Clients : req[c] = NoRequest
    BY <2>1
  <2>3. req = [c \in Clients |-> req[c]]
    BY <2>1
  <2> QED  BY <2>1, <2>2, <2>3, NoRequestFacts DEF RequestTypes, Numbered
<1>3. KeysShown /\ KeysReplaced
  BY SeedsAssumption DEF ControlInit, KeysShown, KeysReplaced
<1>4. EffectsKept /\ OneEffectPerKey /\ RevokedStaysOut
  BY DEF ControlInit, EffectsKept, OneEffectPerKey, RevokedStaysOut
<1>5. SuccessAudited
  BY NoRequestFacts DEF ControlInit, SuccessAudited
<1> QED  BY <1>1, <1>2, <1>3, <1>4, <1>5 DEF ControlSafe

\* Every step of a request, and time, keep the invariant.
LEMMA StepControl == ControlSafe /\ [ControlNext]_cvars => ControlSafe'
<1> SUFFICES ASSUME ControlSafe, [ControlNext]_cvars PROVE ControlSafe'
  OBVIOUS
<1>1. ASSUME NEW c \in Clients, Admission(c) PROVE ControlSafe'
  BY <1>1, SubmitKeeps, LoseKeeps, RefuseMalformedKeeps, AuthenticateKeeps, AuthorizeKeeps,
     FinishKeeps DEF Admission
<1>2. ASSUME NEW c \in Clients, IdentityStep(c) PROVE ControlSafe'
  <2>1. CASE create_principal(c) \/ replace_principal_status(c)
    BY <2>1, CreatePrincipalKeeps, ReplaceStatusKeeps
  <2>2. CASE issue_credential(c) \/ revoke_credential(c) \/ rotate_credential(c)
    BY <2>2, IssueKeeps, RevokeKeyKeeps, RotateKeeps
  <2>3. CASE CheckGrant(c) \/ create_grant(c) \/ revoke_grant(c)
    BY <2>3, CheckGrantKeeps, CreateGrantKeeps, RevokeGrantKeeps
  <2>4. CASE \/ list_principals(c) \/ get_principal(c) \/ list_credentials(c) \/ list_grants(c)
             \/ read_usage(c) \/ read_usage_requests(c) \/ list_events(c) \/ get_event(c)
    BY <2>4, ReadsKeep
  <2> QED  BY <1>2, <2>1, <2>2, <2>3, <2>4 DEF IdentityStep
<1>3. CASE Expire \/ RetentionEnds
  BY <1>3, ExpireKeeps, RetentionKeeps
<1>4. CASE UNCHANGED cvars
  <2>1. UNCHANGED <<principal, credential, grant, revealed, resource, idem, audit, req, sent,
                    effects>>
    BY <1>4 DEF cvars, identity
  <2>2. RowTypes' /\ RowsGrow
    BY <2>1, RowsStay DEF ControlSafe
  <2>3. RequestTypes' /\ Numbered' /\ \A d \in Clients : RequestSound(req[d])'
    BY <2>1, <2>2, OthersStay
  <2>4. /\ EffectsKept' /\ KeysShown' /\ KeysReplaced' /\ OneEffectPerKey'
        /\ RevokedStaysOut' /\ SuccessAudited'
    BY <2>1 DEF ControlSafe, EffectsKept, Kept, KeysShown, KeysReplaced, OneEffectPerKey,
                RevokedStaysOut, SuccessAudited
  <2> QED  BY <2>2, <2>3, <2>4 DEF ControlSafe
<1> QED  BY <1>1, <1>2, <1>3, <1>4 DEF ControlNext

\* The control plane keeps its rows, its requests and its history as ControlSafe says,
\* whatever is sent, lost, raced or expired.
THEOREM ControlKnown == ControlSpec => []ControlSafe
<1> QED  BY InitControl, StepControl, PTL DEF ControlSpec

\* What was revoked when a request arrived backs no mutation of it, though the request is
\* authenticated, authorized and performed in three sessions (control/service.py).
THEOREM RevokedKeepsOut == ControlSpec => []RevokedStaysOut
<1>1. ControlSafe => RevokedStaysOut
  BY DEF ControlSafe
<1> QED  BY <1>1, ControlKnown, PTL

\* A success that is told has its event, and a handler that audits in its transaction
\* commits nothing without it.
THEOREM SuccessIsAudited == ControlSpec => []SuccessAudited
<1>1. ControlSafe => SuccessAudited
  BY DEF ControlSafe
<1> QED  BY <1>1, ControlKnown, PTL

\* One mutation under a caller's Idempotency-Key, though its binding may end.
THEOREM KeyActsOnce == ControlSpec => []OneEffectPerKey
<1>1. ControlSafe => OneEffectPerKey
  BY DEF ControlSafe
<1> QED  BY <1>1, ControlKnown, PTL

\* A key has one replacement, is revoked by then, and is shown once.
THEOREM KeyHasOneSuccessor == ControlSpec => []OneSuccessor
<1>1. ControlSafe => OneSuccessor
  <2> SUFFICES ASSUME ControlSafe PROVE OneSuccessor
    OBVIOUS
  <2>1. KeysReplaced /\ KeysShown /\ revealed \in [Credentials -> Nat]
    BY DEF ControlSafe, RowTypes
  <2>2. \A k \in Credentials : revealed[k] <= 1
    BY <2>1 DEF KeysShown
  <2> QED  BY <2>1, <2>2 DEF OneSuccessor, KeysReplaced
<1> QED  BY <1>1, ControlKnown, PTL

-----------------------------------------------------------------------------
(* The whole store: its inductive invariant *)

McpIds == {Server} \cup Tools
Versioned == {"skill", "bok_collection"}
Shown == {"published", "active", "inactive"}
HeldPcs == {"calling", "waiting", "handshake", "ready", "read"}
Awaited == {"arrived", "authenticated"}

StoreTypes ==
    /\ principal \in [Principals -> PrincipalRow \cup {None}]
    /\ credential \in [Credentials -> CredentialRow \cup {None}]
    /\ grant \in [Grants -> GrantRow \cup {None}]
    /\ resource \in [Resources -> ResourceRow \cup {None}]
    /\ publication \in [Resources -> VersionRow \cup {None}]
    /\ owner \in [McpIds -> OwnerRow \cup {None}]

\* A key has its principal, a row the type of its identifier, an alias its assignment, and
\* the catalog shows of a server or a tool what its owner row says.
StoreLinks ==
    /\ \A k \in Credentials : credential[k] # None => principal[credential[k].owner] # None
    /\ \A o \in Resources : resource[o] # None =>
         /\ resource[o].type = TypeOf[o]
         /\ TypeOf[o] = "llm_model" => resource[o].content \in Assignments
    /\ \A o \in Resources : publication[o] # None => TypeOf[o] \in Versioned
    /\ \A id \in McpIds :
         /\ owner[id] = None => resource[id] = None
         /\ owner[id] # None => /\ resource[id] # None
                                /\ resource[id].status = owner[id].status
                                /\ resource[id].stamp = owner[id].stamp

\* A principal of the seeds is there, or nobody is and nothing was asked.
Inhabited == \E p \in DOMAIN SeedPrincipal : principal[p] # None
Seeded ==
    \/ Inhabited
    \/ /\ \A p \in Principals : principal[p] = None
       /\ \A k \in Credentials : credential[k] = None
       /\ \A g \in Grants : grant[g] = None
       /\ \A c \in Clients : req[c].pc \in Finished

\* What was out when a request came has not come back under the stamp it had.  The routes
\* are left out: their reconciliation brings one back and leaves its stamp.
StaysBarred(r) ==
    /\ \A k \in Credentials : <<"credential", k, 0>> \in r.barred =>
          credential[k] # None /\ credential[k].status = "revoked"
    /\ \A g \in Grants : <<"grant", g, 0>> \in r.barred =>
          grant[g] # None /\ grant[g].status = "revoked"
    /\ \A p \in Principals : \A s : <<"principal", p, s>> \in r.barred =>
          /\ principal[p] # None /\ s \in Nat /\ s <= principal[p].stamp
          /\ s = principal[p].stamp => principal[p].status # "active"
    /\ \A o : \A s : <<"resource", o, s>> \in r.barred /\ o \notin DOMAIN SeedRoute =>
          /\ o \in Resources /\ resource[o] # None
          /\ s \in Nat /\ s <= resource[o].stamp
          /\ s = resource[o].stamp => resource[o].status # "active"

\* A principal, a grant and a resource that a request may rest on.
PrincipalClear(r, p) ==
    \A s : <<"principal", p, s>> \in r.barred => s < principal[p].stamp
GrantClear(r, g) == g \in Grants /\ <<"grant", g, 0>> \notin r.barred
ResourceClear(r, o) ==
    /\ o \notin DOMAIN SeedRoute
    /\ \A s : <<"resource", o, s>> \in r.barred => s < resource[o].stamp

\* The dependencies and the tools authorized so far.
DepsClear(r) ==
    /\ publication[r.target] # None
    /\ r.value \in Seq(Grants)
    /\ \A i \in 1..Len(r.value) :
          /\ GrantClear(r, r.value[i])
          /\ ResourceClear(r, publication[r.target].content.deps[i])
ToolsClear(r) ==
    /\ r.value \in Seq(Grants \cup {None})
    /\ \A i \in 1..Len(r.value) : r.value[i] # None =>
          GrantClear(r, r.value[i]) /\ ResourceClear(r, ToolIds[i])

\* What a released answer rests on.
ShownSound(s) == s.evidence \cap s.barred = {}

CallerSound(r) ==
    r.pc # "arrived" =>
        /\ <<"credential", r.cred, 0>> \notin r.barred
        /\ r.who \in Principals /\ principal[r.who] # None
        /\ r.pc # "authenticated" \/ r.active => PrincipalClear(r, r.who)

ScopeSound(r) ==
    r.pc \notin Awaited =>
        /\ GrantClear(r, r.grant)
        /\ Evidenced(r.op) => ResourceClear(r, CONTROL_SCOPES(r.op)[2])
        /\ r.op \in GovernedOps => ResourceClear(r, r.target)

\* What the steps of a handler hand to each other.
HandlerSound(r) ==
    /\ r.op \in {"skills.publish", "bok.publish"} /\ r.pc = "checked" /\ r.seen # 0 =>
          resource[r.target] # None /\ resource[r.target].owner = r.value.owner
    /\ r.op = "skills.resolve" /\ r.pc = "authorized" => r.value = <<>>
    /\ r.op = "skills.resolve" /\ r.pc = "dependencies" => DepsClear(r)
    /\ r.op = "mcp.discovery" /\ r.pc \in {"authorized", "tool"} => ToolsClear(r)
    /\ r.op = "mcp.discovery" /\ r.pc = "tool" => Len(r.value) < Len(ToolIds)
    /\ r.pc \in HeldPcs => ShownSound(r.value)

Sound(r) ==
    r.pc \notin Finished =>
        /\ r.op \in Operations
        /\ \E in \in Inputs[r.op] : r.target = in[1] /\ (r.op \notin GovernedOps => r.value = in[2])
        /\ r.cred \in Credentials /\ credential[r.cred] # None
        /\ r.seen \in Nat
        /\ StaysBarred(r)
        /\ CallerSound(r) /\ ScopeSound(r) /\ HandlerSound(r)

\* A write that was checked against a stamp has left a later one.
TokenSpent(e) ==
    e.op \in Tokened =>
        /\ e.seen \in Nat
        /\ \/ /\ e.target \in Principals /\ principal[e.target] # None
              /\ e.seen < principal[e.target].stamp
           \/ /\ e.target \in Resources /\ resource[e.target] # None
              /\ e.seen < resource[e.target].stamp

PublicationStands(e) ==
    e.op \in {"skills.publish", "bok.publish"} =>
        /\ e.target \in Resources
        /\ publication[e.target] # None
        /\ publication[e.target].by = e.n
        /\ resource[e.target] # None
        /\ publication[e.target].owner = resource[e.target].owner
        /\ publication[e.target].content = resource[e.target].content
        /\ resource[e.target].status \in Shown

\* Only the holder of the lock is in the handshake, and nobody is once it was done.
SessionLocked ==
    /\ client \in [initialized : BOOLEAN, lock : Clients \cup {None}]
    /\ handshakes \in {0, 1}
    /\ client.initialized <=> handshakes = 1
    /\ \A c \in Clients : At(c, "mcp.invoke", "handshake") <=> client.lock = c
    /\ \A c \in Clients : At(c, "mcp.invoke", "handshake") => ~client.initialized

StoreSafe ==
    /\ StoreTypes
    /\ StoreLinks
    /\ Seeded
    /\ RequestTypes
    /\ SessionLocked
    /\ \A c \in Clients : Sound(req[c])
    /\ \A e \in effects : TokenSpent(e) /\ PublicationStands(e) /\ e.evidence \cap e.barred = {}
    /\ \A s \in served : ShownSound(s)
    /\ WritesAreSerial

-----------------------------------------------------------------------------
(* The whole store: what a step leaves alone *)

\* No row disappears, a revocation is final, a stamp never falls and a row that is no route
\* keeps its status under its stamp; a version stays as it was published.
StoreGrows ==
    /\ \A k \in Credentials : credential[k] # None =>
          /\ credential'[k] # None
          /\ credential[k].status = "revoked" => credential'[k].status = "revoked"
    /\ \A g \in Grants : grant[g] # None =>
          /\ grant'[g] # None
          /\ grant[g].status = "revoked" => grant'[g].status = "revoked"
    /\ \A p \in Principals : principal[p] # None =>
          /\ principal'[p] # None /\ principal[p].stamp <= principal'[p].stamp
          /\ principal'[p].stamp = principal[p].stamp => principal'[p].status = principal[p].status
    /\ \A o \in Resources : resource[o] # None =>
          /\ resource'[o] # None /\ resource[o].stamp <= resource'[o].stamp
          /\ o \notin DOMAIN SeedRoute /\ resource'[o].stamp = resource[o].stamp =>
                resource'[o].status = resource[o].status
          /\ TypeOf[o] \in Versioned => resource'[o].owner = resource[o].owner
    /\ \A o \in Resources : publication[o] # None =>
          /\ publication'[o] = publication[o]
          /\ resource[o] # None =>
                /\ resource'[o].content = resource[o].content
                /\ resource[o].status \in Shown => resource'[o].status \in Shown

\* Stamps are numbers.
LEMMA StampFacts ==
    ASSUME StoreTypes
    PROVE  /\ \A p \in Principals : principal[p] # None => principal[p].stamp \in Nat
           /\ \A o \in Resources : resource[o] # None => resource[o].stamp \in Nat
BY DEF StoreTypes, PrincipalRow, ResourceRow

\* A store that nothing touches has grown by nothing.
LEMMA StoreStays ==
    ASSUME StoreTypes, StoreLinks,
           UNCHANGED <<principal, credential, grant, resource, publication, owner>>
    PROVE  StoreTypes' /\ StoreLinks' /\ StoreGrows
<1>1. StoreTypes'
  BY DEF StoreTypes
<1>2. StoreLinks'
  BY DEF StoreLinks
<1>3. StoreGrows
  BY StampFacts DEF StoreGrows
<1> QED  BY <1>1, <1>2, <1>3

\* What was out when a request came stays out.
LEMMA OutStays ==
    ASSUME StoreTypes, StoreTypes', StoreGrows, NEW r, StaysBarred(r)
    PROVE  StaysBarred(r)'
<1>1. \A k \in Credentials : <<"credential", k, 0>> \in r.barred =>
         credential'[k] # None /\ credential'[k].status = "revoked"
  BY DEF StaysBarred, StoreGrows
<1>2. \A g \in Grants : <<"grant", g, 0>> \in r.barred =>
         grant'[g] # None /\ grant'[g].status = "revoked"
  BY DEF StaysBarred, StoreGrows
<1>3. ASSUME NEW p \in Principals, NEW s, <<"principal", p, s>> \in r.barred
      PROVE  /\ principal'[p] # None /\ s \in Nat /\ s <= principal'[p].stamp
             /\ s = principal'[p].stamp => principal'[p].status # "active"
  <2>1. /\ principal[p] # None /\ s \in Nat /\ s <= principal[p].stamp
        /\ s = principal[p].stamp => principal[p].status # "active"
    BY <1>3 DEF StaysBarred
  <2>2. /\ principal'[p] # None /\ principal[p].stamp <= principal'[p].stamp
        /\ principal'[p].stamp = principal[p].stamp => principal'[p].status = principal[p].status
    BY <2>1 DEF StoreGrows
  <2>3. principal[p].stamp \in Nat /\ principal'[p].stamp \in Nat
    BY <2>1, <2>2 DEF StoreTypes, PrincipalRow
  <2> QED  BY <2>1, <2>2, <2>3
<1>4. ASSUME NEW o, NEW s, <<"resource", o, s>> \in r.barred, o \notin DOMAIN SeedRoute
      PROVE  /\ o \in Resources /\ resource'[o] # None
             /\ s \in Nat /\ s <= resource'[o].stamp
             /\ s = resource'[o].stamp => resource'[o].status # "active"
  <2>1. /\ o \in Resources /\ resource[o] # None /\ s \in Nat /\ s <= resource[o].stamp
        /\ s = resource[o].stamp => resource[o].status # "active"
    BY <1>4 DEF StaysBarred
  <2>2. /\ resource'[o] # None /\ resource[o].stamp <= resource'[o].stamp
        /\ resource'[o].stamp = resource[o].stamp => resource'[o].status = resource[o].status
    BY <1>4, <2>1 DEF StoreGrows
  <2>3. resource[o].stamp \in Nat /\ resource'[o].stamp \in Nat
    BY <2>1, <2>2 DEF StoreTypes, ResourceRow
  <2> QED  BY <2>1, <2>2, <2>3
<1> QED  BY <1>1, <1>2, <1>3, <1>4 DEF StaysBarred

\* What a request may rest on, it may still rest on.
LEMMA ClearStays ==
    ASSUME StoreTypes, StoreTypes', StoreGrows, NEW r, StaysBarred(r)
    PROVE  /\ \A p \in Principals : principal[p] # None /\ PrincipalClear(r, p) =>
                 PrincipalClear(r, p)'
           /\ \A g : GrantClear(r, g) => GrantClear(r, g)'
           /\ \A o : ResourceClear(r, o) => ResourceClear(r, o)'
<1>1. ASSUME NEW p \in Principals, principal[p] # None, PrincipalClear(r, p)
      PROVE  PrincipalClear(r, p)'
  <2>1. principal'[p] # None /\ principal[p].stamp <= principal'[p].stamp
    BY <1>1 DEF StoreGrows
  <2>2. principal[p].stamp \in Nat /\ principal'[p].stamp \in Nat
    BY <1>1, <2>1 DEF StoreTypes, PrincipalRow
  <2>3. \A s : <<"principal", p, s>> \in r.barred => s \in Nat
    BY DEF StaysBarred
  <2> QED  BY <1>1, <2>1, <2>2, <2>3 DEF PrincipalClear
<1>2. ASSUME NEW o, ResourceClear(r, o) PROVE ResourceClear(r, o)'
  <2> SUFFICES ASSUME NEW s, <<"resource", o, s>> \in r.barred
               PROVE  s < resource'[o].stamp
    BY <1>2 DEF ResourceClear
  <2>1. o \notin DOMAIN SeedRoute /\ s < resource[o].stamp
    BY <1>2 DEF ResourceClear
  <2>2. o \in Resources /\ resource[o] # None /\ s \in Nat
    BY <2>1 DEF StaysBarred
  <2>3. resource'[o] # None /\ resource[o].stamp <= resource'[o].stamp
    BY <2>2 DEF StoreGrows
  <2>4. resource[o].stamp \in Nat /\ resource'[o].stamp \in Nat
    BY <2>2, <2>3 DEF StoreTypes, ResourceRow
  <2> QED  BY <2>1, <2>2, <2>3, <2>4
<1> QED  BY <1>1, <1>2 DEF GrantClear

\* What a request is sent to.
LEMMA TargetFacts ==
    ASSUME NEW r, Sound(r), r.pc \notin Finished
    PROVE  /\ r.op \in {"skills.publish", "bok.publish"} =>
                 /\ r.target \in Resources /\ TypeOf[r.target] \in Versioned
                 /\ r.value \in [owner : Principals, content : Manifests]
           /\ r.op = "skills.resolve" => r.target \in Resources /\ TypeOf[r.target] = "skill"
           /\ r.op \in RetrievalRoutes =>
                 r.target \in Resources /\ TypeOf[r.target] = "bok_collection"
           /\ r.op = "mcp.discovery" => r.target = Server
           /\ r.op = "mcp.invoke" => r.target \in Tools
<1>1. PICK in \in Inputs[r.op] :
         r.op \in Operations /\ r.target = in[1] /\ (r.op \notin GovernedOps => r.value = in[2])
  BY DEF Sound
<1>2. r.op \in {"skills.publish", "bok.publish"} =>
         /\ r.target \in Resources /\ TypeOf[r.target] \in Versioned
         /\ r.value \in [owner : Principals, content : Manifests]
  BY <1>1, CatalogInputs DEF Versioned, GovernedOps, MCPRoutes, ResolutionRoutes,
                             RetrievalRoutes
<1>3. /\ r.op = "skills.resolve" => r.target \in Resources /\ TypeOf[r.target] = "skill"
      /\ r.op \in RetrievalRoutes =>
            r.target \in Resources /\ TypeOf[r.target] = "bok_collection"
      /\ r.op = "mcp.discovery" => r.target = Server
      /\ r.op = "mcp.invoke" => r.target \in Tools
  BY <1>1, SurfaceAssumption DEF RetrievalRoutes
<1> QED  BY <1>2, <1>3

\* A request is as sound after a step that lets the store grow.
LEMMA CallStays ==
    ASSUME StoreTypes, StoreTypes', StoreGrows, NEW r, Sound(r)
    PROVE  Sound(r)'
<1> SUFFICES ASSUME r.pc \notin Finished
             PROVE  /\ credential'[r.cred] # None /\ StaysBarred(r)'
                    /\ CallerSound(r)' /\ ScopeSound(r)' /\ HandlerSound(r)'
  BY DEF Sound
<1>1. /\ r.cred \in Credentials /\ credential[r.cred] # None /\ StaysBarred(r)
      /\ CallerSound(r) /\ ScopeSound(r) /\ HandlerSound(r)
  BY DEF Sound
<1>2. credential'[r.cred] # None
  BY <1>1 DEF StoreGrows
<1>3. StaysBarred(r)'
  BY <1>1, OutStays
<1>4. /\ \A p \in Principals : principal[p] # None /\ PrincipalClear(r, p) =>
            PrincipalClear(r, p)'
      /\ \A g : GrantClear(r, g) => GrantClear(r, g)'
      /\ \A o : ResourceClear(r, o) => ResourceClear(r, o)'
  BY <1>1, ClearStays
<1>5. CallerSound(r)'
  <2> SUFFICES ASSUME r.pc # "arrived"
               PROVE  /\ <<"credential", r.cred, 0>> \notin r.barred
                      /\ r.who \in Principals /\ principal'[r.who] # None
                      /\ r.pc # "authenticated" \/ r.active => PrincipalClear(r, r.who)'
    BY DEF CallerSound
  <2>1. /\ <<"credential", r.cred, 0>> \notin r.barred
        /\ r.who \in Principals /\ principal[r.who] # None
        /\ r.pc # "authenticated" \/ r.active => PrincipalClear(r, r.who)
    BY <1>1 DEF CallerSound
  <2>2. principal'[r.who] # None
    BY <2>1 DEF StoreGrows
  <2> QED  BY <1>4, <2>1, <2>2
<1>6. ScopeSound(r)'
  <2> SUFFICES ASSUME r.pc \notin Awaited
               PROVE  /\ GrantClear(r, r.grant)'
                      /\ Evidenced(r.op) => ResourceClear(r, CONTROL_SCOPES(r.op)[2])'
                      /\ r.op \in GovernedOps => ResourceClear(r, r.target)'
    BY DEF ScopeSound
  <2>1. /\ GrantClear(r, r.grant)
        /\ Evidenced(r.op) => ResourceClear(r, CONTROL_SCOPES(r.op)[2])
        /\ r.op \in GovernedOps => ResourceClear(r, r.target)
    BY <1>1 DEF ScopeSound
  <2> QED  BY <1>4, <2>1
<1>7. HandlerSound(r)'
  <2>1. ASSUME r.op \in {"skills.publish", "bok.publish"}, r.pc = "checked", r.seen # 0
        PROVE  resource'[r.target] # None /\ resource'[r.target].owner = r.value.owner
    <3>1. r.target \in Resources /\ TypeOf[r.target] \in Versioned
      BY <2>1, TargetFacts
    <3>2. resource[r.target] # None /\ resource[r.target].owner = r.value.owner
      BY <1>1, <2>1 DEF HandlerSound
    <3> QED  BY <3>1, <3>2 DEF StoreGrows
  <2>2. ASSUME r.op = "skills.resolve", r.pc = "dependencies"
        PROVE  DepsClear(r)'
    <3>1. r.target \in Resources
      BY <2>2, TargetFacts
    <3>2. DepsClear(r)
      BY <1>1, <2>2 DEF HandlerSound
    <3>3. publication'[r.target] = publication[r.target]
      BY <3>1, <3>2 DEF DepsClear, StoreGrows
    <3> QED  BY <1>4, <3>2, <3>3 DEF DepsClear
  <2>3. ASSUME r.op = "mcp.discovery", r.pc \in {"authorized", "tool"}
        PROVE  ToolsClear(r)'
    <3>1. ToolsClear(r)
      BY <1>1, <2>3 DEF HandlerSound
    <3> QED  BY <1>4, <3>1 DEF ToolsClear
  <2>4. r.pc \in HeldPcs => ShownSound(r.value)
    BY <1>1 DEF HandlerSound
  <2>5. r.op = "skills.resolve" /\ r.pc = "authorized" => r.value = <<>>
    BY <1>1 DEF HandlerSound
  <2>6. r.op = "mcp.discovery" /\ r.pc = "tool" => Len(r.value) < Len(ToolIds)
    BY <1>1 DEF HandlerSound
  <2> QED  BY <2>1, <2>2, <2>3, <2>4, <2>5, <2>6 DEF HandlerSound
<1> QED  BY <1>2, <1>3, <1>5, <1>6, <1>7

\* A write stays spent, and a version stays as it was published.
LEMMA EffectStays ==
    ASSUME StoreTypes, StoreTypes', StoreLinks, StoreGrows, NEW e
    PROVE  /\ TokenSpent(e) => TokenSpent(e)'
           /\ PublicationStands(e) => PublicationStands(e)'
<1>1. ASSUME TokenSpent(e), e.op \in Tokened PROVE TokenSpent(e)'
  <2>1. CASE /\ e.target \in Principals /\ principal[e.target] # None
             /\ e.seen < principal[e.target].stamp
    <3>1. principal'[e.target] # None /\ principal[e.target].stamp <= principal'[e.target].stamp
      BY <2>1 DEF StoreGrows
    <3>2. principal[e.target].stamp \in Nat /\ principal'[e.target].stamp \in Nat
      BY <2>1, <3>1 DEF StoreTypes, PrincipalRow
    <3>3. e.seen \in Nat
      BY <1>1 DEF TokenSpent
    <3>4. e.seen < principal'[e.target].stamp
      BY <2>1, <3>1, <3>2, <3>3
    <3> QED  BY <2>1, <3>1, <3>3, <3>4 DEF TokenSpent
  <2>2. CASE /\ e.target \in Resources /\ resource[e.target] # None
             /\ e.seen < resource[e.target].stamp
    <3>1. resource'[e.target] # None /\ resource[e.target].stamp <= resource'[e.target].stamp
      BY <2>2 DEF StoreGrows
    <3>2. resource[e.target].stamp \in Nat /\ resource'[e.target].stamp \in Nat
      BY <2>2, <3>1 DEF StoreTypes, ResourceRow
    <3>3. e.seen \in Nat
      BY <1>1 DEF TokenSpent
    <3>4. e.seen < resource'[e.target].stamp
      BY <2>2, <3>1, <3>2, <3>3
    <3> QED  BY <2>2, <3>1, <3>3, <3>4 DEF TokenSpent
  <2> QED  BY <1>1, <2>1, <2>2 DEF TokenSpent
<1>2. ASSUME PublicationStands(e), e.op \in {"skills.publish", "bok.publish"}
      PROVE  PublicationStands(e)'
  <2>1. /\ e.target \in Resources /\ publication[e.target] # None
        /\ publication[e.target].by = e.n /\ resource[e.target] # None
        /\ publication[e.target].owner = resource[e.target].owner
        /\ publication[e.target].content = resource[e.target].content
        /\ resource[e.target].status \in Shown
    BY <1>2 DEF PublicationStands
  <2>2. TypeOf[e.target] \in Versioned
    BY <2>1 DEF StoreLinks
  <2>3. /\ publication'[e.target] = publication[e.target]
        /\ resource'[e.target] # None
        /\ resource'[e.target].owner = resource[e.target].owner
        /\ resource'[e.target].content = resource[e.target].content
        /\ resource'[e.target].status \in Shown
    BY <2>1, <2>2 DEF StoreGrows
  <2> QED  BY <2>1, <2>3 DEF PublicationStands
<1> QED  BY <1>1, <1>2 DEF TokenSpent, PublicationStands

-----------------------------------------------------------------------------
(* The whole store: the shapes of a step *)

\* What a step may do to the grants.
GrantsStand ==
    grant' # grant => \A g \in Grants : grant'[g] # grant[g] =>
          /\ grant[g] # None => grant[g].status = "active"
          /\ grant'[g] # None
          /\ grant'[g].status = "active" =>
               \A h \in Grants \ {g} :
                   grant'[h] # None /\ grant'[h].status = "active" => grant'[h] # grant'[g]

\* Who has a request in flight, or a key, is not alone in an empty store.
LEMMA SomebodyAsks ==
    ASSUME StoreSafe,
           (\E c \in Clients : req[c].pc \notin Finished) \/ \E k \in Credentials : credential[k] # None
    PROVE  Inhabited
BY DEF StoreSafe, Seeded

\* Principals do not leave.
LEMMA SomebodyStays ==
    ASSUME StoreGrows, Inhabited
    PROVE  Inhabited' /\ Seeded'
<1>1. PICK p \in DOMAIN SeedPrincipal : principal[p] # None
  BY DEF Inhabited
<1>2. p \in Principals
  BY GraphAssumption
<1>3. principal'[p] # None
  BY <1>1, <1>2 DEF StoreGrows
<1> QED  BY <1>3 DEF Inhabited, Seeded

\* The other requests stay as sound as they were when one of them moves.
LEMMA CallsStay ==
    ASSUME StoreSafe, NEW c \in Clients, NEW q, req' = [req EXCEPT ![c] = q],
           IsRequest(q), q.n \in 0..sent', sent' \in Nat, sent <= sent',
           StoreTypes', StoreGrows, Sound(q)'
    PROVE  RequestTypes' /\ \A d \in Clients : Sound(req[d])'
<1>1. StoreTypes /\ RequestTypes /\ \A d \in Clients : Sound(req[d])
  BY DEF StoreSafe
<1>2. /\ req' = [d \in Clients |-> req'[d]] /\ req'[c] = q
      /\ \A d \in Clients : d # c => req'[d] = req[d]
  BY <1>1, RequestMoves
<1>3. ASSUME NEW d \in Clients PROVE IsRequest(req'[d]) /\ req'[d].n \in 0..sent'
  <2>1. CASE d = c
    BY <1>2, <2>1
  <2>2. CASE d # c
    <3>1. IsRequest(req[d]) /\ req[d].n \in 0..sent /\ sent \in Nat
      BY <1>1 DEF RequestTypes
    <3> QED  BY <1>2, <2>2, <3>1
  <2> QED  BY <2>1, <2>2
<1>4. RequestTypes'
  BY <1>2, <1>3 DEF RequestTypes, IsRequest
<1>5. ASSUME NEW d \in Clients PROVE Sound(req[d])'
  <2>1. CASE d = c
    BY <1>2, <2>1
  <2>2. CASE d # c
    BY <1>1, <1>2, <2>2, CallStays
  <2> QED  BY <2>1, <2>2
<1> QED  BY <1>4, <1>5

\* A request moves while the rows grow.
LEMMA MoveGrows ==
    ASSUME StoreSafe, Inhabited, NEW c \in Clients, NEW q, req' = [req EXCEPT ![c] = q],
           IsRequest(q), q.n \in 0..sent', sent' \in Nat, sent <= sent', Sound(q),
           StoreTypes', StoreLinks', StoreGrows, GrantsStand, UNCHANGED effects,
           SessionLocked', \A s \in served' : ShownSound(s)
    PROVE  StoreSafe'
<1>1. StoreTypes /\ StoreLinks
  BY DEF StoreSafe
<1>2. Sound(q)'
  BY <1>1, CallStays
<1>3. RequestTypes' /\ \A d \in Clients : Sound(req[d])'
  BY <1>2, CallsStay
<1>4. Seeded'
  BY SomebodyStays
<1>5. \A e \in effects' : TokenSpent(e)' /\ PublicationStands(e)' /\ e.evidence \cap e.barred = {}
  BY <1>1, EffectStays DEF StoreSafe
<1>6. WritesAreSerial'
  BY DEF StoreSafe, WritesAreSerial
<1>7. \A s \in served' : ShownSound(s)'
  BY DEF ShownSound
<1> QED  BY <1>3, <1>4, <1>5, <1>6, <1>7 DEF StoreSafe

\* A request moves and no row does.
LEMMA MoveKeeps ==
    ASSUME StoreSafe, Inhabited, NEW c \in Clients, NEW q, req' = [req EXCEPT ![c] = q],
           IsRequest(q), q.n \in 0..sent', sent' \in Nat, sent <= sent', Sound(q),
           UNCHANGED <<principal, credential, grant, resource, publication, owner, effects>>,
           SessionLocked', \A s \in served' : ShownSound(s)
    PROVE  StoreSafe' /\ GrantsStand
<1>1. StoreTypes' /\ StoreLinks' /\ StoreGrows
  BY StoreStays DEF StoreSafe
<1>2. GrantsStand
  BY DEF GrantsStand
<1> QED  BY <1>1, <1>2, MoveGrows

\* Rows are written by nobody's request.
LEMMA RowsKeep ==
    ASSUME StoreSafe, StoreTypes', StoreLinks', StoreGrows, Seeded', GrantsStand,
           UNCHANGED <<req, sent, effects, client, served, handshakes>>
    PROVE  StoreSafe' /\ GrantsStand
<1>1. StoreTypes /\ StoreLinks
  BY DEF StoreSafe
<1>2. RequestTypes'
  BY DEF StoreSafe, RequestTypes, IsRequest
<1>3. SessionLocked'
  BY DEF StoreSafe, SessionLocked, At
<1>4. \A c \in Clients : Sound(req[c])'
  BY <1>1, CallStays DEF StoreSafe
<1>5. \A e \in effects' : TokenSpent(e)' /\ PublicationStands(e)' /\ e.evidence \cap e.barred = {}
  BY <1>1, EffectStays DEF StoreSafe
<1>6. WritesAreSerial'
  BY DEF StoreSafe, WritesAreSerial
<1>7. \A s \in served' : ShownSound(s)'
  BY DEF StoreSafe, ShownSound
<1> QED  BY <1>2, <1>3, <1>4, <1>5, <1>6, <1>7 DEF StoreSafe

-----------------------------------------------------------------------------
(* The whole store: answers *)

\* A request that is not in the handshake leaves the session alone.
LEMMA SessionStays ==
    ASSUME StoreSafe, NEW c \in Clients, NEW q, req' = [req EXCEPT ![c] = q],
           ~At(c, "mcp.invoke", "handshake"), ~(q.op = "mcp.invoke" /\ q.pc = "handshake"),
           UNCHANGED <<client, handshakes>>
    PROVE  SessionLocked'
<1>1. SessionLocked /\ RequestTypes
  BY DEF StoreSafe
<1>2. req'[c] = q /\ \A d \in Clients : d # c => req'[d] = req[d]
  BY <1>1, RequestMoves
<1>3. \A d \in Clients : At(d, "mcp.invoke", "handshake")' <=> At(d, "mcp.invoke", "handshake")
  BY <1>2 DEF At
<1> QED  BY <1>1, <1>3 DEF SessionLocked

\* A request that leaves the handshake, or waits for it, leaves the lock.
LEMMA SessionLeft ==
    ASSUME StoreSafe, NEW c \in Clients, NEW q, req' = [req EXCEPT ![c] = q],
           ~(q.op = "mcp.invoke" /\ q.pc = "handshake"), handshakes' = handshakes,
           NEW lock, lock = IF client.lock = c THEN None ELSE client.lock,
           client' = [client EXCEPT !.lock = lock]
    PROVE  SessionLocked'
<1>1. SessionLocked /\ RequestTypes
  BY DEF StoreSafe
<1>2. req'[c] = q /\ \A d \in Clients : d # c => req'[d] = req[d]
  BY <1>1, RequestMoves
<1>3. /\ ~At(c, "mcp.invoke", "handshake")'
      /\ \A d \in Clients : d # c =>
            (At(d, "mcp.invoke", "handshake")' <=> At(d, "mcp.invoke", "handshake"))
  BY <1>2 DEF At
<1>4. client \in [initialized : BOOLEAN, lock : Clients \cup {None}] /\ None \notin Clients
  BY <1>1, SurfaceAssumption DEF SessionLocked
<1>5. /\ client' \in [initialized : BOOLEAN, lock : Clients \cup {None}]
      /\ client'.initialized = client.initialized /\ client'.lock = lock
  BY <1>4
<1>6. \A d \in Clients : d # c => (lock = d <=> client.lock = d)
  BY <1>4
<1>7. lock # c
  BY <1>4
<1>8. /\ handshakes \in {0, 1} /\ (client.initialized <=> handshakes = 1)
      /\ \A d \in Clients : At(d, "mcp.invoke", "handshake") <=> client.lock = d
      /\ \A d \in Clients : At(d, "mcp.invoke", "handshake") => ~client.initialized
  BY <1>1 DEF SessionLocked
<1>9. \A d \in Clients : At(d, "mcp.invoke", "handshake")' <=> client'.lock = d
  BY <1>3, <1>5, <1>6, <1>7, <1>8
<1>10. \A d \in Clients : At(d, "mcp.invoke", "handshake")' => ~client'.initialized
  BY <1>3, <1>5, <1>8
<1> QED  BY <1>5, <1>8, <1>9, <1>10 DEF SessionLocked

\* A request that is over is sound.
LEMMA OverSound ==
    ASSUME NEW q, q.pc \in Finished
    PROVE  Sound(q) /\ ~(q.op = "mcp.invoke" /\ q.pc = "handshake")
BY DEF Sound, Finished

\* A request ends; what it shows is sound.
LEMMA EndStores ==
    ASSUME StoreSafe, NEW c \in Clients, req[c].pc \notin Finished,
           NEW status \in Nat, NEW replayed \in BOOLEAN, req' = Answered(c, status, replayed),
           UNCHANGED <<principal, credential, grant, resource, publication, owner, effects, sent>>,
           handshakes' = handshakes,
           \/ client' = client /\ ~At(c, "mcp.invoke", "handshake")
           \/ client' = [client EXCEPT !.lock = IF client.lock = c THEN None ELSE client.lock],
           \A s \in served' : ShownSound(s)
    PROVE  StoreSafe' /\ GrantsStand
<1> PICK q : q = Left(req[c], status, replayed)
  OBVIOUS
<1>1. /\ req' = [req EXCEPT ![c] = q]
      /\ IsRequest(q) /\ q.n \in {0, req[c].n} /\ q.pc \in Finished
  BY AnsweredFacts
<1>2. Sound(q) /\ ~(q.op = "mcp.invoke" /\ q.pc = "handshake")
  BY <1>1, OverSound
<1>3. Inhabited
  BY SomebodyAsks
<1>4. SessionLocked'
  <2>1. CASE client' = client /\ ~At(c, "mcp.invoke", "handshake")
    BY <1>1, <1>2, <2>1, SessionStays
  <2>2. CASE client' = [client EXCEPT !.lock = IF client.lock = c THEN None ELSE client.lock]
    <3> PICK lock : lock = IF client.lock = c THEN None ELSE client.lock
      OBVIOUS
    <3>1. client' = [client EXCEPT !.lock = lock]
      BY <2>2
    <3> QED  BY <1>1, <1>2, <3>1, SessionLeft
  <2> QED  BY <2>1, <2>2
<1>5. q.n \in 0..sent' /\ sent' \in Nat /\ sent <= sent'
  <2>1. sent \in Nat /\ req[c].n \in 0..sent
    BY DEF StoreSafe, RequestTypes
  <2> QED  BY <1>1, <2>1
<1> QED  BY <1>1, <1>2, <1>3, <1>4, <1>5, MoveKeeps

\* An administrative step leaves the MCP registry, its session and what was served alone.
Unserved == UNCHANGED <<publication, mcpvars, served>>

\* An administrative request is answered.
LEMMA AnswerStores ==
    ASSUME StoreSafe, NEW c \in Clients, req[c].pc \notin Finished,
           ~At(c, "mcp.invoke", "handshake"), NEW status \in Nat, Answer(c, status), Unserved
    PROVE  StoreSafe' /\ GrantsStand
<1>1. /\ UNCHANGED <<principal, credential, grant, resource, publication, owner, effects, sent>>
      /\ client' = client /\ handshakes' = handshakes
      /\ \A s \in served' : ShownSound(s)
  BY DEF Answer, Unserved, mcpvars, identity, StoreSafe
<1>2. CASE req' = Answered(c, status, FALSE)
  BY <1>1, <1>2, EndStores
<1> PICK fail \in Nat : fail = 503
  OBVIOUS
<1>3. CASE req' = Answered(c, fail, FALSE)
  BY <1>1, <1>3, EndStores
<1> QED  BY <1>2, <1>3 DEF Answer, finish

\* A request is answered again from its binding.
LEMMA ReplayStores ==
    ASSUME StoreSafe, NEW c \in Clients, req[c].pc \notin Finished,
           ~At(c, "mcp.invoke", "handshake"), NEW status \in Nat, Replay(c, status), Unserved
    PROVE  StoreSafe' /\ GrantsStand
<1>1. /\ UNCHANGED <<principal, credential, grant, resource, publication, owner, effects, sent>>
      /\ client' = client /\ handshakes' = handshakes
      /\ \A s \in served' : ShownSound(s)
  BY DEF Replay, Unserved, mcpvars, identity, StoreSafe
<1> QED  BY <1>1, EndStores DEF Replay

\* A handler refuses.
LEMMA RefusedStores ==
    ASSUME StoreSafe, NEW c \in Clients, req[c].pc \notin Finished,
           ~At(c, "mcp.invoke", "handshake"), AuditRefused(c), Unserved
    PROVE  StoreSafe' /\ GrantsStand
<1>1. /\ UNCHANGED <<principal, credential, grant, resource, publication, owner, effects, sent>>
      /\ client' = client /\ handshakes' = handshakes
      /\ \A s \in served' : ShownSound(s)
  BY DEF AuditRefused, Unserved, mcpvars, identity, StoreSafe
<1> PICK fail \in Nat : fail = 503
  OBVIOUS
<1>2. req' = Answered(c, fail, FALSE)
  BY DEF AuditRefused
<1> QED  BY <1>1, <1>2, EndStores

-----------------------------------------------------------------------------
(* The whole store: mutations *)

\* What was found active when it was needed was not out when the request came.
LEMMA EvidenceClear ==
    ASSUME StoreTypes, NEW c \in Clients, StaysBarred(req[c]),
           <<"credential", req[c].cred, 0>> \notin req[c].barred,
           req[c].who \in Principals, principal[req[c].who] # None,
           PrincipalClear(req[c], req[c].who),
           NEW grants, \A g \in grants : GrantClear(req[c], g),
           NEW targets, \A o \in targets : ResourceClear(req[c], o)
    PROVE  Evidence(c, grants, targets) \cap req[c].barred = {}
<1> DEFINE r == req[c]
<1>1. principal[r.who].stamp \in Nat
  BY DEF StoreTypes, PrincipalRow
<1>2. <<"principal", r.who, principal[r.who].stamp>> \notin r.barred
  BY <1>1 DEF PrincipalClear
<1>3. ASSUME NEW o \in targets PROVE <<"resource", o, resource[o].stamp>> \notin r.barred
  <2> SUFFICES ASSUME <<"resource", o, resource[o].stamp>> \in r.barred PROVE FALSE
    OBVIOUS
  <2>1. ResourceClear(r, o)
    OBVIOUS
  <2>2. o \notin DOMAIN SeedRoute /\ resource[o].stamp < resource[o].stamp
    BY <2>1 DEF ResourceClear
  <2>3. resource[o].stamp \in Nat
    BY <2>2 DEF StaysBarred
  <2> QED  BY <2>2, <2>3
<1>4. \A g \in grants : <<"grant", g, 0>> \notin r.barred
  BY DEF GrantClear
<1> QED  BY <1>2, <1>3, <1>4 DEF Evidence

\* The operations that send a token, and those that rest on an administrative grant.
Publishing == {"skills.publish", "bok.publish"}
Stored ==
    {"principals.status.replace", "credentials.revoke", "grants.create", "grants.revoke",
     "aliases.create", "aliases.assignment.replace", "aliases.status.replace",
     "catalog.create", "skills.publish", "bok.publish", "skills.status.replace",
     "consumption_limits.replace"}

\* The operations that write the rows of the store.
LEMMA StoredFacts ==
    /\ Tokened = {"principals.status.replace", "aliases.assignment.replace",
                  "aliases.status.replace", "skills.status.replace",
                  "consumption_limits.replace"}
    /\ \A op \in Stored : Evidenced(op) /\ op \notin GovernedOps /\ op # "mcp.invoke"
<1>1. ASSUME NEW x \in Routes
      PROVE  "token" \in x.carries <=> x.op \in
               {"principals.status.replace", "aliases.assignment.replace",
                "aliases.status.replace", "skills.status.replace", "consumption_limits.replace"}
  BY DEF Routes, PrincipalRoutes, CredentialRoutes, GrantRoutes, AliasRoutes,
         CatalogRoutes, SkillRoutes, BoKRoutes, LimitRoutes, Route
<1>2. /\ Route("principals.status.replace", {"token"}) \in Routes
      /\ Route("aliases.assignment.replace", {"token"}) \in Routes
      /\ Route("aliases.status.replace", {"token"}) \in Routes
      /\ Route("skills.status.replace", {"token"}) \in Routes
      /\ Route("consumption_limits.replace", {"key", "token"}) \in Routes
  BY DEF Routes, PrincipalRoutes, AliasRoutes, SkillRoutes, LimitRoutes
<1>3. \A op \in {"principals.status.replace", "aliases.assignment.replace",
                "aliases.status.replace", "skills.status.replace",
                "consumption_limits.replace"} : \E x \in Routes : x.op = op
  BY <1>2 DEF Route
<1>4. Tokened = {"principals.status.replace", "aliases.assignment.replace",
                 "aliases.status.replace", "skills.status.replace",
                 "consumption_limits.replace"}
  BY <1>1, <1>3 DEF Tokened
<1> QED  BY <1>4 DEF Stored, Evidenced, UsageRoutes, AuditRoutes, GovernedOps, MCPRoutes,
                     ResolutionRoutes, RetrievalRoutes

\* The row that a write was checked against, as the write finds it.
TokenCurrent(e) ==
    \/ e.target \in Principals /\ principal[e.target] # None /\ e.seen = principal[e.target].stamp
    \/ e.target \in Resources /\ resource[e.target] # None /\ e.seen = resource[e.target].stamp

\* A committed request rests on what it was authorized on.
LEMMA CommittedClear ==
    ASSUME StoreSafe, NEW c \in Clients, req[c].pc \in Allowed, Evidenced(req[c].op)
    PROVE  Effect(c).evidence \cap Effect(c).barred = {}
<1> DEFINE r == req[c]
<1> PICK o : o = CONTROL_SCOPES(r.op)[2]
  OBVIOUS
<1> PICK grants : grants = {r.grant}
  OBVIOUS
<1> PICK targets : targets = {o}
  OBVIOUS
<1>1. StoreTypes /\ Sound(r)
  BY DEF StoreSafe
<1>2. /\ StaysBarred(r) /\ <<"credential", r.cred, 0>> \notin r.barred
      /\ r.who \in Principals /\ principal[r.who] # None /\ PrincipalClear(r, r.who)
      /\ GrantClear(r, r.grant) /\ ResourceClear(r, o)
  BY <1>1 DEF Sound, CallerSound, ScopeSound, Finished, Allowed, Awaited
<1>3. Evidence(c, grants, targets) \cap r.barred = {}
  BY <1>1, <1>2, EvidenceClear
<1>4. Effect(c).evidence = Evidence(c, grants, targets) /\ Effect(c).barred = r.barred
  BY DEF Effect
<1> QED  BY <1>3, <1>4

\* No write was checked against this row yet.
LEMMA SerialStays ==
    ASSUME StoreSafe, NEW e, effects' = effects \cup {e},
           e.op \in Tokened => TokenCurrent(e)
    PROVE  WritesAreSerial'
<1>1. ASSUME NEW f \in effects, {e.op, f.op} \subseteq Tokened,
             e.target = f.target, e.seen = f.seen
      PROVE  FALSE
  <2>1. TokenCurrent(e) /\ TokenSpent(f) /\ StoreTypes /\ f.seen \in Nat
    BY <1>1 DEF StoreSafe, TokenSpent
  <2>2. /\ f.target \in Principals /\ principal[f.target] # None =>
              ~(f.target \in Resources) /\ principal[f.target].stamp \in Nat
        /\ f.target \in Resources /\ resource[f.target] # None =>
              ~(f.target \in Principals) /\ resource[f.target].stamp \in Nat
    BY <2>1, CatalogAssumption, StampFacts
  <2> QED  BY <1>1, <2>1, <2>2 DEF TokenCurrent, TokenSpent
<1>2. WritesAreSerial
  BY DEF StoreSafe
<1> QED  BY <1>1, <1>2 DEF WritesAreSerial

\* A mutation, its binding and its request.
LEMMA CommitStores ==
    ASSUME StoreSafe, NEW c \in Clients, NEW q, req' = [req EXCEPT ![c] = q],
           req[c].pc \in Allowed, req[c].op \in Stored,
           IsRequest(q), q.n \in {0, req[c].n}, Sound(q)',
           ~(q.op = "mcp.invoke" /\ q.pc = "handshake"),
           UNCHANGED <<sent, client, handshakes, served>>,
           NEW e, e = Effect(c), effects' = effects \cup {e},
           StoreTypes', StoreLinks', StoreGrows, GrantsStand,
           e.op \in Tokened => TokenCurrent(e) /\ TokenSpent(e)', PublicationStands(e)'
    PROVE  StoreSafe' /\ GrantsStand
<1>1. /\ StoreTypes /\ StoreLinks /\ RequestTypes /\ Evidenced(req[c].op)
      /\ ~At(c, "mcp.invoke", "handshake") /\ req[c].pc \notin Finished
  BY StoredFacts DEF StoreSafe, At, Allowed, Finished
<1>2. SessionLocked'
  BY <1>1, SessionStays
<1>3. Seeded'
  BY <1>1, SomebodyAsks, SomebodyStays
<1>4. q.n \in 0..sent' /\ sent' \in Nat /\ sent <= sent'
  <2>1. sent \in Nat /\ req[c].n \in 0..sent
    BY <1>1 DEF RequestTypes
  <2> QED  BY <2>1
<1>5. RequestTypes' /\ \A d \in Clients : Sound(req[d])'
  BY <1>4, CallsStay
<1>6. TokenSpent(e)'
  BY DEF TokenSpent
<1>7. e.evidence \cap e.barred = {}
  BY <1>1, CommittedClear
<1>8. \A f \in effects : TokenSpent(f)' /\ PublicationStands(f)' /\ f.evidence \cap f.barred = {}
  BY <1>1, EffectStays DEF StoreSafe
<1>9. \A f \in effects' : TokenSpent(f)' /\ PublicationStands(f)' /\ f.evidence \cap f.barred = {}
  BY <1>6, <1>7, <1>8
<1>10. WritesAreSerial'
  BY SerialStays
<1>11. \A s \in served' : ShownSound(s)'
  BY DEF StoreSafe, ShownSound
<1> QED  BY <1>2, <1>3, <1>5, <1>9, <1>10, <1>11 DEF StoreSafe

\* A request that waits for its event, or for the insert of its grant, is as sound as it was.
LEMMA CommittedSound ==
    ASSUME NEW r, Sound(r), r.pc \in Allowed, r.op \notin GovernedOps,
           NEW q, q.pc = "committed" \/ (q.pc = "checked" /\ r.op = "grants.create"),
           q.op = r.op, q.target = r.target, q.value = r.value, q.cred = r.cred,
           q.seen = r.seen, q.barred = r.barred, q.who = r.who, q.active = r.active,
           q.grant = r.grant
    PROVE  Sound(q)
<1>1. /\ r.op \in Operations /\ \E in \in Inputs[r.op] : r.target = in[1] /\ r.value = in[2]
      /\ r.cred \in Credentials /\ credential[r.cred] # None /\ r.seen \in Nat
      /\ StaysBarred(r) /\ CallerSound(r) /\ ScopeSound(r)
  BY DEF Sound, Allowed, Finished
<1>2. StaysBarred(q)
  BY <1>1 DEF StaysBarred
<1>3. CallerSound(q) /\ ScopeSound(q)
  BY <1>1 DEF CallerSound, ScopeSound, PrincipalClear, GrantClear, ResourceClear, Awaited, Allowed
<1>4. HandlerSound(q)
  BY DEF HandlerSound, HeldPcs
<1> QED  BY <1>1, <1>2, <1>3, <1>4 DEF Sound

\* The mutation is committed and its handler audits afterwards.
LEMMA FirstStores ==
    ASSUME StoreSafe, NEW c \in Clients, NEW status \in Nat, CommitsFirst(c, status),
           req[c].pc \in Allowed, req[c].op \in Stored,
           UNCHANGED <<client, handshakes, served>>,
           StoreTypes', StoreLinks', StoreGrows, GrantsStand, NEW e, e = Effect(c),
           e.op \in Tokened => TokenCurrent(e) /\ TokenSpent(e)', PublicationStands(e)'
    PROVE  StoreSafe' /\ GrantsStand
<1> DEFINE r == req[c]
<1> PICK q : q = [r EXCEPT !.pc = "committed", !.status = status]
  OBVIOUS
<1>1. /\ StoreTypes /\ RequestTypes /\ Sound(r) /\ IsRequest(r) /\ r.op \notin GovernedOps
      /\ r.n \in 0..sent
  BY StoredFacts DEF StoreSafe, RequestTypes
<1>2. req' = [req EXCEPT ![c] = q]
  BY <1>1 DEF CommitsFirst, RequestTypes
<1>3. /\ IsRequest(q) /\ q.n = r.n /\ q.op = r.op /\ q.target = r.target
      /\ q.value = r.value /\ q.cred = r.cred /\ q.barred = r.barred /\ q.pc = "committed"
      /\ q.seen = r.seen /\ q.who = r.who /\ q.active = r.active /\ q.grant = r.grant
  BY <1>1 DEF IsRequest, RequestFields
<1>4. Sound(q)
  BY <1>1, <1>3, CommittedSound
<1>5. Sound(q)'
  BY <1>1, <1>4, CallStays
<1>6. sent' = sent /\ effects' = effects \cup {e}
  BY DEF CommitsFirst
<1> QED  BY <1>2, <1>3, <1>5, <1>6, CommitStores

\* The mutation is committed with its event.
LEMMA AuditedStores ==
    ASSUME StoreSafe, NEW c \in Clients, NEW status \in Nat, CommitsAudited(c, status),
           req[c].pc \in Allowed, req[c].op \in Stored,
           UNCHANGED <<client, handshakes, served>>,
           StoreTypes', StoreLinks', StoreGrows, GrantsStand, NEW e, e = Effect(c),
           e.op \in Tokened => TokenCurrent(e) /\ TokenSpent(e)', PublicationStands(e)'
    PROVE  StoreSafe' /\ GrantsStand
<1> PICK q : q = Left(req[c], status, FALSE)
  OBVIOUS
<1>1. Answered(c, status, FALSE) = [req EXCEPT ![c] = q]
      /\ IsRequest(q) /\ q.n \in {0, req[c].n} /\ q.pc \in Finished
  BY AnsweredFacts
<1>2. req' = [req EXCEPT ![c] = q] /\ sent' = sent /\ effects' = effects \cup {e}
  BY <1>1 DEF CommitsAudited
<1>3. Sound(q) /\ ~(q.op = "mcp.invoke" /\ q.pc = "handshake")
  BY <1>1, OverSound
<1>4. Sound(q)'
  BY <1>3, CallStays DEF StoreSafe
<1> QED  BY <1>1, <1>2, <1>3, <1>4, CommitStores

-----------------------------------------------------------------------------
(* The whole store: admission *)

\* A request moves on within its handler.
LEMMA GoesStores ==
    ASSUME StoreSafe, NEW c \in Clients, NEW q, req' = [req EXCEPT ![c] = q],
           req[c].pc \notin Finished, IsRequest(q), q.n = req[c].n, Sound(q),
           UNCHANGED <<principal, credential, grant, resource, publication, owner, effects,
                       sent, served>>,
           SessionLocked'
    PROVE  StoreSafe' /\ GrantsStand
<1>1. Inhabited
  BY SomebodyAsks
<1>2. q.n \in 0..sent' /\ sent' \in Nat /\ sent <= sent'
  <2>1. sent \in Nat /\ req[c].n \in 0..sent
    BY DEF StoreSafe, RequestTypes
  <2> QED  BY <2>1
<1>3. \A s \in served' : ShownSound(s)
  BY DEF StoreSafe
<1> QED  BY <1>1, <1>2, <1>3, MoveKeeps

\* What is barred when a request comes is what is out then.
LEMMA BarredIsOut ==
    ASSUME StoreTypes, NEW r, r.barred = Revoked
    PROVE  StaysBarred(r)
<1>1. /\ \A p \in Principals : principal[p] # None => principal[p].stamp \in Nat
      /\ \A o \in Resources : resource[o] # None => resource[o].stamp \in Nat
  BY StampFacts
<1>2. ASSUME NEW k, <<"credential", k, 0>> \in r.barred
      PROVE  credential[k] # None /\ credential[k].status = "revoked"
  BY <1>2 DEF Revoked
<1>3. ASSUME NEW g, <<"grant", g, 0>> \in r.barred
      PROVE  grant[g] # None /\ grant[g].status = "revoked"
  BY <1>3 DEF Revoked
<1>4. ASSUME NEW p, NEW s, <<"principal", p, s>> \in r.barred
      PROVE  /\ p \in Principals /\ principal[p] # None /\ s = principal[p].stamp
             /\ principal[p].status # "active"
  BY <1>4 DEF Revoked
<1>5. ASSUME NEW o, NEW s, <<"resource", o, s>> \in r.barred
      PROVE  /\ o \in Resources /\ resource[o] # None /\ s = resource[o].stamp
             /\ resource[o].status # "active"
  BY <1>5 DEF Revoked
<1> QED  BY <1>1, <1>2, <1>3, <1>4, <1>5 DEF StaysBarred

\* The token a client sends is the stamp of the row it has read.
LEMMA StampIsNat ==
    ASSUME StoreTypes, NEW op, NEW id
    PROVE  Stamp(op, id) \in Nat
BY StampFacts DEF Stamp

\* A request comes.
LEMMA SubmitStores ==
    ASSUME StoreSafe, NEW c \in Clients, Submit(c), Unserved
    PROVE  StoreSafe' /\ GrantsStand
<1>1. /\ req[c].pc \in Finished /\ sent' = sent + 1
      /\ UNCHANGED <<principal, credential, grant, resource, publication, owner, effects,
                     client, handshakes, served>>
  BY DEF Submit, identity, Unserved, mcpvars
<1>2. PICK op \in Operations, cred \in Credentials :
         \E in \in Inputs[op], key \in IF op \in Keyed THEN Keys ELSE {None} :
            /\ credential[cred] # None
            /\ req' = [req EXCEPT ![c] =
                 [NoRequest EXCEPT !.n = sent + 1, !.op = op, !.key = key,
                    !.target = in[1], !.value = in[2], !.cred = cred,
                    !.seen = Stamp(op, in[1]), !.barred = Revoked,
                    !.pc = "arrived"]]
  BY DEF Submit
<1>3. PICK in \in Inputs[op], key \in IF op \in Keyed THEN Keys ELSE {None} :
         /\ credential[cred] # None
         /\ req' = [req EXCEPT ![c] =
              [NoRequest EXCEPT !.n = sent + 1, !.op = op, !.key = key,
                 !.target = in[1], !.value = in[2], !.cred = cred,
                 !.seen = Stamp(op, in[1]), !.barred = Revoked,
                 !.pc = "arrived"]]
  BY <1>2
<1> PICK stamp : stamp = Stamp(op, in[1])
  OBVIOUS
<1> PICK barred : barred = Revoked
  OBVIOUS
<1> PICK q : q = [NoRequest EXCEPT !.n = sent + 1, !.op = op, !.key = key,
                   !.target = in[1], !.value = in[2], !.cred = cred,
                   !.seen = stamp, !.barred = barred, !.pc = "arrived"]
  OBVIOUS
<1>4. req' = [req EXCEPT ![c] = q]
  BY <1>3
<1>5. /\ IsRequest(q) /\ q.n = sent + 1 /\ q.op = op /\ q.target = in[1]
      /\ q.value = in[2] /\ q.cred = cred /\ q.barred = barred /\ q.pc = "arrived"
      /\ q.seen = stamp
  BY DEF NoRequest, IsRequest, RequestFields
<1>6. StoreTypes /\ sent \in Nat
  BY DEF StoreSafe, RequestTypes
<1>7. StaysBarred(q)
  BY <1>5, <1>6, BarredIsOut
<1>8. stamp \in Nat
  BY <1>6, StampIsNat
<1>9. CallerSound(q) /\ ScopeSound(q) /\ HandlerSound(q)
  BY <1>5 DEF CallerSound, ScopeSound, HandlerSound, Awaited, HeldPcs
<1>10. Sound(q)
  BY <1>3, <1>5, <1>7, <1>8, <1>9 DEF Sound
<1>11. Inhabited
  BY <1>3, SomebodyAsks
<1>12. q.n \in 0..sent' /\ sent' \in Nat /\ sent <= sent'
  BY <1>1, <1>5, <1>6
<1>13. SessionLocked'
  BY <1>1, <1>4, <1>5, SessionStays DEF At, Finished
<1>14. \A s \in served' : ShownSound(s)
  BY <1>1 DEF StoreSafe
<1> QED  BY <1>1, <1>4, <1>5, <1>10, <1>11, <1>12, <1>13, <1>14, MoveKeeps

\* An active row was not out when the request came, or has come back since.
LEMMA ActiveClear ==
    ASSUME StoreTypes, NEW r, StaysBarred(r)
    PROVE  /\ \A p \in Principals : principal[p] # None /\ principal[p].status = "active" =>
                 PrincipalClear(r, p)
           /\ \A g \in Grants : grant[g] # None /\ grant[g].status = "active" => GrantClear(r, g)
           /\ \A o : /\ o \notin DOMAIN SeedRoute /\ resource[o] # None
                     /\ resource[o].status = "active"
                     => ResourceClear(r, o)
<1>1. ASSUME NEW p \in Principals, principal[p] # None, principal[p].status = "active"
      PROVE  PrincipalClear(r, p)
  <2>1. principal[p].stamp \in Nat
    BY <1>1, StampFacts
  <2> QED  BY <1>1, <2>1 DEF PrincipalClear, StaysBarred
<1>2. ASSUME NEW g \in Grants, grant[g] # None, grant[g].status = "active"
      PROVE  GrantClear(r, g)
  BY <1>2 DEF GrantClear, StaysBarred
<1>3. ASSUME NEW o, o \notin DOMAIN SeedRoute, resource[o] # None, resource[o].status = "active"
      PROVE  ResourceClear(r, o)
  <2> SUFFICES ASSUME NEW s, <<"resource", o, s>> \in r.barred
               PROVE  s < resource[o].stamp
    BY <1>3 DEF ResourceClear
  <2>1. o \in Resources /\ s \in Nat /\ s <= resource[o].stamp /\ s # resource[o].stamp
    BY <1>3 DEF StaysBarred
  <2>2. resource[o].stamp \in Nat
    BY <1>3, <2>1, StampFacts
  <2> QED  BY <2>1, <2>2
<1> QED  BY <1>1, <1>2, <1>3

\* The routes are told from the rest by their type.
LEMMA NoRoute ==
    /\ \A o : TypeOf[o] \in {"skill", "bok_collection", "mcp_server", "mcp_tool",
                             "administrative_control", "policy"} => o \notin DOMAIN SeedRoute
    /\ \A op \in Operations : Evidenced(op) => CONTROL_SCOPES(op)[2] \notin DOMAIN SeedRoute
<1>1. \A o : TypeOf[o] \in {"skill", "bok_collection", "mcp_server", "mcp_tool",
                            "administrative_control", "policy"} => o \notin DOMAIN SeedRoute
  BY GraphAssumption
<1>2. ASSUME NEW op \in Operations, CONTROL_SCOPES(op)[2] \in DOMAIN SeedRoute
      PROVE  FALSE
  <2> PICK area : area = Area(op)
    OBVIOUS
  <2>1. CONTROL_SCOPES(op)[2] = area
    BY DEF CONTROL_SCOPES
  <2>2. area \in Resources /\ TypeOf[area] = "llm_model"
    BY <1>2, <2>1, GraphAssumption
  <2>3. area \in {Area(x) : x \in Operations}
    OBVIOUS
  <2>4. TypeOf[area] = "administrative_control"
    BY <2>2, <2>3, CatalogAssumption
  <2> QED  BY <2>2, <2>4
<1> QED  BY <1>1, <1>2

\* The caller is who owns the key now.
LEMMA KnownSound ==
    ASSUME StoreTypes, StoreLinks, NEW r, Sound(r), IsRequest(r), r.pc = "arrived",
           credential[r.cred].status = "active",
           NEW q, q.pc = "authenticated", q.op = r.op, q.target = r.target, q.value = r.value,
           q.cred = r.cred, q.seen = r.seen, q.barred = r.barred,
           q.who = credential[r.cred].owner,
           q.active => principal[q.who].status = "active"
    PROVE  Sound(q)
<1>1. /\ r.op \in Operations
      /\ \E in \in Inputs[r.op] : r.target = in[1] /\ (r.op \notin GovernedOps => r.value = in[2])
      /\ r.cred \in Credentials /\ credential[r.cred] # None /\ r.seen \in Nat /\ StaysBarred(r)
  BY DEF Sound, Finished
<1>2. q.who \in Principals /\ principal[q.who] # None
  BY <1>1 DEF StoreTypes, StoreLinks, CredentialRow
<1>3. <<"credential", r.cred, 0>> \notin r.barred
  BY <1>1 DEF StaysBarred
<1>4. q.active => PrincipalClear(r, q.who)
  BY <1>1, <1>2, ActiveClear
<1>5. StaysBarred(q)
  BY <1>1 DEF StaysBarred
<1>6. CallerSound(q)
  BY <1>2, <1>3, <1>4 DEF CallerSound, PrincipalClear
<1>7. ScopeSound(q) /\ HandlerSound(q)
  BY SMTT(40) DEF ScopeSound, HandlerSound, Awaited, HeldPcs
<1> QED  BY <1>1, <1>5, <1>6, <1>7 DEF Sound

\* The caller of an administrative operation is who owns the key now.
LEMMA AuthenticateStores ==
    ASSUME StoreSafe, NEW c \in Clients, Authenticate(c), Unserved
    PROVE  StoreSafe' /\ GrantsStand
<1> DEFINE r == req[c]
<1> PICK row : row = credential[r.cred]
  OBVIOUS
<1>1. /\ StoreTypes /\ StoreLinks /\ RequestTypes /\ Sound(r) /\ IsRequest(r)
      /\ r.pc = "arrived" /\ r.pc \notin Finished /\ ~At(c, "mcp.invoke", "handshake")
  BY DEF StoreSafe, RequestTypes, Authenticate, Finished, At
<1>2. CASE Answer(c, 401)
  <2> PICK status \in Nat : status = 401
    BY SMTT(30)
  <2> QED  BY <1>1, <1>2, AnswerStores
<1> PICK active : active = (principal[row.owner].status = "active")
  BY Zenon
<1>3. CASE /\ row.status = "active"
           /\ req' = [req EXCEPT ![c].pc = "authenticated", ![c].who = row.owner,
                                 ![c].active = active]
           /\ UNCHANGED <<identity, resource, idem, audit, sent, effects>>
  <2> PICK q : q = [r EXCEPT !.pc = "authenticated", !.who = row.owner, !.active = active]
    BY Zenon
  <2>1. req' = [req EXCEPT ![c] = q]
    BY <1>1, <1>3, ZenonT(40) DEF RequestTypes
  <2>2. /\ IsRequest(q) /\ q.n = r.n /\ q.op = r.op /\ q.target = r.target /\ q.value = r.value
        /\ q.cred = r.cred /\ q.seen = r.seen /\ q.barred = r.barred /\ q.pc = "authenticated"
        /\ q.who = row.owner /\ q.active = active
    BY <1>1, ZenonT(40) DEF IsRequest, RequestFields
  <2>3. Sound(q)
    <3>1. credential[r.cred].status = "active" /\ q.who = credential[r.cred].owner
      BY <1>3, <2>2
    <3>2. q.active => principal[q.who].status = "active"
      BY <2>2, Zenon
    <3> QED  BY <1>1, <2>2, <3>1, <3>2, KnownSound, ZenonT(40)
  <2>4. UNCHANGED <<principal, credential, grant, resource, publication, owner, effects,
                    sent, served, client, handshakes>>
    BY <1>3, ZenonT(40) DEF Unserved, mcpvars, identity
  <2>5. SessionLocked'
    BY <1>1, <2>1, <2>2, <2>4, SessionStays
  <2> QED  BY <1>1, <2>1, <2>2, <2>3, <2>4, <2>5, GoesStores
<1> QED  BY <1>2, <1>3 DEF Authenticate

\* The grant and the resource that allow a request are active then.
LEMMA AllowedSound ==
    ASSUME StoreTypes, NEW r, Sound(r), IsRequest(r), r.pc = "authenticated", r.active,
           NEW g \in Grants, grant[g] # None, grant[g].status = "active",
           Evidenced(r.op) => ResourceClear(r, CONTROL_SCOPES(r.op)[2]),
           r.op \in GovernedOps => ResourceClear(r, r.target),
           NEW q, q.pc = "authorized", q.op = r.op, q.target = r.target, q.cred = r.cred,
           q.seen = r.seen, q.barred = r.barred, q.who = r.who, q.active = r.active, q.grant = g,
           q.value = IF r.op \in GovernedOps THEN <<>> ELSE r.value
    PROVE  Sound(q)
<1>1. /\ r.op \in Operations
      /\ \E in \in Inputs[r.op] : r.target = in[1] /\ (r.op \notin GovernedOps => r.value = in[2])
      /\ r.cred \in Credentials /\ credential[r.cred] # None /\ r.seen \in Nat /\ StaysBarred(r)
      /\ CallerSound(r)
  BY DEF Sound, Finished
<1>2. GrantClear(r, g)
  BY <1>1, ActiveClear
<1>3. StaysBarred(q)
  BY <1>1 DEF StaysBarred
<1>4. CallerSound(q)
  BY <1>1 DEF CallerSound, PrincipalClear
<1>5. ScopeSound(q)
  BY <1>2 DEF ScopeSound, GrantClear, ResourceClear
<1>6. HandlerSound(q)
  <2>1. r.op \in {"skills.resolve", "mcp.discovery"} => q.value = <<>>
    BY DEF GovernedOps, MCPRoutes, ResolutionRoutes
  <2>2. <<>> \in Seq(Grants \cup {None}) /\ \A i \in 1..Len(<<>>) : FALSE
    OBVIOUS
  <2>3. r.op = "mcp.discovery" => ToolsClear(q)
    BY <2>1, <2>2 DEF ToolsClear
  <2> QED  BY <2>1, <2>3 DEF HandlerSound, HeldPcs
<1>7. \E in \in Inputs[q.op] : q.target = in[1] /\ (q.op \notin GovernedOps => q.value = in[2])
  BY <1>1
<1> QED  BY <1>1, <1>3, <1>4, <1>5, <1>6, <1>7 DEF Sound

\* An administrative operation is authorized on an active grant of its area.
LEMMA AuthorizeStores ==
    ASSUME StoreSafe, NEW c \in Clients, Authorize(c), Unserved
    PROVE  StoreSafe' /\ GrantsStand
<1> DEFINE r == req[c]
           allowing == CASE r.op \in UsageRoutes -> authorize_usage(r)
                         [] r.op \in AuditRoutes -> _authorized(r)
                         [] OTHER -> _authorize(r)
<1>1. /\ StoreTypes /\ StoreLinks /\ RequestTypes /\ Sound(r) /\ IsRequest(r)
      /\ r.pc = "authenticated" /\ r.pc \notin Finished /\ ~At(c, "mcp.invoke", "handshake")
      /\ r.op \notin GovernedOps
  BY DEF StoreSafe, RequestTypes, Authorize, Finished, At
<1>2. CASE Answer(c, IF r.op = "credentials.list" THEN 404 ELSE 403)
  <2> PICK status \in Nat : status = IF r.op = "credentials.list" THEN 404 ELSE 403
    OBVIOUS
  <2>1. Answer(c, status)
    BY <1>2
  <2> QED  BY <1>1, <2>1, AnswerStores
<1>3. CASE /\ \E g \in allowing :
                 req' = [req EXCEPT ![c].pc = "authorized", ![c].grant = g]
           /\ UNCHANGED <<identity, resource, idem, audit, sent, effects>>
  <2>1. PICK g \in allowing : req' = [req EXCEPT ![c].pc = "authorized", ![c].grant = g]
    BY <1>3
  <2> PICK o : o = CONTROL_SCOPES(r.op)[2]
    OBVIOUS
  <2>2. /\ r.active /\ g \in Grants /\ grant[g] # None /\ grant[g].status = "active"
        /\ Evidenced(r.op) => resource[o] # None /\ resource[o].status = "active"
    BY <2>1 DEF authorize_usage, _authorized, _authorize, evaluate, find_active, Evidenced
  <2>3. r.op \in Operations /\ StaysBarred(r)
    BY <1>1 DEF Sound, Finished
  <2>4. Evidenced(r.op) => ResourceClear(r, CONTROL_SCOPES(r.op)[2])
    BY <1>1, <2>2, <2>3, NoRoute, ActiveClear
  <2> PICK q : q = [r EXCEPT !.pc = "authorized", !.grant = g]
    OBVIOUS
  <2>5. req' = [req EXCEPT ![c] = q]
    BY <1>1, <2>1 DEF RequestTypes
  <2>6. /\ IsRequest(q) /\ q.n = r.n /\ q.op = r.op /\ q.target = r.target /\ q.value = r.value
        /\ q.cred = r.cred /\ q.seen = r.seen /\ q.barred = r.barred /\ q.pc = "authorized"
        /\ q.who = r.who /\ q.active = r.active /\ q.grant = g
    BY <1>1 DEF IsRequest, RequestFields
  <2>7. Sound(q)
    BY <1>1, <2>2, <2>4, <2>6, AllowedSound, ZenonT(60)
  <2>8. UNCHANGED <<principal, credential, grant, resource, publication, owner, effects,
                    sent, served, client, handshakes>>
    BY <1>3 DEF Unserved, mcpvars, identity
  <2>9. SessionLocked'
    BY <1>1, <2>5, <2>6, <2>8, SessionStays
  <2> QED  BY <1>1, <2>5, <2>6, <2>7, <2>8, <2>9, GoesStores
<1> QED  BY <1>2, <1>3 DEF Authorize

\* A malformed body is refused.
LEMMA RefuseMalformedStores ==
    ASSUME StoreSafe, NEW c \in Clients, RefuseMalformed(c), Unserved
    PROVE  StoreSafe' /\ GrantsStand
<1> PICK status \in Nat : status = 422
  OBVIOUS
<1>1. req[c].pc \notin Finished /\ ~At(c, "mcp.invoke", "handshake") /\ Answer(c, status)
  BY DEF RefuseMalformed, Finished, At
<1> QED  BY <1>1, AnswerStores

\* An administrative request is finished with its event.
LEMMA FinishStores ==
    ASSUME StoreSafe, NEW c \in Clients, Finish(c), Unserved
    PROVE  StoreSafe' /\ GrantsStand
<1>1. /\ req[c].pc \notin Finished /\ ~At(c, "mcp.invoke", "handshake")
      /\ UNCHANGED <<principal, credential, grant, resource, publication, owner, effects, sent>>
      /\ client' = client /\ handshakes' = handshakes
      /\ \A s \in served' : ShownSound(s)
  BY DEF Finish, Unserved, mcpvars, Finished, At, StoreSafe
<1> PICK fail \in Nat : fail = 503
  OBVIOUS
<1> PICK status : status = req[c].status
  OBVIOUS
<1> PICK replayed : replayed = req[c].replayed
  OBVIOUS
<1>2. status \in Nat /\ replayed \in BOOLEAN
  BY DEF StoreSafe, RequestTypes, IsRequest
<1>3. CASE req' = Answered(c, status, replayed)
  BY <1>1, <1>2, <1>3, EndStores
<1>4. CASE req' = Answered(c, fail, FALSE)
  BY <1>1, <1>4, EndStores
<1> QED  BY <1>3, <1>4 DEF Finish

-----------------------------------------------------------------------------
(* The whole store: identities *)

\* What a request that its handler acts on carries.
LEMMA BodyStores ==
    ASSUME StoreSafe, NEW c \in Clients, req[c].pc \in Allowed, req[c].op \in Stored
    PROVE  LET r == req[c] IN
           /\ r.op = "principals.status.replace" =>
                 r.target \in Principals /\ r.value \in {"active", "inactive"}
           /\ r.op = "credentials.revoke" => r.target \in Credentials
           /\ r.op \in {"grants.create", "grants.revoke"} => r.target \in Grants
           /\ r.op = "grants.create" =>
                 r.value \in [principal : Principals, action : STRING, resource : Resources]
           /\ r.op = "aliases.create" =>
                 /\ r.target \in Resources /\ TypeOf[r.target] = "llm_model"
                 /\ r.value \in Assignments
           /\ r.op = "aliases.assignment.replace" => r.target \in Resources /\ r.value \in Models
           /\ r.op \in {"aliases.status.replace", "skills.status.replace"} =>
                 r.target \in Resources /\ r.value \in {"active", "inactive"}
           /\ r.op = "catalog.create" =>
                 /\ r.target \in Resources /\ r.target \notin McpIds
                 /\ r.value \in [type : ResourceTypes, owner : Principals, status : ResourceStatuses,
                                 content : Manifests \cup Documents, hidden : BOOLEAN]
                 /\ r.value.type = TypeOf[r.target] /\ TypeOf[r.target] # "llm_model"
           /\ r.op \in Publishing =>
                 /\ r.target \in Resources
                 /\ TypeOf[r.target] = IF r.op = "bok.publish" THEN "bok_collection" ELSE "skill"
                 /\ r.value \in [owner : Principals, content : Manifests]
           /\ r.op = "consumption_limits.replace" =>
                 r.target = "workspace" /\ r.value \in Documents
<1> DEFINE r == req[c]
<1>1. /\ r.op \in Operations
      /\ \E in \in Inputs[r.op] : r.target = in[1] /\ r.value = in[2]
  BY StoredFacts DEF StoreSafe, Sound, Allowed, Finished
<1>2. PICK in \in Inputs[r.op] : r.target = in[1] /\ r.value = in[2]
  BY <1>1
<1>3. /\ r.op = "principals.status.replace" =>
            r.target \in Principals /\ r.value \in {"active", "inactive"}
      /\ r.op = "credentials.revoke" => r.target \in Credentials
      /\ r.op \in {"grants.create", "grants.revoke"} => r.target \in Grants
      /\ r.op = "grants.create" =>
            r.value \in [principal : Principals, action : STRING, resource : Resources]
  BY <1>1, <1>2, InputsAssumption
<1>4. /\ r.op = "aliases.create" =>
            /\ r.target \in Resources /\ TypeOf[r.target] = "llm_model"
            /\ r.value \in Assignments
      /\ r.op = "aliases.assignment.replace" => r.target \in Resources /\ r.value \in Models
      /\ r.op \in {"aliases.status.replace", "skills.status.replace"} =>
            r.target \in Resources /\ r.value \in {"active", "inactive"}
  BY <1>1, <1>2, CatalogInputs
<1>5. r.op = "catalog.create" =>
         /\ r.target \in Resources
         /\ r.value \in [type : ResourceTypes, owner : Principals, status : ResourceStatuses,
                         content : Manifests \cup Documents, hidden : BOOLEAN]
         /\ r.value.type = TypeOf[r.target] /\ TypeOf[r.target] # "llm_model"
  BY <1>1, <1>2, CatalogInputs
<1>6. r.op = "catalog.create" => r.target \notin McpIds
  BY <1>1, <1>2, SurfaceAssumption DEF McpIds
<1>7. r.op \in Publishing =>
         /\ r.target \in Resources
         /\ TypeOf[r.target] = IF r.op = "bok.publish" THEN "bok_collection" ELSE "skill"
         /\ r.value \in [owner : Principals, content : Manifests]
  BY <1>1, <1>2, CatalogInputs DEF Publishing
<1>8. r.op = "consumption_limits.replace" => r.target = "workspace" /\ r.value \in Documents
  BY <1>1, <1>2, CatalogInputs
<1> QED  BY <1>3, <1>4, <1>5, <1>6, <1>7, <1>8

\* The checks that precede the insert of a grant.
LEMMA CheckGrantStores ==
    ASSUME StoreSafe, NEW c \in Clients, CheckGrant(c), Unserved
    PROVE  StoreSafe' /\ GrantsStand
<1> DEFINE r == req[c]
<1>1. /\ r.pc \notin Finished /\ r.pc \in Allowed /\ r.op = "grants.create"
      /\ r.op \notin GovernedOps /\ ~At(c, "mcp.invoke", "handshake")
      /\ RequestTypes /\ Sound(r) /\ IsRequest(r)
  BY DEF CheckGrant, Finished, Allowed, At, GovernedOps, MCPRoutes, ResolutionRoutes,
         RetrievalRoutes, StoreSafe, RequestTypes
<1>2. CASE Replay(c, 201)
  <2> PICK status \in Nat : status = 201
    OBVIOUS
  <2> QED  BY <1>1, <1>2, ReplayStores
<1>3. ASSUME NEW status \in {404, 409, 422}, Answer(c, status)
      PROVE  StoreSafe' /\ GrantsStand
  <2>1. status \in Nat
    OBVIOUS
  <2> QED  BY <1>1, <1>3, <2>1, AnswerStores
<1>4. CASE /\ req' = [req EXCEPT ![c].pc = "checked"]
           /\ UNCHANGED <<identity, resource, idem, audit, sent, effects>>
  <2> PICK q : q = [r EXCEPT !.pc = "checked"]
    OBVIOUS
  <2>1. req' = [req EXCEPT ![c] = q]
    BY <1>4 DEF RequestTypes
  <2>2. /\ IsRequest(q) /\ q.n = r.n /\ q.op = r.op /\ q.target = r.target
        /\ q.value = r.value /\ q.cred = r.cred /\ q.barred = r.barred /\ q.pc = "checked"
        /\ q.seen = r.seen /\ q.who = r.who /\ q.active = r.active /\ q.grant = r.grant
    BY <1>1 DEF IsRequest, RequestFields
  <2>3. Sound(q)
    BY <1>1, <2>2, CommittedSound
  <2>4. UNCHANGED <<principal, credential, grant, resource, publication, owner, effects,
                    sent, served, client, handshakes>>
    BY <1>4 DEF Unserved, mcpvars, identity
  <2>5. SessionLocked'
    BY <1>1, <2>1, <2>2, <2>4, SessionStays
  <2> QED  BY <1>1, <2>1, <2>2, <2>3, <2>4, <2>5, GoesStores
<1> QED  BY <1>2, <1>3, <1>4 DEF CheckGrant

\* Only grants change, and none comes back.
LEMMA GrantsOnly ==
    ASSUME StoreTypes, StoreLinks,
           UNCHANGED <<principal, credential, resource, publication, owner>>,
           grant' \in [Grants -> GrantRow \cup {None}],
           \A g \in Grants : grant[g] # None =>
              /\ grant'[g] # None
              /\ grant[g].status = "revoked" => grant'[g].status = "revoked"
    PROVE  StoreTypes' /\ StoreLinks' /\ StoreGrows
<1>1. StoreTypes'
  BY DEF StoreTypes
<1>2. StoreLinks'
  BY DEF StoreLinks
<1>3. StoreGrows
  BY StampFacts DEF StoreGrows
<1> QED  BY <1>1, <1>2, <1>3

\* A mutation of identities that publishes nothing and carries no token.
LEMMA NoTokenFacts ==
    ASSUME NEW c \in Clients, NEW e, e = Effect(c),
           req[c].op \in {"grants.create", "grants.revoke", "credentials.revoke"}
    PROVE  e.op \notin Tokened /\ PublicationStands(e)'
<1>1. e.op = req[c].op
  BY EffectFacts
<1> QED  BY <1>1, StoredFacts DEF PublicationStands

\* A grant is created where no row has its id and no active one its authority.
LEMMA CreateGrantStores ==
    ASSUME StoreSafe, NEW c \in Clients, create_grant(c), Unserved
    PROVE  StoreSafe' /\ GrantsStand
<1> DEFINE r == req[c]
<1>1. /\ r.pc \notin Finished /\ r.pc \in Allowed /\ r.op = "grants.create" /\ r.op \in Stored
      /\ ~At(c, "mcp.invoke", "handshake") /\ StoreTypes /\ StoreLinks
  BY DEF create_grant, Finished, Allowed, At, Stored, StoreSafe
<1>2. CASE Replay(c, 201)
  <2> PICK status \in Nat : status = 201
    OBVIOUS
  <2> QED  BY <1>1, <1>2, ReplayStores
<1>3. CASE Answer(c, 409)
  <2> PICK status \in Nat : status = 409
    OBVIOUS
  <2> QED  BY <1>1, <1>3, AnswerStores
<1>4. CASE AuditRefused(c)
  BY <1>1, <1>4, RefusedStores
<1>5. CASE /\ ~Duplicated(r.target, r.value)
           /\ grant' = [grant EXCEPT ![r.target] = NewGrant(r.value)]
           /\ CommitsAudited(c, 201)
           /\ UNCHANGED <<principal, credential, revealed, resource>>
  <2> PICK v : v = r.value
    OBVIOUS
  <2> PICK row : row = NewGrant(v)
    OBVIOUS
  <2>1. /\ r.target \in Grants
        /\ v \in [principal : Principals, action : STRING, resource : Resources]
    BY <1>1, BodyStores
  <2>2. row \in GrantRow /\ row # None
    BY <2>1, SeedsAssumption DEF NewGrant, GrantRow
  <2>3. /\ row.principal = v.principal /\ row.action = v.action /\ row.resource = v.resource
        /\ row.status = "active"
    BY DEF NewGrant
  <2>4. /\ grant[r.target] = None
        /\ \A g \in Grants : /\ grant[g] # None /\ grant[g].principal = v.principal
                             /\ grant[g].action = v.action /\ grant[g].resource = v.resource
                             => grant[g].status # "active"
    BY <1>5 DEF Duplicated, find_active
  <2>5. /\ grant' \in [Grants -> GrantRow \cup {None}] /\ grant'[r.target] = row
        /\ \A g \in Grants : g # r.target => grant'[g] = grant[g]
    BY <1>1, <1>5, <2>1, <2>2 DEF StoreTypes
  <2>6. UNCHANGED <<publication, owner, client, handshakes, served>>
    BY DEF Unserved, mcpvars
  <2>7. StoreTypes' /\ StoreLinks' /\ StoreGrows
    BY <1>1, <1>5, <2>4, <2>5, <2>6, GrantsOnly
  <2>8. \A h \in Grants \ {r.target} :
           grant'[h] # None /\ grant'[h].status = "active" => grant'[h] # row
    BY <2>3, <2>4, <2>5
  <2>9. GrantsStand
    BY <2>2, <2>4, <2>5, <2>8 DEF GrantsStand
  <2> PICK e : e = Effect(c)
    OBVIOUS
  <2>10. e.op \notin Tokened /\ PublicationStands(e)'
    BY <1>1, NoTokenFacts
  <2> PICK status \in Nat : status = 201
    OBVIOUS
  <2>11. CommitsAudited(c, status)
    BY <1>5
  <2> QED  BY <1>1, <2>6, <2>7, <2>9, <2>10, <2>11, AuditedStores
<1> QED  BY <1>2, <1>3, <1>4, <1>5 DEF create_grant

\* A grant is revoked, whether or not it was.
LEMMA RevokeGrantStores ==
    ASSUME StoreSafe, NEW c \in Clients, revoke_grant(c), Unserved
    PROVE  StoreSafe' /\ GrantsStand
<1> DEFINE r == req[c]
<1>1. /\ r.pc \notin Finished /\ r.pc \in Allowed /\ r.op = "grants.revoke" /\ r.op \in Stored
      /\ ~At(c, "mcp.invoke", "handshake") /\ StoreTypes /\ StoreLinks
  BY DEF revoke_grant, Finished, Allowed, At, Stored, StoreSafe
<1>2. CASE Answer(c, 404)
  <2> PICK status \in Nat : status = 404
    OBVIOUS
  <2> QED  BY <1>1, <1>2, AnswerStores
<1>3. CASE AuditRefused(c)
  BY <1>1, <1>3, RefusedStores
<1>4. CASE /\ grant[r.target] # None
           /\ grant' = [grant EXCEPT ![r.target].status = "revoked"]
           /\ CommitsAudited(c, 204)
           /\ UNCHANGED <<principal, credential, revealed, resource>>
  <2> PICK old : old = grant[r.target]
    OBVIOUS
  <2> PICK row : row = [old EXCEPT !.status = "revoked"]
    OBVIOUS
  <2>1. r.target \in Grants /\ old \in GrantRow
    BY <1>1, <1>4, BodyStores DEF StoreTypes
  <2>2. row \in GrantRow /\ row.status = "revoked" /\ row # None
    BY <2>1, SeedsAssumption DEF GrantRow
  <2>3. old.status # "active" => row = old
    BY <2>1 DEF GrantRow
  <2>4. /\ grant' \in [Grants -> GrantRow \cup {None}] /\ grant'[r.target] = row
        /\ \A g \in Grants : g # r.target => grant'[g] = grant[g]
    BY <1>1, <1>4, <2>1, <2>2 DEF StoreTypes
  <2>5. UNCHANGED <<publication, owner, client, handshakes, served>>
    BY DEF Unserved, mcpvars
  <2>6. StoreTypes' /\ StoreLinks' /\ StoreGrows
    BY <1>1, <1>4, <2>2, <2>4, <2>5, GrantsOnly
  <2>7. GrantsStand
    BY <2>2, <2>3, <2>4 DEF GrantsStand
  <2> PICK e : e = Effect(c)
    OBVIOUS
  <2>8. e.op \notin Tokened /\ PublicationStands(e)'
    BY <1>1, NoTokenFacts
  <2> PICK status \in Nat : status = 204
    OBVIOUS
  <2>9. CommitsAudited(c, status)
    BY <1>4
  <2> QED  BY <1>1, <2>5, <2>6, <2>7, <2>8, <2>9, AuditedStores
<1> QED  BY <1>2, <1>3, <1>4 DEF revoke_grant

\* A key is revoked.
LEMMA RevokeKeyStores ==
    ASSUME StoreSafe, NEW c \in Clients, revoke_credential(c), Unserved
    PROVE  StoreSafe' /\ GrantsStand
<1> DEFINE r == req[c]
<1>1. /\ r.pc \notin Finished /\ r.pc \in Allowed /\ r.op = "credentials.revoke" /\ r.op \in Stored
      /\ ~At(c, "mcp.invoke", "handshake") /\ StoreTypes /\ StoreLinks
  BY DEF revoke_credential, Finished, Allowed, At, Stored, StoreSafe
<1>2. CASE Answer(c, 404)
  <2> PICK status \in Nat : status = 404
    OBVIOUS
  <2> QED  BY <1>1, <1>2, AnswerStores
<1>3. CASE /\ credential[r.target] # None
           /\ credential' = KeyRevoked(r.target)
           /\ CommitsFirst(c, 204)
           /\ UNCHANGED <<principal, grant, revealed, resource>>
  <2> PICK old : old = credential[r.target]
    OBVIOUS
  <2> PICK row : row = [old EXCEPT !.status = "revoked"]
    OBVIOUS
  <2>1. r.target \in Credentials /\ old \in CredentialRow
    BY <1>1, <1>3, BodyStores DEF StoreTypes
  <2>2. row \in CredentialRow /\ row.status = "revoked" /\ row.owner = old.owner /\ row # None
    BY <2>1, SeedsAssumption DEF CredentialRow
  <2>3. /\ credential' \in [Credentials -> CredentialRow \cup {None}]
        /\ credential'[r.target] = row
        /\ \A k \in Credentials : k # r.target => credential'[k] = credential[k]
    BY <1>1, <1>3, <2>1, <2>2 DEF StoreTypes, KeyRevoked
  <2>4. UNCHANGED <<publication, owner, client, handshakes, served>>
    BY DEF Unserved, mcpvars
  <2>5. StoreTypes'
    BY <1>1, <1>3, <2>3, <2>4 DEF StoreTypes
  <2>6. UNCHANGED <<principal, grant, resource>> /\ old # None
    BY <1>3
  <2>7. ASSUME NEW k \in Credentials
        PROVE  /\ credential'[k] # None <=> credential[k] # None
               /\ credential'[k].owner = credential[k].owner
               /\ credential[k].status = "revoked" => credential'[k].status = "revoked"
    <3>1. CASE k = r.target
      BY <2>2, <2>3, <2>6, <3>1
    <3>2. CASE k # r.target
      BY <2>3, <3>2
    <3> QED  BY <3>1, <3>2
  <2>8. StoreLinks'
    BY <1>1, <2>4, <2>6, <2>7 DEF StoreLinks
  <2>9. StoreGrows
    BY <1>1, <2>4, <2>6, <2>7, StampFacts DEF StoreGrows
  <2>10. GrantsStand
    BY <1>3 DEF GrantsStand
  <2> PICK e : e = Effect(c)
    OBVIOUS
  <2>11. e.op \notin Tokened /\ PublicationStands(e)'
    BY <1>1, NoTokenFacts
  <2> PICK status \in Nat : status = 204
    OBVIOUS
  <2>12. CommitsFirst(c, status)
    BY <1>3
  <2> QED  BY <1>1, <2>4, <2>5, <2>8, <2>9, <2>10, <2>11, <2>12, FirstStores
<1> QED  BY <1>2, <1>3 DEF revoke_credential

\* A new status is a new stamp.
LEMMA ReplaceStatusStores ==
    ASSUME StoreSafe, NEW c \in Clients, replace_principal_status(c), Unserved
    PROVE  StoreSafe' /\ GrantsStand
<1> DEFINE r == req[c]
<1>1. /\ r.pc \notin Finished /\ r.pc \in Allowed /\ r.op = "principals.status.replace"
      /\ r.op \in Stored /\ ~At(c, "mcp.invoke", "handshake") /\ StoreTypes /\ StoreLinks
  BY DEF replace_principal_status, Finished, Allowed, At, Stored, StoreSafe
<1>2. ASSUME NEW status \in {404, 409}, Answer(c, status)
      PROVE  StoreSafe' /\ GrantsStand
  <2>1. status \in Nat
    OBVIOUS
  <2> QED  BY <1>1, <1>2, <2>1, AnswerStores
<1>3. CASE /\ principal[r.target] # None
           /\ principal[r.target].stamp = r.seen
           /\ principal' = [principal EXCEPT ![r.target] =
                               StatusReplaced(principal[r.target], r.value)]
           /\ CommitsFirst(c, 200)
           /\ UNCHANGED <<credential, grant, revealed, resource>>
  <2> PICK row : row = principal[r.target]
    OBVIOUS
  <2> DEFINE set == [row EXCEPT !.status = r.value]
             new == [set EXCEPT !.stamp = row.stamp + 1]
  <2>1. r.target \in Principals /\ r.value \in {"active", "inactive"}
    BY <1>1, BodyStores
  <2>2. row \in PrincipalRow
    BY <1>1, <1>3, <2>1 DEF StoreTypes
  <2>3. StatusReplaced(row, r.value) = new
    BY <2>2 DEF StatusReplaced, PrincipalRow
  <2>4. set \in PrincipalRow /\ row.stamp \in Nat
    BY <2>1, <2>2 DEF PrincipalRow
  <2> HIDE DEF set
  <2>5. new \in PrincipalRow /\ new.stamp = row.stamp + 1
    BY <2>4 DEF PrincipalRow
  <2> HIDE DEF new
  <2>6. /\ principal' \in [Principals -> PrincipalRow \cup {None}]
        /\ principal'[r.target] = new /\ new # None
        /\ \A p \in Principals : p # r.target => principal'[p] = principal[p]
    BY <1>1, <1>3, <2>1, <2>3, <2>5, SeedsAssumption DEF StoreTypes
  <2>7. UNCHANGED <<publication, owner, client, handshakes, served>>
    BY DEF Unserved, mcpvars
  <2>8. StoreTypes'
    BY <1>1, <1>3, <2>6, <2>7 DEF StoreTypes
  <2>9. StoreLinks'
    <3>1. \A k \in Credentials : credential[k] # None => credential[k].owner \in Principals
      BY <1>1 DEF StoreTypes, CredentialRow
    <3> QED  BY <1>1, <1>3, <2>6, <2>7, <3>1 DEF StoreLinks
  <2>10. StoreGrows
    <3>1. ASSUME NEW p \in Principals, principal[p] # None
          PROVE  /\ principal'[p] # None /\ principal[p].stamp <= principal'[p].stamp
                 /\ principal'[p].stamp = principal[p].stamp =>
                       principal'[p].status = principal[p].status
      <4>1. CASE p = r.target
        BY <2>4, <2>5, <2>6, <4>1
      <4>2. CASE p # r.target
        BY <1>1, <2>6, <3>1, <4>2, StampFacts
      <4> QED  BY <4>1, <4>2
    <3> QED  BY <1>1, <1>3, <2>7, <3>1, StampFacts DEF StoreGrows
  <2>11. GrantsStand
    BY <1>3 DEF GrantsStand
  <2> PICK e : e = Effect(c)
    OBVIOUS
  <2>12. e.op = r.op /\ e.target = r.target /\ e.seen = r.seen
    BY EffectFacts
  <2>13. TokenCurrent(e) /\ TokenSpent(e)'
    BY <1>3, <2>1, <2>4, <2>5, <2>6, <2>12 DEF TokenCurrent, TokenSpent
  <2>14. PublicationStands(e)'
    BY <1>1, <2>12 DEF PublicationStands
  <2> PICK status \in Nat : status = 200
    OBVIOUS
  <2>15. CommitsFirst(c, status)
    BY <1>3
  <2> QED  BY <1>1, <2>7, <2>8, <2>9, <2>10, <2>11, <2>13, <2>14, <2>15, FirstStores
<1> QED  BY <1>2, <1>3 DEF replace_principal_status

-----------------------------------------------------------------------------
(* The whole store: the catalog *)

Contents == Assignments \cup Manifests \cup Documents

\* A row as it is inserted.
LEMMA RowFacts ==
    ASSUME NEW type \in ResourceTypes, NEW holder \in Principals \cup Resources \cup {None},
           NEW status \in ResourceStatuses, NEW content \in Contents, NEW hidden \in BOOLEAN,
           NEW row, row = Row(type, holder, status, content, hidden)
    PROVE  /\ row \in ResourceRow /\ row # None /\ row.type = type /\ row.owner = holder
           /\ row.status = status /\ row.content = content /\ row.stamp = 1
<1>1. row \in ResourceRow
  BY DEF Row, ResourceRow, Contents
<1> QED  BY <1>1, CatalogAssumption DEF Row

\* A row as an update leaves it.
LEMMA TouchedFacts ==
    ASSUME NEW row \in ResourceRow, NEW status \in ResourceStatuses, NEW content \in Contents,
           NEW new, new = Touched(row, status, content)
    PROVE  /\ new \in ResourceRow /\ new # None /\ new.type = row.type /\ new.owner = row.owner
           /\ new.status = status /\ new.content = content /\ new.stamp = row.stamp + 1
           /\ row.stamp \in Nat
<1> DEFINE a == [row EXCEPT !.status = status]
           b == [a EXCEPT !.content = content]
           d == [b EXCEPT !.stamp = row.stamp + 1]
<1>1. /\ a \in ResourceRow /\ a.type = row.type /\ a.owner = row.owner /\ a.status = status
      /\ a.stamp = row.stamp /\ row.stamp \in Nat
  BY DEF ResourceRow
<1> HIDE DEF a
<1>2. /\ b \in ResourceRow /\ b.type = row.type /\ b.owner = row.owner /\ b.status = status
      /\ b.stamp = row.stamp /\ b.content = content
  BY <1>1 DEF ResourceRow, Contents
<1>3. new = [b EXCEPT !.stamp = b.stamp + 1]
  BY DEF Touched, a
<1> HIDE DEF b
<1>4. d \in ResourceRow /\ d.type = b.type /\ d.owner = b.owner /\ d.status = b.status
      /\ d.content = b.content /\ d.stamp = row.stamp + 1
  BY <1>1, <1>2 DEF ResourceRow
<1>5. new = d
  BY <1>2, <1>3
<1> HIDE DEF d
<1> QED  BY <1>1, <1>2, <1>4, <1>5, CatalogAssumption

\* The registry's rows are told from the rest by their type.
LEMMA NoMcp ==
    \A id : TypeOf[id] \in {"llm_model", "skill", "bok_collection", "policy"} => id \notin McpIds
BY SurfaceAssumption DEF McpIds

\* An administrative step that says what it found.
Aside == UNCHANGED <<mcpvars, served>>

\* A handler of the catalog answers.
LEMMA SaysStores ==
    ASSUME StoreSafe, NEW c \in Clients, req[c].pc \notin Finished,
           ~At(c, "mcp.invoke", "handshake"), NEW status \in Nat, Says(c, status), Aside
    PROVE  StoreSafe' /\ GrantsStand
<1>1. Answer(c, status) /\ Unserved
  BY DEF Says, Aside, Unserved, mcpvars
<1> QED  BY <1>1, AnswerStores

\* A row changes, or is new; versions stay as they were published.
LEMMA ResourceGrows ==
    ASSUME StoreTypes, StoreLinks, NEW id \in Resources, id \notin McpIds, NEW row \in ResourceRow,
           resource' = [resource EXCEPT ![id] = row],
           UNCHANGED <<principal, credential, grant, owner>>,
           publication' \in [Resources -> VersionRow \cup {None}],
           \A o \in Resources : publication[o] # None => publication'[o] = publication[o],
           \A o \in Resources : publication'[o] # None => TypeOf[o] \in Versioned,
           row.type = TypeOf[id], TypeOf[id] = "llm_model" => row.content \in Assignments,
           resource[id] # None =>
              /\ row.stamp = resource[id].stamp + 1
              /\ row.owner = resource[id].owner
              /\ publication[id] # None =>
                    /\ row.content = resource[id].content
                    /\ resource[id].status \in Shown => row.status \in Shown
    PROVE  StoreTypes' /\ StoreLinks' /\ StoreGrows
<1>1. /\ resource' \in [Resources -> ResourceRow \cup {None}] /\ resource'[id] = row
      /\ row # None /\ \A o \in Resources : o # id => resource'[o] = resource[o]
  BY CatalogAssumption DEF StoreTypes
<1>2. StoreTypes'
  BY <1>1 DEF StoreTypes
<1>3. StoreLinks'
  <2>1. \A o \in McpIds : o \in Resources
    BY SurfaceAssumption DEF McpIds, Tools
  <2>2. \A o \in McpIds : resource'[o] = resource[o]
    BY <1>1, <2>1
  <2>3. \A o \in Resources : resource'[o] # None =>
           /\ resource'[o].type = TypeOf[o]
           /\ TypeOf[o] = "llm_model" => resource'[o].content \in Assignments
    BY <1>1 DEF StoreLinks
  <2> QED  BY <2>2, <2>3 DEF StoreLinks
<1>4. StoreGrows
  <2>1. ASSUME NEW o \in Resources, resource[o] # None
        PROVE  /\ resource'[o] # None /\ resource[o].stamp <= resource'[o].stamp
               /\ o \notin DOMAIN SeedRoute /\ resource'[o].stamp = resource[o].stamp =>
                     resource'[o].status = resource[o].status
               /\ resource'[o].owner = resource[o].owner
               /\ publication[o] # None =>
                     /\ resource'[o].content = resource[o].content
                     /\ resource[o].status \in Shown => resource'[o].status \in Shown
    <3>1. resource[o].stamp \in Nat
      BY <2>1, StampFacts
    <3>2. CASE o = id
      BY <1>1, <2>1, <3>1, <3>2
    <3>3. CASE o # id
      BY <1>1, <2>1, <3>1, <3>3
    <3> QED  BY <3>2, <3>3
  <2> QED  BY <2>1, StampFacts DEF StoreGrows
<1> QED  BY <1>2, <1>3, <1>4

\* The row that a request stores, with its event.
LEMMA RowStores ==
    ASSUME StoreSafe, NEW c \in Clients, req[c].pc \in Allowed,
           req[c].op \in Stored, req[c].op \notin Publishing,
           NEW id, id = req[c].target, id \in Resources, id \notin McpIds, NEW row \in ResourceRow,
           NEW status \in Nat, Stores(c, id, row, status), Aside,
           row.type = TypeOf[id], TypeOf[id] = "llm_model" => row.content \in Assignments,
           resource[id] # None =>
              /\ row.stamp = resource[id].stamp + 1
              /\ row.owner = resource[id].owner
              /\ publication[id] # None =>
                    /\ row.content = resource[id].content
                    /\ resource[id].status \in Shown => row.status \in Shown,
           req[c].op \in Tokened => resource[id] # None /\ req[c].seen = resource[id].stamp
    PROVE  StoreSafe' /\ GrantsStand
<1>1. /\ StoreTypes /\ StoreLinks /\ req[c].pc \notin Finished
      /\ ~At(c, "mcp.invoke", "handshake")
  BY StoredFacts DEF StoreSafe, Allowed, Finished, At
<1>2. CASE AuditRefused(c) /\ UNCHANGED publication
  BY <1>1, <1>2, RefusedStores DEF Unserved, Aside
<1>3. CASE /\ resource' = [resource EXCEPT ![id] = row]
           /\ CommitsAudited(c, status)
           /\ UNCHANGED <<identity, publication>>
  <2>1. UNCHANGED <<principal, credential, grant, publication, owner, client, handshakes, served>>
    BY <1>3 DEF identity, Aside, mcpvars
  <2>2. StoreTypes' /\ StoreLinks' /\ StoreGrows
    <3>1. /\ publication' \in [Resources -> VersionRow \cup {None}]
          /\ \A o \in Resources : publication[o] # None => publication'[o] = publication[o]
          /\ \A o \in Resources : publication'[o] # None => TypeOf[o] \in Versioned
      BY <1>1, <2>1 DEF StoreTypes, StoreLinks
    <3> QED  BY <1>1, <1>3, <2>1, <3>1, ResourceGrows
  <2>3. GrantsStand
    BY <2>1 DEF GrantsStand
  <2> PICK e : e = Effect(c)
    OBVIOUS
  <2>4. e.op = req[c].op /\ e.target = id /\ e.seen = req[c].seen
    BY EffectFacts
  <2>5. PublicationStands(e)'
    BY <2>4 DEF PublicationStands, Publishing
  <2>6. resource'[id] = row /\ row # None
    BY <1>1, <1>3, CatalogAssumption DEF StoreTypes
  <2>7. ASSUME e.op \in Tokened PROVE TokenCurrent(e) /\ TokenSpent(e)'
    <3>1. resource[id] # None /\ e.seen = resource[id].stamp /\ row.stamp = resource[id].stamp + 1
      BY <2>4, <2>7
    <3>2. resource[id].stamp \in Nat
      BY <1>1, <3>1, StampFacts
    <3>3. e.seen \in Nat /\ e.seen < resource'[id].stamp
      BY <2>6, <3>1, <3>2
    <3> QED  BY <2>4, <2>6, <3>1, <3>3 DEF TokenCurrent, TokenSpent
  <2> QED  BY <1>3, <2>1, <2>2, <2>3, <2>5, <2>7, AuditedStores
<1> QED  BY <1>2, <1>3 DEF Stores

\* An alias is created where neither its id nor its name is taken.
LEMMA CreateAliasStores ==
    ASSUME StoreSafe, NEW c \in Clients, create_alias(c), Aside
    PROVE  StoreSafe' /\ GrantsStand
<1> DEFINE r == req[c]
<1>1. /\ r.pc \notin Finished /\ r.pc \in Allowed /\ r.op = "aliases.create" /\ r.op \in Stored
      /\ r.op \notin Publishing /\ ~At(c, "mcp.invoke", "handshake")
  BY DEF create_alias, Finished, Allowed, At, Stored, Publishing
<1>2. CASE Replay(c, 201) /\ UNCHANGED publication
  <2> PICK status \in Nat : status = 201
    OBVIOUS
  <2>1. Replay(c, status) /\ Unserved
    BY <1>2 DEF Aside, Unserved, mcpvars
  <2> QED  BY <1>1, <2>1, ReplayStores
<1>3. CASE Says(c, 409)
  <2> PICK status \in Nat : status = 409
    OBVIOUS
  <2> QED  BY <1>1, <1>3, SaysStores
<1>4. CASE /\ ~AliasTaken(r.target, r.value)
           /\ Stores(c, r.target, Row("llm_model", r.target, "active", r.value, FALSE), 201)
  <2> PICK row : row = Row("llm_model", r.target, "active", r.value, FALSE)
    OBVIOUS
  <2> PICK id : id = r.target
    OBVIOUS
  <2> PICK status \in Nat : status = 201
    OBVIOUS
  <2>1. id \in Resources /\ TypeOf[id] = "llm_model" /\ r.value \in Assignments
    BY <1>1, BodyStores
  <2>2. row \in ResourceRow /\ row.type = "llm_model" /\ row.content = r.value
    <3>1. row \in ResourceRow
      BY <2>1 DEF Row, ResourceRow, ResourceTypes, ResourceStatuses
    <3> QED  BY <3>1 DEF Row
  <2>3. resource[id] = None
    BY <1>4 DEF AliasTaken
  <2>4. id \notin McpIds
    BY <2>1, NoMcp
  <2>5. r.op \notin Tokened
    BY <1>1, StoredFacts
  <2>6. Stores(c, id, row, status)
    BY <1>4
  <2> QED  BY <1>1, <2>1, <2>2, <2>3, <2>4, <2>5, <2>6, RowStores
<1> QED  BY <1>2, <1>3, <1>4 DEF create_alias

\* A write of an alias that is still as it was read.
LEMMA AliasWriteStores ==
    ASSUME StoreSafe, NEW c \in Clients, Aside,
           req[c].op \in {"aliases.assignment.replace", "aliases.status.replace"},
           req[c].pc = "authorized",
           NEW status \in ResourceStatuses, NEW content, NEW id, id = req[c].target,
           IsAlias(id) => content \in Assignments,
           AliasWrite(c, Touched(resource[id], status, content))
    PROVE  StoreSafe' /\ GrantsStand
<1> DEFINE r == req[c]
<1>1. /\ r.pc \notin Finished /\ r.pc \in Allowed /\ r.op \in Stored
      /\ r.op \notin Publishing /\ ~At(c, "mcp.invoke", "handshake") /\ StoreTypes /\ StoreLinks
  BY DEF Finished, Allowed, At, Stored, Publishing, StoreSafe
<1>2. ASSUME NEW code \in {404, 409}, Says(c, code)
      PROVE  StoreSafe' /\ GrantsStand
  <2>1. code \in Nat
    OBVIOUS
  <2> QED  BY <1>1, <1>2, <2>1, SaysStores
<1>3. CASE /\ IsAlias(id) /\ resource[id].stamp = r.seen
           /\ Stores(c, id, Touched(resource[id], status, content), 200)
  <2> PICK row : row = Touched(resource[id], status, content)
    OBVIOUS
  <2> PICK code \in Nat : code = 200
    OBVIOUS
  <2>1. id \in Resources
    BY <1>1, BodyStores
  <2>2. resource[id] # None /\ resource[id] \in ResourceRow /\ TypeOf[id] = "llm_model"
    BY <1>1, <1>3, <2>1 DEF IsAlias, StoreTypes, StoreLinks
  <2>3. publication[id] = None
    BY <1>1, <2>1, <2>2 DEF StoreLinks, Versioned
  <2>4. content \in Assignments /\ content \in Contents
    BY <1>3 DEF Contents
  <2>5. /\ row \in ResourceRow /\ row.type = resource[id].type /\ row.owner = resource[id].owner
        /\ row.content = content /\ row.stamp = resource[id].stamp + 1
    BY <2>2, <2>4, TouchedFacts
  <2>6. row.type = TypeOf[id]
    BY <1>1, <2>1, <2>2, <2>5 DEF StoreLinks
  <2>7. id \notin McpIds
    BY <2>2, NoMcp
  <2>8. Stores(c, id, row, code)
    BY <1>3
  <2> QED  BY <1>1, <1>3, <2>1, <2>2, <2>3, <2>4, <2>5, <2>6, <2>7, <2>8, RowStores
<1> QED  BY <1>2, <1>3 DEF AliasWrite

\* The assignment and the status of an alias are replaced.
LEMMA ReplaceAliasStores ==
    ASSUME StoreSafe, NEW c \in Clients, Aside,
           replace_alias_assignment(c) \/ replace_alias_status(c)
    PROVE  StoreSafe' /\ GrantsStand
<1> DEFINE r == req[c]
<1> PICK id : id = r.target
  OBVIOUS
<1>1. ASSUME IsAlias(id), id \in Resources
      PROVE  resource[id].content \in Assignments
  BY <1>1 DEF IsAlias, StoreSafe, StoreLinks
<1>2. CASE replace_alias_assignment(c)
  <2> PICK content : content = [resource[id].content EXCEPT !.model = r.value]
    OBVIOUS
  <2>1. r.op = "aliases.assignment.replace" /\ r.pc = "authorized"
    BY <1>2 DEF replace_alias_assignment, At
  <2>2. id \in Resources /\ r.value \in Models
    BY <2>1, BodyStores DEF Allowed, Stored
  <2>3. IsAlias(id) => content \in Assignments
    BY <1>1, <2>2 DEF Assignments
  <2> PICK status \in ResourceStatuses : status = "active"
    BY DEF ResourceStatuses
  <2>4. AliasWrite(c, Touched(resource[id], status, content))
    BY <1>2 DEF replace_alias_assignment
  <2> QED  BY <2>1, <2>3, <2>4, AliasWriteStores
<1>3. CASE replace_alias_status(c)
  <2> PICK content : content = resource[id].content
    OBVIOUS
  <2> PICK status : status = r.value
    OBVIOUS
  <2>1. r.op = "aliases.status.replace" /\ r.pc = "authorized"
    BY <1>3 DEF replace_alias_status, At
  <2>2. id \in Resources /\ status \in {"active", "inactive"}
    BY <2>1, BodyStores DEF Allowed, Stored
  <2>3. status \in ResourceStatuses
    BY <2>2 DEF ResourceStatuses
  <2>4. IsAlias(id) => content \in Assignments
    BY <1>1, <2>2
  <2>5. AliasWrite(c, Touched(resource[id], status, content))
    BY <1>3 DEF replace_alias_status
  <2> QED  BY <2>1, <2>3, <2>4, <2>5, AliasWriteStores
<1> QED  BY <1>2, <1>3

\* A catalog entry is created where there was none.
LEMMA CreateCatalogStores ==
    ASSUME StoreSafe, NEW c \in Clients, create_catalog_resource(c), Aside
    PROVE  StoreSafe' /\ GrantsStand
<1> DEFINE r == req[c]
<1> PICK v : v = r.value
  OBVIOUS
<1>1. /\ r.pc \notin Finished /\ r.pc \in Allowed /\ r.op = "catalog.create" /\ r.op \in Stored
      /\ r.op \notin Publishing /\ ~At(c, "mcp.invoke", "handshake")
  BY DEF create_catalog_resource, Finished, Allowed, At, Stored, Publishing
<1>2. CASE Replay(c, 201) /\ UNCHANGED publication
  <2> PICK status \in Nat : status = 201
    OBVIOUS
  <2>1. Replay(c, status) /\ Unserved
    BY <1>2 DEF Aside, Unserved, mcpvars
  <2> QED  BY <1>1, <2>1, ReplayStores
<1>3. CASE Says(c, 409)
  <2> PICK status \in Nat : status = 409
    OBVIOUS
  <2> QED  BY <1>1, <1>3, SaysStores
<1>4. CASE /\ resource[r.target] = None
           /\ Stores(c, r.target, Row(v.type, v.owner, v.status, v.content, v.hidden), 201)
  <2> PICK row : row = Row(v.type, v.owner, v.status, v.content, v.hidden)
    OBVIOUS
  <2> PICK id : id = r.target
    OBVIOUS
  <2> PICK status \in Nat : status = 201
    OBVIOUS
  <2>1. /\ id \in Resources /\ id \notin McpIds
        /\ v \in [type : ResourceTypes, owner : Principals, status : ResourceStatuses,
                  content : Manifests \cup Documents, hidden : BOOLEAN]
        /\ v.type = TypeOf[id] /\ TypeOf[id] # "llm_model"
    BY <1>1, BodyStores
  <2>2. row \in ResourceRow /\ row.type = v.type
    <3>1. /\ v.type \in ResourceTypes /\ v.status \in ResourceStatuses /\ v.hidden \in BOOLEAN
          /\ v.owner \in Principals \cup Resources \cup {None} /\ v.content \in Contents
      BY <2>1 DEF Contents
    <3> QED  BY <3>1, RowFacts
  <2>3. r.op \notin Tokened
    BY <1>1, StoredFacts
  <2>4. Stores(c, id, row, status) /\ resource[id] = None
    BY <1>4
  <2> QED  BY <1>1, <2>1, <2>2, <2>3, <2>4, RowStores
<1> QED  BY <1>2, <1>3, <1>4 DEF create_catalog_resource

\* A version is put in service or taken out of it; a version that is published keeps its
\* content.
LEMMA SkillStatusStores ==
    ASSUME StoreSafe, NEW c \in Clients, replace_skill_status(c), Aside
    PROVE  StoreSafe' /\ GrantsStand
<1> DEFINE r == req[c]
<1> PICK id : id = r.target
  OBVIOUS
<1>1. /\ r.pc \notin Finished /\ r.pc \in Allowed /\ r.op = "skills.status.replace"
      /\ r.op \in Stored /\ r.op \notin Publishing /\ ~At(c, "mcp.invoke", "handshake")
      /\ StoreTypes /\ StoreLinks
  BY DEF replace_skill_status, Finished, Allowed, At, Stored, Publishing, StoreSafe
<1>2. ASSUME NEW code \in {200, 404, 409}, Says(c, code)
      PROVE  StoreSafe' /\ GrantsStand
  <2>1. code \in Nat
    OBVIOUS
  <2> QED  BY <1>1, <1>2, <2>1, SaysStores
<1>3. CASE /\ publication[id] # None /\ resource[id] # None /\ resource[id].stamp = r.seen
           /\ Stores(c, id, Touched(resource[id], r.value, resource[id].content), 200)
  <2> PICK content : content = resource[id].content
    OBVIOUS
  <2> PICK status : status = r.value
    OBVIOUS
  <2> PICK row : row = Touched(resource[id], status, content)
    OBVIOUS
  <2> PICK code \in Nat : code = 200
    OBVIOUS
  <2>1. id \in Resources /\ status \in {"active", "inactive"}
    BY <1>1, BodyStores
  <2>2. /\ resource[id] \in ResourceRow /\ TypeOf[id] \in Versioned
        /\ resource[id].type = TypeOf[id]
    BY <1>1, <1>3, <2>1 DEF StoreTypes, StoreLinks
  <2>3. content \in Contents /\ status \in ResourceStatuses /\ status \in Shown
    BY <2>1, <2>2 DEF Contents, ResourceRow, ResourceStatuses, Shown
  <2>4. /\ row \in ResourceRow /\ row.type = resource[id].type /\ row.owner = resource[id].owner
        /\ row.content = content /\ row.stamp = resource[id].stamp + 1 /\ row.status = status
    BY <2>2, <2>3, TouchedFacts
  <2>5. id \notin McpIds /\ TypeOf[id] # "llm_model"
    BY <2>2, NoMcp DEF Versioned
  <2>6. Stores(c, id, row, code)
    BY <1>3
  <2> QED  BY <1>1, <1>3, <2>1, <2>2, <2>3, <2>4, <2>5, <2>6, RowStores
<1> QED  BY <1>2, <1>3 DEF replace_skill_status

\* The consumption policy is replaced by whoever has read it as it is.
LEMMA PolicyStores ==
    ASSUME StoreSafe, NEW c \in Clients, replace_policy(c), Aside
    PROVE  StoreSafe' /\ GrantsStand
<1> DEFINE r == req[c]
<1> PICK id : id = r.target
  OBVIOUS
<1>1. /\ r.pc \notin Finished /\ r.pc \in Allowed /\ r.op = "consumption_limits.replace"
      /\ r.op \in Stored /\ r.op \notin Publishing /\ ~At(c, "mcp.invoke", "handshake")
      /\ StoreTypes /\ StoreLinks
  BY DEF replace_policy, Finished, Allowed, At, Stored, Publishing, StoreSafe
<1>2. ASSUME NEW code \in {200, 409, 503}, Says(c, code)
      PROVE  StoreSafe' /\ GrantsStand
  <2>1. code \in Nat
    OBVIOUS
  <2> QED  BY <1>1, <1>2, <2>1, SaysStores
<1>3. CASE /\ resource[id] # None /\ resource[id].stamp = r.seen
           /\ Stores(c, id, Touched(resource[id], "active", r.value), 200)
  <2> PICK content : content = r.value
    OBVIOUS
  <2> PICK status \in ResourceStatuses : status = "active"
    BY DEF ResourceStatuses
  <2> PICK row : row = Touched(resource[id], status, content)
    OBVIOUS
  <2> PICK code \in Nat : code = 200
    OBVIOUS
  <2>1. id \in Resources /\ TypeOf[id] = "policy" /\ content \in Documents
    BY <1>1, BodyStores, CatalogAssumption
  <2>2. /\ resource[id] \in ResourceRow /\ resource[id].type = TypeOf[id]
        /\ publication[id] = None
    BY <1>1, <1>3, <2>1 DEF StoreTypes, StoreLinks, Versioned
  <2>3. content \in Contents
    BY <2>1 DEF Contents
  <2>4. /\ row \in ResourceRow /\ row.type = resource[id].type /\ row.owner = resource[id].owner
        /\ row.stamp = resource[id].stamp + 1
    BY <2>2, <2>3, TouchedFacts
  <2>5. id \notin McpIds /\ TypeOf[id] # "llm_model"
    BY <2>1, NoMcp
  <2>6. Stores(c, id, row, code)
    BY <1>3
  <2> QED  BY <1>1, <1>3, <2>1, <2>2, <2>4, <2>5, <2>6, RowStores
<1> QED  BY <1>2, <1>3 DEF replace_policy

\* The row of a version, as its publication leaves it.
VersionsRow(id, type, holder, status, content) ==
    IF resource[id] = None THEN Row(type, holder, status, content, FALSE)
    ELSE [Touched(resource[id], status, content) EXCEPT !.hidden = FALSE]

\* The row of a published version shows what was sent.
LEMMA PublishedRow ==
    ASSUME StoreTypes, NEW id \in Resources, NEW holder \in Principals,
           resource[id] # None => resource[id].owner = holder /\ resource[id].type = TypeOf[id],
           NEW type \in ResourceTypes, type = TypeOf[id], NEW status \in ResourceStatuses,
           NEW content \in Manifests,
           NEW row, row = VersionsRow(id, type, holder, status, content)
    PROVE  /\ row \in ResourceRow /\ row.type = TypeOf[id] /\ row.owner = holder
           /\ row.status = status /\ row.content = content
           /\ resource[id] # None => row.stamp = resource[id].stamp + 1
<1>1. CASE resource[id] = None
  <2>1. row = Row(type, holder, status, content, FALSE)
    BY <1>1 DEF VersionsRow
  <2>2. row \in ResourceRow
    <3>1. holder \in Principals \cup Resources \cup {None}
          /\ content \in Assignments \cup Manifests \cup Documents
      OBVIOUS
    <3> QED  BY <2>1, <3>1 DEF Row, ResourceRow
  <2>3. row.type = type /\ row.owner = holder /\ row.status = status /\ row.content = content
    BY <2>1 DEF Row
  <2> QED  BY <1>1, <2>2, <2>3
<1>2. CASE resource[id] # None
  <2> PICK old : old = resource[id]
    OBVIOUS
  <2> PICK new : new = Touched(old, status, content)
    OBVIOUS
  <2>1. old \in ResourceRow /\ content \in Contents
    BY <1>2 DEF StoreTypes, Contents
  <2>2. /\ new \in ResourceRow /\ new.type = old.type /\ new.owner = old.owner
        /\ new.status = status /\ new.content = content /\ new.stamp = old.stamp + 1
    BY <2>1, TouchedFacts
  <2>3. row = [new EXCEPT !.hidden = FALSE]
    BY <1>2 DEF VersionsRow
  <2>4. /\ row \in ResourceRow /\ row.type = new.type /\ row.owner = new.owner
        /\ row.status = new.status /\ row.content = new.content /\ row.stamp = new.stamp
    BY <2>2, <2>3 DEF ResourceRow
  <2> QED  BY <1>2, <2>2, <2>4
<1> QED  BY <1>1, <1>2

\* The catalog row of a BoK version that is confirmed.
ConfirmedAs(c) ==
    IF resource[req[c].target] = None
    THEN Row("bok_collection", req[c].value.owner, "active", req[c].value.content, FALSE)
    ELSE Touched(resource[req[c].target], "active", resource[req[c].target].content)

\* A BoK version that is confirmed has its catalog row active again, or made anew.
LEMMA ConfirmedRow ==
    ASSUME StoreSafe, NEW c \in Clients, req[c].pc = "authorized", req[c].op = "bok.publish",
           NEW id, id = req[c].target, NEW shown, shown = ConfirmedAs(c)
    PROVE  /\ id \in Resources /\ id \notin McpIds /\ TypeOf[id] = "bok_collection"
           /\ shown \in ResourceRow /\ shown.type = TypeOf[id] /\ shown.status = "active"
           /\ resource[id] # None => /\ shown.stamp = resource[id].stamp + 1
                                     /\ shown.owner = resource[id].owner
                                     /\ shown.content = resource[id].content
<1>1. req[c].pc \in Allowed /\ req[c].op \in Stored /\ req[c].op \in Publishing
      /\ StoreTypes /\ StoreLinks
  BY StoredFacts DEF Allowed, Stored, Publishing, StoreSafe
<1> PICK holder : holder = req[c].value.owner
  OBVIOUS
<1> PICK content : content = req[c].value.content
  OBVIOUS
<1>2. /\ id \in Resources /\ TypeOf[id] = "bok_collection" /\ holder \in Principals
      /\ content \in Manifests
  BY <1>1, BodyStores
<1>3. id \notin McpIds
  BY <1>2, NoMcp
<1> PICK status \in ResourceStatuses : status = "active"
  BY DEF ResourceStatuses
<1> PICK type \in ResourceTypes : type = "bok_collection"
  BY DEF ResourceTypes
<1>4. CASE resource[id] = None
  <2>1. shown = VersionsRow(id, type, holder, status, content)
    BY <1>4 DEF VersionsRow, ConfirmedAs
  <2>2. resource[id] # None => resource[id].owner = holder /\ resource[id].type = TypeOf[id]
    BY <1>4
  <2>3. shown \in ResourceRow /\ shown.type = TypeOf[id] /\ shown.status = status
    BY ONLY <1>1, <1>2, <2>1, <2>2, PublishedRow, status \in ResourceStatuses,
            type \in ResourceTypes, type = "bok_collection"
  <2> QED  BY <1>2, <1>3, <1>4, <2>3
<1>5. CASE resource[id] # None
  <2> PICK row : row = resource[id]
    OBVIOUS
  <2>1. row \in ResourceRow /\ row.type = TypeOf[id]
    BY <1>1, <1>2, <1>5 DEF StoreTypes, StoreLinks
  <2> PICK was : was = row.content
    OBVIOUS
  <2>2. was \in Contents
    BY <2>1 DEF ResourceRow, Contents
  <2>3. shown = Touched(row, status, was)
    BY <1>5 DEF ConfirmedAs
  <2>4. /\ shown \in ResourceRow /\ shown.type = row.type /\ shown.owner = row.owner
        /\ shown.status = status /\ shown.content = was /\ shown.stamp = row.stamp + 1
    BY ONLY <2>1, <2>2, <2>3, TouchedFacts, status \in ResourceStatuses
  <2> QED  BY <1>2, <1>3, <1>5, <2>1, <2>4
<1> QED  BY <1>4, <1>5

\* A version that is there already is confirmed.
LEMMA ConfirmsStores ==
    ASSUME StoreSafe, NEW c \in Clients, NEW status \in {200, 201}, Confirms(c, status), Aside,
           req[c].op \in Publishing, req[c].pc = "authorized"
    PROVE  StoreSafe' /\ GrantsStand
<1> DEFINE r == req[c]
<1>1. /\ r.pc \notin Finished /\ ~At(c, "mcp.invoke", "handshake") /\ status \in Nat
      /\ StoreTypes /\ StoreLinks
  BY DEF Finished, Publishing, At, StoreSafe
<1>2. CASE AuditRefused(c) /\ UNCHANGED publication
  BY <1>1, <1>2, RefusedStores DEF Unserved, Aside
<1> PICK id : id = r.target
  OBVIOUS
<1> PICK shown : shown = ConfirmedAs(c)
  OBVIOUS
<1>3. CASE /\ resource' = IF r.op = "bok.publish" THEN [resource EXCEPT ![id] = shown] ELSE resource
           /\ req' = Answered(c, status, FALSE)
           /\ UNCHANGED <<identity, sent, effects, publication>>
  <2>1. UNCHANGED <<principal, credential, grant, publication, owner, effects, sent>>
        /\ client' = client /\ handshakes' = handshakes
        /\ \A s \in served' : ShownSound(s)
    BY <1>3 DEF Aside, mcpvars, identity, StoreSafe
  <2>2. StoreTypes' /\ StoreLinks' /\ StoreGrows
    <3>1. CASE r.op # "bok.publish"
      BY <1>1, <1>3, <2>1, <3>1, StoreStays
    <3>2. CASE r.op = "bok.publish"
      <4>1. /\ id \in Resources /\ id \notin McpIds /\ TypeOf[id] = "bok_collection"
            /\ shown \in ResourceRow /\ shown.type = TypeOf[id] /\ shown.status = "active"
            /\ resource[id] # None => /\ shown.stamp = resource[id].stamp + 1
                                      /\ shown.owner = resource[id].owner
                                      /\ shown.content = resource[id].content
        BY <3>2, ConfirmedRow
      <4>2. /\ publication' \in [Resources -> VersionRow \cup {None}]
            /\ \A o \in Resources : publication[o] # None => publication'[o] = publication[o]
            /\ \A o \in Resources : publication'[o] # None => TypeOf[o] \in Versioned
        BY <1>1, <2>1 DEF StoreTypes, StoreLinks
      <4>3. "active" \in Shown /\ resource' = [resource EXCEPT ![id] = shown]
        BY <1>3, <3>2 DEF Shown
      <4> QED  BY <1>1, <2>1, <4>1, <4>2, <4>3, ResourceGrows
    <3> QED  BY <3>1, <3>2
  <2>3. GrantsStand
    BY <2>1 DEF GrantsStand
  <2> PICK replayed \in BOOLEAN : replayed = FALSE
    OBVIOUS
  <2> PICK q : q = Left(r, status, replayed)
    OBVIOUS
  <2>4. req' = [req EXCEPT ![c] = q] /\ IsRequest(q) /\ q.n \in {0, r.n} /\ q.pc \in Finished
    <3>1. req' = Answered(c, status, replayed)
      BY <1>3
    <3> QED  BY <1>1, <3>1, AnsweredFacts
  <2>5. Sound(q) /\ ~(q.op = "mcp.invoke" /\ q.pc = "handshake")
    BY <2>4, OverSound
  <2>6. Inhabited
    BY <1>1, SomebodyAsks
  <2>7. SessionLocked'
    BY <1>1, <2>1, <2>4, <2>5, SessionStays
  <2>8. q.n \in 0..sent' /\ sent' \in Nat /\ sent <= sent'
    <3>1. sent \in Nat /\ r.n \in 0..sent
      BY DEF StoreSafe, RequestTypes
    <3> QED  BY <2>1, <2>4, <3>1
  <2>9. \A s \in served' : ShownSound(s)
    BY <2>1
  <2>10. UNCHANGED effects
    BY <2>1
  <2>11. StoreSafe'
    BY <2>2, <2>3, <2>4, <2>5, <2>6, <2>7, <2>8, <2>9, <2>10, MoveGrows, Zenon
  <2> QED  BY <2>3, <2>11
<1> QED  BY <1>2, <1>3 DEF Confirms, ConfirmedAs

\* What a publication reads before its insert: the row that it would replace is its owner's.
LEMMA ReadPublicationStores ==
    ASSUME StoreSafe, NEW c \in Clients, ReadPublication(c), Aside
    PROVE  StoreSafe' /\ GrantsStand
<1> DEFINE r == req[c]
<1>1. /\ r.pc = "authorized" /\ r.pc \notin Finished /\ r.pc \in Allowed /\ r.op \in Publishing
      /\ r.op \in Stored /\ r.op \notin GovernedOps
      /\ ~At(c, "mcp.invoke", "handshake") /\ StoreTypes /\ RequestTypes /\ Sound(r) /\ IsRequest(r)
  BY StoredFacts DEF ReadPublication, Finished, Allowed, At, Stored, Publishing, StoreSafe,
                     RequestTypes
<1>2. ASSUME NEW status \in {200, 201, 403, 409}, Says(c, status)
      PROVE  StoreSafe' /\ GrantsStand
  <2>1. status \in Nat
    OBVIOUS
  <2> QED  BY <1>1, <1>2, <2>1, SaysStores
<1>3. ASSUME NEW status \in {200, 201}, Confirms(c, status)
      PROVE  StoreSafe' /\ GrantsStand
  BY <1>1, <1>3, ConfirmsStores
<1>4. CASE /\ RowAdmits(c)
           /\ req' = [req EXCEPT ![c].pc = "checked", ![c].seen =
                   IF resource[r.target] = None THEN 0 ELSE resource[r.target].stamp]
           /\ UNCHANGED <<identity, resource, idem, audit, sent, effects, publication>>
  <2> PICK seen : seen = IF resource[r.target] = None THEN 0 ELSE resource[r.target].stamp
    OBVIOUS
  <2> PICK q : q = [r EXCEPT !.pc = "checked", !.seen = seen]
    OBVIOUS
  <2>1. req' = [req EXCEPT ![c] = q]
    BY <1>1, <1>4 DEF RequestTypes
  <2>2. /\ IsRequest(q) /\ q.n = r.n /\ q.op = r.op /\ q.target = r.target
        /\ q.value = r.value /\ q.cred = r.cred /\ q.barred = r.barred /\ q.pc = "checked"
        /\ q.seen = seen /\ q.who = r.who /\ q.active = r.active /\ q.grant = r.grant
    BY <1>1 DEF IsRequest, RequestFields
  <2>3. r.target \in Resources
    BY <1>1, BodyStores
  <2>4. seen \in Nat
    BY <1>1, <2>3, StampFacts
  <2>5. seen # 0 => resource[r.target] # None /\ resource[r.target].owner = r.value.owner
    BY <1>4 DEF RowAdmits, SkillRowAdmits, BoKRowAdmits
  <2>6. /\ r.op \in Operations /\ \E in \in Inputs[r.op] : r.target = in[1] /\ r.value = in[2]
        /\ r.cred \in Credentials /\ credential[r.cred] # None
        /\ StaysBarred(r) /\ CallerSound(r) /\ ScopeSound(r)
    BY <1>1 DEF Sound
  <2>7. StaysBarred(q)
    BY <2>2, <2>6 DEF StaysBarred
  <2>8. CallerSound(q) /\ ScopeSound(q)
    BY <1>1, <2>2, <2>6
       DEF CallerSound, ScopeSound, PrincipalClear, GrantClear, ResourceClear, Awaited
  <2>9. HandlerSound(q)
    BY <1>1, <2>2, <2>5 DEF HandlerSound, HeldPcs, Publishing
  <2>10. Sound(q)
    BY <1>1, <2>2, <2>4, <2>6, <2>7, <2>8, <2>9 DEF Sound
  <2>11. UNCHANGED <<principal, credential, grant, resource, publication, owner, effects,
                     sent, served, client, handshakes>>
    BY <1>4 DEF Aside, mcpvars, identity
  <2>12. SessionLocked'
    BY <1>1, <2>1, <2>2, <2>11, SessionStays
  <2> QED  BY <1>1, <2>1, <2>2, <2>10, <2>11, <2>12, GoesStores
<1> QED  BY <1>2, <1>3, <1>4 DEF ReadPublication

\* The version and its row are inserted unless somebody was faster.
LEMMA PublishesStores ==
    ASSUME StoreSafe, NEW c \in Clients, Aside, req[c].op \in Publishing, req[c].pc = "checked",
           NEW type \in ResourceTypes,
           type = IF req[c].op = "bok.publish" THEN "bok_collection" ELSE "skill",
           NEW status \in Shown, Publishes(c, type, status)
    PROVE  StoreSafe' /\ GrantsStand
<1> DEFINE r == req[c]
<1> PICK id : id = r.target
  OBVIOUS
<1>1. /\ r.pc \notin Finished /\ r.pc \in Allowed /\ r.op \in Stored
      /\ ~At(c, "mcp.invoke", "handshake") /\ StoreTypes /\ StoreLinks /\ Sound(r)
      /\ r.n \in Nat
  BY DEF Finished, Allowed, At, Stored, Publishing, StoreSafe, RequestTypes
<1>2. CASE Says(c, 409)
  <2> PICK code \in Nat : code = 409
    OBVIOUS
  <2> QED  BY <1>1, <1>2, SaysStores
<1>3. CASE AuditRefused(c) /\ UNCHANGED publication
  BY <1>1, <1>3, RefusedStores DEF Unserved, Aside
<1>4. CASE /\ ~Overtaken(c)
           /\ publication' = [publication EXCEPT ![id] = Published(c)]
           /\ resource' = [resource EXCEPT ![id] =
                IF resource[id] = None
                THEN Row(type, r.value.owner, status, r.value.content, FALSE)
                ELSE [Touched(resource[id], status, r.value.content) EXCEPT !.hidden = FALSE]]
           /\ CommitsAudited(c, 201)
           /\ UNCHANGED identity
  <2> PICK holder : holder = r.value.owner
    OBVIOUS
  <2> PICK content : content = r.value.content
    OBVIOUS
  <2> PICK row : row = VersionsRow(id, type, holder, status, content)
    OBVIOUS
  <2> PICK version : version = Published(c)
    OBVIOUS
  <2>1. /\ id \in Resources /\ TypeOf[id] = type /\ holder \in Principals
        /\ content \in Manifests
    BY <1>1, BodyStores
  <2>2. TypeOf[id] \in Versioned /\ id \notin McpIds /\ TypeOf[id] # "llm_model"
    BY <2>1, NoMcp DEF Versioned
  <2>3. publication[id] = None /\ (resource[id] # None => r.seen # 0)
    BY <1>4 DEF Overtaken
  <2>4. resource[id] # None => resource[id].owner = holder /\ resource[id].type = TypeOf[id]
    BY <1>1, <2>1, <2>3 DEF Sound, HandlerSound, StoreLinks, Publishing
  <2>5. status \in ResourceStatuses
    BY DEF Shown, ResourceStatuses
  <2>6. /\ row \in ResourceRow /\ row.type = TypeOf[id] /\ row.owner = holder
        /\ row.status = status /\ row.content = content
        /\ resource[id] # None => row.stamp = resource[id].stamp + 1
    BY <1>1, <2>1, <2>4, <2>5, PublishedRow
  <2>7. /\ version \in VersionRow /\ version # None /\ version.owner = holder
        /\ version.content = content /\ version.by = r.n
    <3>1. /\ version = [owner |-> holder, content |-> content, by |-> r.n]
      BY DEF Published
    <3> QED  BY <1>1, <2>1, <3>1, CatalogAssumption DEF VersionRow
  <2>8. /\ publication' \in [Resources -> VersionRow \cup {None}]
        /\ publication'[id] = version
        /\ \A o \in Resources : o # id => publication'[o] = publication[o]
    BY <1>1, <1>4, <2>1, <2>7 DEF StoreTypes
  <2>9. /\ \A o \in Resources : publication[o] # None => publication'[o] = publication[o]
        /\ \A o \in Resources : publication'[o] # None => TypeOf[o] \in Versioned
    BY <1>1, <2>2, <2>3, <2>8 DEF StoreLinks
  <2>10. UNCHANGED <<principal, credential, grant, owner, client, handshakes, served>>
    BY <1>4 DEF identity, Aside, mcpvars
  <2>11. resource' = [resource EXCEPT ![id] = row]
    BY <1>4 DEF VersionsRow
  <2>12. StoreTypes' /\ StoreLinks' /\ StoreGrows
    BY <1>1, <2>1, <2>2, <2>3, <2>4, <2>6, <2>8, <2>9, <2>10, <2>11, ResourceGrows
  <2>13. resource'[id] = row /\ row # None
    BY <1>1, <2>1, <2>6, <2>11, CatalogAssumption DEF StoreTypes
  <2> PICK e : e = Effect(c)
    OBVIOUS
  <2>14. e.op = r.op /\ e.target = id /\ e.n = r.n
    BY EffectFacts
  <2>15. PublicationStands(e)'
    <3>1. /\ publication'[id] # None /\ publication'[id].by = e.n /\ resource'[id] # None
          /\ publication'[id].owner = resource'[id].owner
          /\ publication'[id].content = resource'[id].content
          /\ resource'[id].status \in Shown
      BY <2>6, <2>7, <2>8, <2>13, <2>14
    <3> QED  BY <2>1, <2>14, <3>1 DEF PublicationStands
  <2>16. e.op \notin Tokened
    BY <2>14, StoredFacts DEF Publishing
  <2>17. GrantsStand
    BY <2>10 DEF GrantsStand
  <2> PICK code \in Nat : code = 201
    OBVIOUS
  <2>18. CommitsAudited(c, code)
    BY <1>4
  <2> QED  BY <1>1, <2>10, <2>12, <2>15, <2>16, <2>17, <2>18, AuditedStores
<1> QED  BY <1>2, <1>3, <1>4 DEF Publishes

\* Skills and collections are published.
LEMMA PublishStores ==
    ASSUME StoreSafe, NEW c \in Clients, Aside,
           publish_skill_version(c) \/ publish_bok_version(c)
    PROVE  StoreSafe' /\ GrantsStand
<1>1. CASE publish_skill_version(c)
  <2> PICK type \in ResourceTypes : type = "skill"
    BY DEF ResourceTypes
  <2> PICK status \in Shown : status = "published"
    BY DEF Shown
  <2>1. /\ req[c].op = "skills.publish" /\ req[c].pc = "checked" /\ Publishes(c, type, status)
        /\ req[c].op \in Publishing
    BY <1>1 DEF publish_skill_version, At, Publishing
  <2> QED  BY <2>1, PublishesStores
<1>2. CASE publish_bok_version(c)
  <2> PICK type \in ResourceTypes : type = "bok_collection"
    BY DEF ResourceTypes
  <2> PICK status \in Shown : status = "active"
    BY DEF Shown
  <2>1. /\ req[c].op = "bok.publish" /\ req[c].pc = "checked" /\ Publishes(c, type, status)
        /\ req[c].op \in Publishing
    BY <1>2 DEF publish_bok_version, At, Publishing
  <2> QED  BY <2>1, PublishesStores
<1> QED  BY <1>1, <1>2

\* The reads of the catalog.
LEMMA CatalogReadsStore ==
    ASSUME StoreSafe, NEW c \in Clients, Aside,
           \/ list_aliases(c) \/ get_alias(c) \/ list_catalog_resources(c)
           \/ get_catalog_resource(c) \/ get_skill_version(c) \/ get_bok_version(c)
           \/ get_skill_status(c) \/ get_policy(c)
    PROVE  StoreSafe' /\ GrantsStand
<1>1. /\ \E status \in {200, 404, 503} : Says(c, status)
      /\ req[c].pc = "authorized"
  BY DEF list_aliases, get_alias, list_catalog_resources, get_catalog_resource,
         get_skill_version, get_bok_version, get_skill_status, get_policy, At
<1>2. req[c].pc \notin Finished /\ ~At(c, "mcp.invoke", "handshake")
  BY <1>1 DEF Finished, At
<1>3. PICK status \in {200, 404, 503} : Says(c, status)
  BY <1>1
<1>4. status \in Nat
  OBVIOUS
<1> QED  BY <1>2, <1>3, <1>4, SaysStores

\* Every operation of the catalog.
LEMMA CatalogStores ==
    ASSUME StoreSafe, NEW c \in Clients, CatalogStep(c), Aside
    PROVE  StoreSafe' /\ GrantsStand
BY CreateAliasStores, ReplaceAliasStores, CreateCatalogStores, ReadPublicationStores,
   PublishStores, CatalogReadsStore, SkillStatusStores, PolicyStores DEF CatalogStep

-----------------------------------------------------------------------------
(* The whole store: what agents ask for *)

\* An answer is released, with what it shows.
LEMMA ReleaseStores ==
    ASSUME StoreSafe, NEW c \in Clients, req[c].pc \notin Finished, NEW status \in Nat,
           NEW shown, Release(c, status, shown), status < 400 => \A s \in shown : ShownSound(s),
           UNCHANGED <<owner, handshakes>>,
           \/ client' = client /\ ~At(c, "mcp.invoke", "handshake")
           \/ client' = [client EXCEPT !.lock = IF client.lock = c THEN None ELSE client.lock]
    PROVE  StoreSafe' /\ GrantsStand
<1>1. /\ UNCHANGED <<principal, credential, grant, resource, publication, owner, effects, sent>>
      /\ handshakes' = handshakes
  BY DEF Release, identity
<1>2. \A s \in served' : ShownSound(s)
  BY DEF Release, StoreSafe
<1> PICK fail \in Nat : fail = 503
  OBVIOUS
<1>3. CASE req' = Answered(c, status, FALSE)
  BY <1>1, <1>2, <1>3, EndStores
<1>4. CASE req' = Answered(c, fail, FALSE)
  BY <1>1, <1>2, <1>4, EndStores
<1> QED  BY <1>3, <1>4 DEF Release, finish

\* An answer that shows nothing.
LEMMA RefuseStores ==
    ASSUME StoreSafe, NEW c \in Clients, req[c].pc \notin Finished, NEW status \in Nat,
           Refuse(c, status), UNCHANGED <<owner, handshakes>>,
           \/ client' = client /\ ~At(c, "mcp.invoke", "handshake")
           \/ client' = [client EXCEPT !.lock = IF client.lock = c THEN None ELSE client.lock]
    PROVE  StoreSafe' /\ GrantsStand
<1> PICK shown : shown = {}
  OBVIOUS
<1>1. Release(c, status, shown) /\ \A s \in shown : ShownSound(s)
  BY DEF Refuse
<1> QED  BY <1>1, ReleaseStores

\* A refusal without an event.
LEMMA UnauditedStores ==
    ASSUME StoreSafe, NEW c \in Clients, req[c].pc \notin Finished, NEW status \in Nat,
           Unaudited(c, status), UNCHANGED mcpvars, ~At(c, "mcp.invoke", "handshake")
    PROVE  StoreSafe' /\ GrantsStand
<1>1. /\ UNCHANGED <<principal, credential, grant, resource, publication, owner, effects, sent>>
      /\ handshakes' = handshakes /\ client' = client
      /\ req' = Answered(c, status, FALSE)
      /\ \A s \in served' : ShownSound(s)
  BY DEF Unaudited, identity, mcpvars, StoreSafe
<1> QED  BY <1>1, EndStores

\* A call goes on, away from the handshake.
LEMMA CallGoes ==
    ASSUME StoreSafe, NEW c \in Clients, NEW q, Goes(c, q), req[c].pc \notin Finished,
           IsRequest(q), q.n = req[c].n, Sound(q), UNCHANGED mcpvars,
           ~At(c, "mcp.invoke", "handshake"), q.pc # "handshake"
    PROVE  StoreSafe' /\ GrantsStand
<1>1. /\ req' = [req EXCEPT ![c] = q]
      /\ UNCHANGED <<principal, credential, grant, resource, publication, owner, effects, sent,
                     served, client, handshakes>>
  BY DEF Goes, identity, mcpvars
<1>2. SessionLocked'
  BY <1>1, SessionStays
<1> QED  BY <1>1, <1>2, GoesStores

\* A call that was authorized is as sound as what its handler has found since.
LEMMA CallSound ==
    ASSUME NEW r, Sound(r), r.pc \notin Finished \cup Awaited, r.op \in GovernedOps,
           NEW q, q.pc \notin Awaited, q.op = r.op, q.target = r.target, q.cred = r.cred,
           q.seen = r.seen, q.barred = r.barred, q.who = r.who, q.grant = r.grant,
           HandlerSound(q)
    PROVE  Sound(q)
<1>1. /\ r.op \in Operations /\ \E in \in Inputs[r.op] : r.target = in[1]
      /\ r.cred \in Credentials /\ credential[r.cred] # None /\ r.seen \in Nat
      /\ StaysBarred(r) /\ CallerSound(r) /\ ScopeSound(r)
  BY DEF Sound
<1>2. StaysBarred(q)
  BY <1>1 DEF StaysBarred
<1>3. CallerSound(q)
  BY <1>1 DEF CallerSound, PrincipalClear, Awaited
<1>4. ScopeSound(q)
  BY <1>1 DEF ScopeSound, GrantClear, ResourceClear
<1> QED  BY <1>1, <1>2, <1>3, <1>4 DEF Sound

\* What a call rests on once it is authorized.
LEMMA CallFacts ==
    ASSUME StoreSafe, NEW c \in Clients, req[c].pc \notin Finished \cup Awaited,
           req[c].op \in GovernedOps
    PROVE  /\ StoreTypes /\ StoreLinks /\ RequestTypes /\ Sound(req[c]) /\ IsRequest(req[c])
           /\ StaysBarred(req[c]) /\ <<"credential", req[c].cred, 0>> \notin req[c].barred
           /\ req[c].who \in Principals /\ principal[req[c].who] # None
           /\ PrincipalClear(req[c], req[c].who) /\ GrantClear(req[c], req[c].grant)
           /\ ResourceClear(req[c], req[c].target) /\ HandlerSound(req[c])
<1>1. /\ StoreTypes /\ StoreLinks /\ RequestTypes /\ Sound(req[c]) /\ IsRequest(req[c])
  BY DEF StoreSafe, RequestTypes
<1> QED  BY <1>1 DEF Sound, CallerSound, ScopeSound, Awaited

\* What is shown on clear grants of clear resources is sound.
LEMMA ShowSound ==
    ASSUME StoreSafe, NEW c \in Clients, req[c].pc \notin Finished \cup Awaited,
           req[c].op \in GovernedOps,
           NEW grants, \A g \in grants : GrantClear(req[c], g),
           NEW targets, \A o \in targets : ResourceClear(req[c], o),
           NEW current, NEW s, s = Show(c, grants, targets, current)
    PROVE  ShownSound(s)
<1>1. Evidence(c, grants, targets) \cap req[c].barred = {}
  BY CallFacts, EvidenceClear
<1>2. s.evidence = Evidence(c, grants, targets) /\ s.barred = req[c].barred
  BY DEF Show
<1> QED  BY <1>1, <1>2 DEF ShownSound

\* What the registry has active, the catalog shows as active.
LEMMA OwnerClear ==
    ASSUME StoreTypes, StoreLinks, NEW r, StaysBarred(r), NEW id \in McpIds, OwnerActive(id)
    PROVE  ResourceClear(r, id)
<1>1. resource[id] # None /\ resource[id].status = "active"
  BY DEF StoreLinks, OwnerActive
<1>2. id \notin DOMAIN SeedRoute
  BY NoRoute, SurfaceAssumption DEF McpIds
<1> QED  BY <1>1, <1>2, ActiveClear

\* An allowed action has an active grant of an active resource.
LEMMA AllowsClear ==
    ASSUME StoreTypes, StoreLinks, NEW c \in Clients, StaysBarred(req[c]), NEW action,
           NEW id, TypeOf[id] \in {"skill", "bok_collection", "mcp_server", "mcp_tool"},
           TypeOf[id] \in {"mcp_server", "mcp_tool"} => id \in McpIds,
           NEW g \in Allows(c, action, id)
    PROVE  /\ req[c].active /\ g \in Grants /\ grant[g] # None /\ grant[g].status = "active"
           /\ GrantClear(req[c], g) /\ ResourceClear(req[c], id)
<1>1. /\ req[c].active /\ authorization_view(id) /\ g \in Grants /\ grant[g] # None
      /\ grant[g].status = "active"
  BY DEF Allows, find_active
<1>2. GrantClear(req[c], g)
  BY <1>1, ActiveClear
<1>3. DOMAIN owner = McpIds
  BY DEF StoreTypes
<1>4. ResourceClear(req[c], id)
  <2>1. CASE id \in McpIds
    BY <1>1, <1>3, <2>1, OwnerClear DEF authorization_view
  <2>2. CASE id \notin McpIds
    <3>1. resource[id] # None /\ resource[id].status = "active"
      BY <1>1, <1>3, <2>2 DEF authorization_view
    <3>2. id \notin DOMAIN SeedRoute
      BY NoRoute
    <3> QED  BY <3>1, <3>2, ActiveClear
  <2> QED  BY <2>1, <2>2
<1> QED  BY <1>1, <1>2, <1>4

\* A call is refused before its handler, or the store fails.
LEMMA RefusePathStores ==
    ASSUME StoreSafe, NEW c \in Clients, RefusePath(c) \/ StorageFails(c) \/ RefuseQuery(c)
    PROVE  StoreSafe' /\ GrantsStand
<1>1. /\ req[c].pc \notin Finished /\ ~At(c, "mcp.invoke", "handshake")
      /\ UNCHANGED <<owner, handshakes>> /\ client' = client
  BY DEF RefusePath, StorageFails, RefuseQuery, Calls, At, Finished, mcpvars,
         ResolutionRoutes, RetrievalRoutes
<1>a. Refuse(c, 422) \/ Refuse(c, 503)
  BY DEF RefusePath, StorageFails, RefuseQuery
<1>2. PICK status \in {422, 503} : Refuse(c, status)
  BY <1>a
<1>3. status \in Nat
  OBVIOUS
<1> QED  BY <1>1, <1>2, <1>3, RefuseStores

\* A governed operation learns who asks.
LEMMA CallerStores ==
    ASSUME StoreSafe, NEW c \in Clients, req[c].pc = "arrived", UNCHANGED mcpvars,
           credential[req[c].cred].status = "active",
           NEW who, who = credential[req[c].cred].owner,
           NEW active, active => principal[who].status = "active",
           Goes(c, [req[c] EXCEPT !.pc = "authenticated", !.who = who, !.active = active])
    PROVE  StoreSafe' /\ GrantsStand
<1> DEFINE r == req[c]
<1>1. /\ StoreTypes /\ StoreLinks /\ RequestTypes /\ Sound(r) /\ IsRequest(r)
      /\ r.pc \notin Finished /\ ~At(c, "mcp.invoke", "handshake")
  BY DEF StoreSafe, RequestTypes, Finished, At
<1> PICK q : q = [r EXCEPT !.pc = "authenticated", !.who = who, !.active = active]
  OBVIOUS
<1>2. /\ IsRequest(q) /\ q.n = r.n /\ q.op = r.op /\ q.target = r.target /\ q.value = r.value
      /\ q.cred = r.cred /\ q.seen = r.seen /\ q.barred = r.barred /\ q.pc = "authenticated"
      /\ q.who = who /\ q.active = active
  BY <1>1 DEF IsRequest, RequestFields
<1>3. q.active => principal[q.who].status = "active"
  BY <1>2, Zenon
<1>4. Sound(q)
  BY <1>1, <1>2, <1>3, KnownSound
<1> QED  BY <1>1, <1>2, <1>4, CallGoes

\* The caller of a governed operation is who owns the key now.
LEMMA AuthenticateCallStores ==
    ASSUME StoreSafe, NEW c \in Clients, authenticate_call(c)
    PROVE  StoreSafe' /\ GrantsStand
<1>1. /\ req[c].pc = "arrived" /\ req[c].pc \notin Finished
      /\ ~At(c, "mcp.invoke", "handshake") /\ UNCHANGED mcpvars
      /\ UNCHANGED <<owner, handshakes>> /\ client' = client
  BY DEF authenticate_call, Finished, At, mcpvars
<1> PICK status \in Nat : status = 401
  OBVIOUS
<1>2. CASE Refuse(c, status)
  BY <1>1, <1>2, RefuseStores
<1>3. CASE Unaudited(c, status)
  BY <1>1, <1>3, UnauditedStores
<1> PICK who : who = credential[req[c].cred].owner
  OBVIOUS
<1> PICK active : active = (principal[who].status = "active")
  BY Zenon
<1>4. CASE /\ Usable(req[c].cred)
           /\ Goes(c, [req[c] EXCEPT !.pc = "authenticated", !.who = who, !.active = active])
  <2>1. credential[req[c].cred].status = "active"
    BY <1>4 DEF Usable
  <2>2. active => principal[who].status = "active"
    BY Zenon
  <2> QED  BY <1>1, <1>4, <2>1, <2>2, CallerStores
<1> QED  BY <1>2, <1>3, <1>4 DEF authenticate_call

\* What a governed operation may ask for is told from the routes by its type.
LEMMA TargetType ==
    ASSUME NEW r, Sound(r), r.pc \notin Finished, r.op \in GovernedOps
    PROVE  /\ TypeOf[r.target] \in {"skill", "bok_collection", "mcp_server", "mcp_tool"}
           /\ TypeOf[r.target] \in {"mcp_server", "mcp_tool"} => r.target \in McpIds
BY TargetFacts, SurfaceAssumption
   DEF GovernedOps, MCPRoutes, ResolutionRoutes, RetrievalRoutes, McpIds

\* A governed operation is authorized on an active grant of what it asks for.
LEMMA AuthorizeCallStores ==
    ASSUME StoreSafe, NEW c \in Clients, authorize_governed_access(c)
    PROVE  StoreSafe' /\ GrantsStand
<1> DEFINE r == req[c]
<1> PICK allowing : allowing = Allows(c, ActionOf(r.op), r.target)
  OBVIOUS
<1>1. /\ StoreTypes /\ StoreLinks /\ RequestTypes /\ Sound(r) /\ IsRequest(r)
      /\ r.pc = "authenticated" /\ r.pc \notin Finished /\ ~At(c, "mcp.invoke", "handshake")
      /\ r.op \in GovernedOps /\ UNCHANGED mcpvars
  BY DEF StoreSafe, RequestTypes, authorize_governed_access, Finished, At
<1>2. CASE Refuse(c, IF r.op = "skills.resolve" THEN 404 ELSE 403)
  <2> PICK status \in Nat : status = IF r.op = "skills.resolve" THEN 404 ELSE 403
    OBVIOUS
  <2>1. UNCHANGED <<owner, handshakes>> /\ client' = client /\ Refuse(c, status)
    BY <1>1, <1>2 DEF mcpvars
  <2> QED  BY <1>1, <2>1, RefuseStores
<1>3. CASE \E g \in allowing :
              Goes(c, [r EXCEPT !.pc = "authorized", !.grant = g, !.value = <<>>])
  <2>1. PICK g \in allowing : Goes(c, [r EXCEPT !.pc = "authorized", !.grant = g, !.value = <<>>])
    BY <1>3
  <2> PICK q : q = [r EXCEPT !.pc = "authorized", !.grant = g, !.value = <<>>]
    OBVIOUS
  <2>2. Goes(c, q)
    BY <2>1
  <2>3. /\ IsRequest(q) /\ q.n = r.n /\ q.op = r.op /\ q.target = r.target /\ q.value = <<>>
        /\ q.cred = r.cred /\ q.seen = r.seen /\ q.barred = r.barred /\ q.pc = "authorized"
        /\ q.who = r.who /\ q.active = r.active /\ q.grant = g
    BY <1>1 DEF IsRequest, RequestFields
  <2>4. StaysBarred(r)
    BY <1>1 DEF Sound
  <2> PICK action : action = ActionOf(r.op)
    OBVIOUS
  <2> PICK id : id = r.target
    OBVIOUS
  <2>5. /\ TypeOf[id] \in {"skill", "bok_collection", "mcp_server", "mcp_tool"}
        /\ TypeOf[id] \in {"mcp_server", "mcp_tool"} => id \in McpIds
    BY <1>1, TargetType
  <2>6. g \in Allows(c, action, id)
    BY <2>1
  <2>7. /\ r.active /\ g \in Grants /\ grant[g] # None /\ grant[g].status = "active"
        /\ ResourceClear(r, id)
    BY <1>1, <2>4, <2>5, <2>6, AllowsClear
  <2>8. ~Evidenced(r.op)
    BY <1>1 DEF Evidenced
  <2>9. /\ q.value = IF r.op \in GovernedOps THEN <<>> ELSE r.value
        /\ Evidenced(r.op) => ResourceClear(r, CONTROL_SCOPES(r.op)[2])
        /\ r.op \in GovernedOps => ResourceClear(r, r.target)
    BY <1>1, <2>3, <2>7, <2>8
  <2>10. Sound(q)
    BY <1>1, <2>3, <2>7, <2>9, AllowedSound
  <2> QED  BY <1>1, <2>2, <2>3, <2>10, CallGoes
<1> QED  BY <1>2, <1>3 DEF authorize_governed_access

\* The root of a skill is read.
LEMMA ReadSkillStores ==
    ASSUME StoreSafe, NEW c \in Clients, read_skill(c)
    PROVE  StoreSafe' /\ GrantsStand
<1> DEFINE r == req[c]
<1>1. /\ r.op = "skills.resolve" /\ r.pc = "authorized" /\ r.pc \notin Finished
      /\ r.pc \notin Finished \cup Awaited /\ r.op \in GovernedOps
      /\ ~At(c, "mcp.invoke", "handshake") /\ UNCHANGED mcpvars
  BY DEF read_skill, Calls, At, Finished, Awaited, GovernedOps, ResolutionRoutes
<1>2. Sound(r) /\ IsRequest(r) /\ HandlerSound(r)
  BY <1>1, CallFacts
<1>3. CASE Refuse(c, 404)
  <2> PICK status \in Nat : status = 404
    OBVIOUS
  <2>1. UNCHANGED <<owner, handshakes>> /\ client' = client /\ Refuse(c, status)
    BY <1>1, <1>3 DEF mcpvars
  <2> QED  BY <1>1, <2>1, RefuseStores
<1>4. CASE publication[r.target] # None /\ Goes(c, [r EXCEPT !.pc = "dependencies"])
  <2> PICK q : q = [r EXCEPT !.pc = "dependencies"]
    OBVIOUS
  <2>1. /\ IsRequest(q) /\ q.n = r.n /\ q.op = r.op /\ q.target = r.target /\ q.value = r.value
        /\ q.cred = r.cred /\ q.seen = r.seen /\ q.barred = r.barred /\ q.pc = "dependencies"
        /\ q.who = r.who /\ q.active = r.active /\ q.grant = r.grant
    BY <1>2 DEF IsRequest, RequestFields
  <2>2. q.value = <<>>
    BY <1>1, <1>2, <2>1 DEF HandlerSound
  <2>3. <<>> \in Seq(Grants) /\ \A i \in 1..Len(<<>>) : FALSE
    OBVIOUS
  <2>4. DepsClear(q)
    BY <1>4, <2>1, <2>2, <2>3 DEF DepsClear
  <2>5. HandlerSound(q)
    BY <1>1, <2>1, <2>4 DEF HandlerSound, HeldPcs
  <2>6. Sound(q)
    BY <1>1, <1>2, <2>1, <2>5, CallSound DEF Awaited
  <2>7. Goes(c, q)
    BY <1>4
  <2> QED  BY <1>1, <2>1, <2>6, <2>7, CallGoes
<1> QED  BY <1>3, <1>4 DEF read_skill

\* What is sound is released.
LEMMA ShownStores ==
    ASSUME StoreSafe, NEW c \in Clients, req[c].pc \notin Finished, NEW s, ShownSound(s),
           Release(c, 200, {s}), UNCHANGED mcpvars, ~At(c, "mcp.invoke", "handshake")
    PROVE  StoreSafe' /\ GrantsStand
<1> PICK status \in Nat : status = 200
  OBVIOUS
<1> PICK shown : shown = {s}
  OBVIOUS
<1>1. /\ UNCHANGED <<owner, handshakes>> /\ client' = client /\ Release(c, status, shown)
      /\ status < 400 => \A t \in shown : ShownSound(t)
  BY DEF mcpvars
<1> QED  BY <1>1, ReleaseStores

\* A call away from the handshake is refused, with an event or without.
LEMMA CallRefused ==
    ASSUME StoreSafe, NEW c \in Clients, req[c].pc \notin Finished, NEW status \in Nat,
           Refuse(c, status) \/ Unaudited(c, status), UNCHANGED mcpvars,
           ~At(c, "mcp.invoke", "handshake")
    PROVE  StoreSafe' /\ GrantsStand
<1>1. UNCHANGED <<owner, handshakes>> /\ client' = client
  BY DEF mcpvars
<1>2. CASE Refuse(c, status)
  BY <1>1, <1>2, RefuseStores
<1>3. CASE Unaudited(c, status)
  BY <1>3, UnauditedStores
<1> QED  BY <1>2, <1>3

\* A skill names the skills it depends on.
LEMMA ManifestFacts ==
    ASSUME StoreTypes, StoreLinks, NEW id \in Resources, publication[id] # None, TypeOf[id] = "skill"
    PROVE  Dependencies(id) \in Seq({o \in Resources : TypeOf[o] = "skill"})
<1>1. publication[id].content \in Manifests
  BY DEF StoreTypes, VersionRow
<1> QED  BY <1>1, SurfaceAssumption DEF Dependencies

\* One more grant.
LEMMA Appended ==
    ASSUME NEW S, NEW s \in Seq(S), NEW e \in S
    PROVE  /\ Append(s, e) \in Seq(S) /\ Len(Append(s, e)) = Len(s) + 1
           /\ Append(s, e)[Len(s) + 1] = e
           /\ \A i \in 1..Len(s) : Append(s, e)[i] = s[i]
           /\ Len(s) \in Nat
OBVIOUS

\* A dependency is authorized on an active grant of an active skill.
LEMMA DependencyStores ==
    ASSUME StoreSafe, NEW c \in Clients, authorize_dependency(c)
    PROVE  StoreSafe' /\ GrantsStand
<1> DEFINE r == req[c]
           deps == Dependencies(r.target)
           next == Len(r.value) + 1
<1>1. /\ r.op = "skills.resolve" /\ r.pc = "dependencies" /\ r.pc \notin Finished
      /\ r.pc \notin Finished \cup Awaited /\ r.op \in GovernedOps
      /\ ~At(c, "mcp.invoke", "handshake") /\ UNCHANGED mcpvars
  BY DEF authorize_dependency, Calls, At, Finished, Awaited, GovernedOps, ResolutionRoutes
<1>2. StoreTypes /\ StoreLinks /\ Sound(r) /\ IsRequest(r) /\ HandlerSound(r) /\ StaysBarred(r)
  BY <1>1, CallFacts
<1>3. DepsClear(r)
  BY <1>1, <1>2 DEF HandlerSound
<1>4. r.target \in Resources /\ TypeOf[r.target] = "skill"
  BY <1>1, <1>2, TargetFacts
<1>5. publication[r.target] # None /\ r.value \in Seq(Grants)
  BY <1>3 DEF DepsClear
<1>6. deps \in Seq({o \in Resources : TypeOf[o] = "skill"})
  BY <1>2, <1>4, <1>5, ManifestFacts
<1>7. CASE Refuse(c, 404)
  <2> PICK status \in Nat : status = 404
    OBVIOUS
  <2> QED  BY <1>1, <1>7, CallRefused
<1> PICK id : id = deps[next]
  OBVIOUS
<1> PICK action : action = "invoke"
  OBVIOUS
<1>8. CASE /\ next <= Len(deps)
           /\ \E g \in Allows(c, action, id) : Goes(c, [r EXCEPT !.value = Append(@, g)])
  <2>1. PICK g \in Allows(c, action, id) : Goes(c, [r EXCEPT !.value = Append(r.value, g)])
    BY <1>8
  <2> PICK q : q = [r EXCEPT !.value = Append(r.value, g)]
    OBVIOUS
  <2>2. /\ IsRequest(q) /\ q.n = r.n /\ q.op = r.op /\ q.target = r.target
        /\ q.value = Append(r.value, g)
        /\ q.cred = r.cred /\ q.seen = r.seen /\ q.barred = r.barred /\ q.pc = r.pc
        /\ q.who = r.who /\ q.grant = r.grant
    BY <1>2 DEF IsRequest, RequestFields
  <2>3. Len(r.value) \in Nat
    BY <1>5
  <2>4. TypeOf[id] = "skill"
    BY <1>6, <1>8, <2>3
  <2>5. g \in Grants /\ GrantClear(r, g) /\ ResourceClear(r, id)
    BY <1>2, <2>4, AllowsClear
  <2>6. /\ q.value \in Seq(Grants) /\ Len(q.value) = next /\ q.value[next] = g
        /\ \A i \in 1..Len(r.value) : q.value[i] = r.value[i]
    BY <1>5, <2>2, <2>5, Appended
  <2>7. ASSUME NEW i \in 1..Len(q.value)
        PROVE  GrantClear(r, q.value[i]) /\ ResourceClear(r, deps[i])
    <3>1. CASE i = next
      BY <2>5, <2>6, <3>1
    <3>2. CASE i # next
      <4>1. i \in 1..Len(r.value)
        BY <2>3, <2>6, <3>2, SMTT(40)
      <4> QED  BY <1>3, <2>6, <4>1 DEF DepsClear, Dependencies
    <3> QED  BY <3>1, <3>2
  <2>8. DepsClear(q)
    BY <1>5, <2>2, <2>6, <2>7 DEF DepsClear, GrantClear, ResourceClear, Dependencies
  <2>9. HandlerSound(q)
    BY <1>1, <2>2, <2>8 DEF HandlerSound, HeldPcs
  <2>10. Sound(q)
    BY <1>1, <1>2, <2>2, <2>9, CallSound DEF Awaited
  <2>11. Goes(c, q)
    BY <2>1
  <2> QED  BY <1>1, <2>2, <2>10, <2>11, CallGoes
<1> QED  BY <1>7, <1>8 DEF authorize_dependency

\* A skill is resolved with the dependencies that were authorized.
LEMMA ResolveStores ==
    ASSUME StoreSafe, NEW c \in Clients, resolve(c)
    PROVE  StoreSafe' /\ GrantsStand
<1> DEFINE r == req[c]
           deps == Dependencies(r.target)
<1>1. /\ r.op = "skills.resolve" /\ r.pc = "dependencies" /\ r.pc \notin Finished
      /\ r.pc \notin Finished \cup Awaited /\ r.op \in GovernedOps
      /\ ~At(c, "mcp.invoke", "handshake") /\ UNCHANGED mcpvars
  BY DEF resolve, Calls, At, Finished, Awaited, GovernedOps, ResolutionRoutes
<1>2. /\ StoreTypes /\ StoreLinks /\ Sound(r) /\ IsRequest(r) /\ HandlerSound(r)
      /\ GrantClear(r, r.grant) /\ ResourceClear(r, r.target)
  BY <1>1, CallFacts
<1>3. DepsClear(r)
  BY <1>1, <1>2 DEF HandlerSound
<1>4. r.target \in Resources /\ TypeOf[r.target] = "skill"
  BY <1>1, <1>2, TargetFacts
<1>5. publication[r.target] # None /\ r.value \in Seq(Grants)
  BY <1>3 DEF DepsClear
<1>6. deps \in Seq({o \in Resources : TypeOf[o] = "skill"})
  BY <1>2, <1>4, <1>5, ManifestFacts
<1>7. CASE Refuse(c, 404)
  <2> PICK status \in Nat : status = 404
    OBVIOUS
  <2> QED  BY <1>1, <1>7, CallRefused
<1> PICK grants : grants = {r.grant} \cup {r.value[i] : i \in DOMAIN r.value}
  OBVIOUS
<1> PICK targets : targets = {r.target} \cup {deps[i] : i \in DOMAIN deps}
  OBVIOUS
<1> PICK s : s = Show(c, grants, targets, TRUE)
  OBVIOUS
<1>8. CASE Len(r.value) = Len(deps) /\ Release(c, 200, {s})
  <2>1. DOMAIN r.value = 1..Len(r.value) /\ DOMAIN deps = 1..Len(r.value)
    BY <1>5, <1>6, <1>8
  <2>2. \A i \in 1..Len(r.value) : GrantClear(r, r.value[i]) /\ ResourceClear(r, deps[i])
    BY <1>3 DEF DepsClear, Dependencies
  <2>3. \A g \in grants : GrantClear(r, g)
    BY <1>2, <2>1, <2>2
  <2>4. \A o \in targets : ResourceClear(r, o)
    BY <1>2, <2>1, <2>2
  <2>5. ShownSound(s)
    BY <1>1, <2>3, <2>4, ShowSound
  <2> QED  BY <1>1, <1>8, <2>5, ShownStores
<1> QED  BY <1>7, <1>8 DEF resolve

\* What a handler keeps for its answer.
LEMMA KeptStores ==
    ASSUME StoreSafe, NEW c \in Clients, req[c].op \in GovernedOps, UNCHANGED mcpvars,
           req[c].pc \notin Finished \cup Awaited, req[c].pc \notin Finished,
           ~At(c, "mcp.invoke", "handshake"),
           NEW pc \in HeldPcs, pc # "handshake", NEW s, ShownSound(s),
           Goes(c, [req[c] EXCEPT !.pc = pc, !.value = s])
    PROVE  StoreSafe' /\ GrantsStand
<1> DEFINE r == req[c]
<1> PICK q : q = [r EXCEPT !.pc = pc, !.value = s]
  OBVIOUS
<1>1. Sound(r) /\ IsRequest(r)
  BY CallFacts
<1>2. /\ IsRequest(q) /\ q.n = r.n /\ q.op = r.op /\ q.target = r.target /\ q.value = s
      /\ q.cred = r.cred /\ q.seen = r.seen /\ q.barred = r.barred /\ q.pc = pc
      /\ q.who = r.who /\ q.grant = r.grant
  BY <1>1 DEF IsRequest, RequestFields
<1>3. HandlerSound(q)
  BY <1>2 DEF HandlerSound, HeldPcs, GovernedOps, MCPRoutes, ResolutionRoutes, RetrievalRoutes
<1>4. Sound(q)
  BY <1>1, <1>2, <1>3, CallSound DEF Awaited, HeldPcs
<1> QED  BY <1>1, <1>2, <1>4, CallGoes

\* A statement of a retrieval, once it is authorized.
LEMMA RetrievesFacts ==
    ASSUME StoreSafe, NEW c \in Clients, NEW pc, Retrieves(c, pc),
           pc \in {"authorized"} \cup Retrieving
    PROVE  /\ req[c].op \in RetrievalRoutes /\ req[c].op \in GovernedOps /\ req[c].pc = pc
           /\ req[c].pc \notin Finished \cup Awaited /\ req[c].pc \notin Finished
           /\ ~At(c, "mcp.invoke", "handshake") /\ UNCHANGED mcpvars
           /\ Sound(req[c]) /\ IsRequest(req[c])
<1>1. /\ req[c].op \in RetrievalRoutes /\ req[c].op \in GovernedOps /\ req[c].pc = pc
      /\ req[c].pc \notin Finished \cup Awaited /\ req[c].pc \notin Finished
      /\ ~At(c, "mcp.invoke", "handshake") /\ UNCHANGED mcpvars
  BY DEF Retrieves, Retrieving, At, Finished, Awaited, GovernedOps, RetrievalRoutes
<1> QED  BY <1>1, CallFacts

\* What a statement locks is of no concern to what the request rests on.
LEMMA HoldsStores ==
    ASSUME StoreSafe, NEW c \in Clients, NEW from, Retrieves(c, from),
           from \in {"authorized"} \cup Retrieving, NEW pc \in Retrieving, NEW rows, NEW stands,
           Holds(c, pc, rows, stands)
    PROVE  StoreSafe' /\ GrantsStand
<1> DEFINE r == req[c]
<1>1. /\ r.op \in RetrievalRoutes /\ r.op \in GovernedOps /\ r.pc \notin Finished \cup Awaited
      /\ r.pc \notin Finished /\ ~At(c, "mcp.invoke", "handshake") /\ UNCHANGED mcpvars
      /\ Sound(r) /\ IsRequest(r)
  BY RetrievesFacts
<1> PICK q : q = [r EXCEPT !.pc = pc, !.value = rows, !.active = stands]
  OBVIOUS
<1>2. /\ IsRequest(q) /\ q.n = r.n /\ q.op = r.op /\ q.target = r.target
      /\ q.cred = r.cred /\ q.seen = r.seen /\ q.barred = r.barred /\ q.pc = pc
      /\ q.who = r.who /\ q.grant = r.grant
  BY <1>1 DEF IsRequest, RequestFields
<1>3. HandlerSound(q) /\ q.pc \notin Awaited /\ q.pc # "handshake"
  BY <1>1, <1>2 DEF HandlerSound, HeldPcs, Retrieving, RetrievalRoutes, Awaited
<1>4. Sound(q)
  BY <1>1, <1>2, <1>3, CallSound
<1>5. Goes(c, q)
  BY DEF Holds
<1> QED  BY <1>1, <1>2, <1>3, <1>4, <1>5, CallGoes

\* Every statement that locks: it holds what it found, or the retrieval is refused.
LEMMA LockStores ==
    ASSUME StoreSafe, NEW c \in Clients, lock_current_authority(c) \/ lock_active_version(c)
    PROVE  StoreSafe' /\ GrantsStand
<1> DEFINE Locked == \E pc \in Retrieving : \E rows, stands : Holds(c, pc, rows, stands)
           Refused == \E status \in {403, 503} : Refuse(c, status)
           Statement(from) == Retrieves(c, from) /\ (Locked \/ Refused)
<1>a. lock_principal(c) => Statement("authorized")
  <2> HAVE lock_principal(c)
  <2> PICK rows, stands : Holds(c, "principal locked", rows, stands)
    BY DEF lock_principal
  <2> QED  BY DEF lock_principal, Retrieving
<1>b. lock_credential(c) => Statement("principal locked")
  <2> HAVE lock_credential(c)
  <2> PICK rows, stands : Holds(c, "credential locked", rows, stands)
    BY DEF lock_credential
  <2> QED  BY DEF lock_credential, Retrieving
<1>c. lock_resource(c) => Statement("credential locked")
  <2> HAVE lock_resource(c)
  <2> PICK rows, stands : Holds(c, "resource locked", rows, stands)
    BY DEF lock_resource
  <2> QED  BY DEF lock_resource, Retrieving
<1>d. lock_grant(c) => Statement("resource locked")
  <2> HAVE lock_grant(c)
  <2>1. (\E rows, stands : Holds(c, "authority locked", rows, stands)) \/ Refuse(c, 403)
    BY DEF lock_grant
  <2> QED  BY <2>1 DEF lock_grant, Retrieving
<1>e. lock_active_version(c) => Statement("authority locked")
  <2> HAVE lock_active_version(c)
  <2>1. (\E rows, stands : Holds(c, "version locked", rows, stands)) \/ Refuse(c, 503)
    BY DEF lock_active_version
  <2> QED  BY <2>1 DEF lock_active_version, Retrieving
<1>f. /\ "authorized" \in {"authorized"} \cup Retrieving /\ "principal locked" \in Retrieving
      /\ "credential locked" \in Retrieving /\ "resource locked" \in Retrieving
      /\ "authority locked" \in Retrieving
  BY DEF Retrieving
<1> HIDE DEF Statement
<1>1. PICK from \in {"authorized"} \cup Retrieving : Statement(from)
  BY <1>a, <1>b, <1>c, <1>d, <1>e, <1>f, ZenonT(60) DEF lock_current_authority
<1> USE DEF Statement
<1>2. ASSUME NEW status \in {403, 503}, Refuse(c, status) PROVE StoreSafe' /\ GrantsStand
  <2>1. status \in Nat
    OBVIOUS
  <2> QED  BY <1>1, <1>2, <2>1, RetrievesFacts, CallRefused
<1>3. ASSUME NEW pc \in Retrieving, NEW rows, NEW stands, Holds(c, pc, rows, stands)
      PROVE  StoreSafe' /\ GrantsStand
  BY <1>1, <1>3, HoldsStores
<1> QED  BY <1>1, <1>2, <1>3

\* BoK content rests on the grant and the collection that were authorized.
LEMMA ContentStores ==
    ASSUME StoreSafe, NEW c \in Clients, content_query(c)
    PROVE  StoreSafe' /\ GrantsStand
<1> DEFINE r == req[c]
<1> PICK from \in {"authorized"} \cup Retrieving : from = "version locked"
  BY DEF Retrieving
<1>1. /\ r.op \in GovernedOps /\ r.pc \notin Finished /\ r.pc \notin Finished \cup Awaited
      /\ ~At(c, "mcp.invoke", "handshake") /\ UNCHANGED mcpvars
  BY RetrievesFacts DEF content_query
<1>2. GrantClear(r, r.grant) /\ ResourceClear(r, r.target)
  BY <1>1, CallFacts
<1> PICK grants : grants = {r.grant}
  OBVIOUS
<1> PICK targets : targets = {r.target}
  OBVIOUS
<1> PICK pc \in HeldPcs : pc = "read"
  BY DEF HeldPcs
<1> PICK current : current = AuthorityStands(c)
  OBVIOUS
<1> PICK s : s = Show(c, grants, targets, current)
  OBVIOUS
<1>3. Goes(c, [r EXCEPT !.pc = pc, !.value = s])
  BY DEF content_query
<1>4. ShownSound(s)
  BY <1>1, <1>2, ShowSound
<1> QED  BY <1>1, <1>3, <1>4, KeptStores

\* Content is released as it was read.
LEMMA ReleaseContentStores ==
    ASSUME StoreSafe, NEW c \in Clients, release_content(c)
    PROVE  StoreSafe' /\ GrantsStand
<1> DEFINE r == req[c]
<1>1. /\ r.op \in GovernedOps /\ r.pc = "read" /\ r.pc \notin Finished
      /\ r.pc \notin Finished \cup Awaited
      /\ ~At(c, "mcp.invoke", "handshake") /\ UNCHANGED mcpvars
  BY DEF release_content, At, Finished, Awaited, GovernedOps, RetrievalRoutes
<1>2. ShownSound(r.value)
  BY <1>1, CallFacts DEF HandlerSound, HeldPcs
<1>3. CASE Refuse(c, 404)
  <2> PICK status \in Nat : status = 404
    OBVIOUS
  <2> QED  BY <1>1, <1>3, CallRefused
<1> PICK s : s = r.value
  OBVIOUS
<1>4. CASE Release(c, 200, {s})
  BY <1>1, <1>2, <1>4, ShownStores
<1> QED  BY <1>3, <1>4 DEF release_content

\* A tool is listed on an active grant of it, or not at all.
LEMMA ToolStores ==
    ASSUME StoreSafe, NEW c \in Clients, req[c].op = "mcp.discovery", req[c].pc = "tool",
           Len(req[c].value) + 1 <= Len(ToolIds), UNCHANGED mcpvars,
           NEW g \in Grants \cup {None},
           g # None => g \in Allows(c, "mcp.invoke", ToolIds[Len(req[c].value) + 1]),
           Goes(c, [req[c] EXCEPT !.pc = "authorized", !.value = Append(@, g)])
    PROVE  StoreSafe' /\ GrantsStand
<1> DEFINE r == req[c]
           next == Len(r.value) + 1
<1>1. /\ r.op \in GovernedOps /\ r.pc \notin Finished /\ r.pc \notin Finished \cup Awaited
      /\ ~At(c, "mcp.invoke", "handshake")
  BY DEF At, Finished, Awaited, GovernedOps, MCPRoutes
<1>2. StoreTypes /\ StoreLinks /\ Sound(r) /\ IsRequest(r) /\ HandlerSound(r) /\ StaysBarred(r)
  BY <1>1, CallFacts
<1>3. ToolsClear(r)
  BY <1>2 DEF HandlerSound
<1> PICK q : q = [r EXCEPT !.pc = "authorized", !.value = Append(r.value, g)]
  OBVIOUS
<1>4. /\ IsRequest(q) /\ q.n = r.n /\ q.op = r.op /\ q.target = r.target
      /\ q.value = Append(r.value, g)
      /\ q.cred = r.cred /\ q.seen = r.seen /\ q.barred = r.barred /\ q.pc = "authorized"
      /\ q.who = r.who /\ q.grant = r.grant
  BY <1>2 DEF IsRequest, RequestFields
<1>5. r.value \in Seq(Grants \cup {None}) /\ Len(r.value) \in Nat
  BY <1>3 DEF ToolsClear
<1>6. /\ q.value \in Seq(Grants \cup {None}) /\ Len(q.value) = next /\ q.value[next] = g
      /\ \A i \in 1..Len(r.value) : q.value[i] = r.value[i]
  BY <1>4, <1>5, Appended
<1> PICK id : id = ToolIds[next]
  OBVIOUS
<1> PICK action : action = "mcp.invoke"
  OBVIOUS
<1>7. id \in Tools /\ id \in McpIds /\ TypeOf[id] = "mcp_tool"
  BY <1>5, SurfaceAssumption DEF Tools, McpIds
<1>8. g # None => GrantClear(r, g) /\ ResourceClear(r, id)
  BY <1>2, <1>7, AllowsClear
<1>9. ASSUME NEW i \in 1..Len(q.value), q.value[i] # None
      PROVE  GrantClear(r, q.value[i]) /\ ResourceClear(r, ToolIds[i])
  <2>1. CASE i = next
    BY <1>6, <1>8, <1>9, <2>1
  <2>2. CASE i # next
    <3>1. i \in 1..Len(r.value)
      BY <1>5, <1>6, <2>2
    <3> QED  BY <1>3, <1>6, <1>9, <3>1 DEF ToolsClear
  <2> QED  BY <2>1, <2>2
<1>10. ToolsClear(q)
  BY <1>4, <1>6, <1>9 DEF ToolsClear, GrantClear, ResourceClear
<1>11. HandlerSound(q)
  BY <1>4, <1>10 DEF HandlerSound, HeldPcs
<1>12. Sound(q)
  BY <1>1, <1>2, <1>4, <1>11, CallSound DEF Awaited
<1>13. Goes(c, q)
  OBVIOUS
<1> QED  BY <1>1, <1>4, <1>12, <1>13, CallGoes

\* The next tool of a discovery: who asks is read again.
LEMMA AuthenticateToolStores ==
    ASSUME StoreSafe, NEW c \in Clients, authenticate_tool(c)
    PROVE  StoreSafe' /\ GrantsStand
<1> DEFINE r == req[c]
<1>1. /\ r.op = "mcp.discovery" /\ r.pc = "authorized" /\ r.pc \notin Finished
      /\ r.pc \notin Finished \cup Awaited /\ r.op \in GovernedOps
      /\ ~At(c, "mcp.invoke", "handshake") /\ UNCHANGED mcpvars
  BY DEF authenticate_tool, Calls, At, Finished, Awaited, GovernedOps, MCPRoutes
<1>2. Sound(r) /\ IsRequest(r) /\ HandlerSound(r)
  BY <1>1, CallFacts
<1>a. Len(r.value) < Len(ToolIds)
  BY DEF authenticate_tool
<1>3. CASE Unaudited(c, 401)
  <2> PICK status \in Nat : status = 401
    OBVIOUS
  <2> QED  BY <1>1, <1>3, CallRefused
<1> PICK active : active = (principal[r.who].status = "active")
  BY Zenon
<1>4. CASE Goes(c, [r EXCEPT !.pc = "tool", !.active = active])
  <2> PICK q : q = [r EXCEPT !.pc = "tool", !.active = active]
    OBVIOUS
  <2>1. /\ IsRequest(q) /\ q.n = r.n /\ q.op = r.op /\ q.target = r.target /\ q.value = r.value
        /\ q.cred = r.cred /\ q.seen = r.seen /\ q.barred = r.barred /\ q.pc = "tool"
        /\ q.who = r.who /\ q.grant = r.grant
    BY <1>2 DEF IsRequest, RequestFields
  <2>2. ToolsClear(q)
    BY <1>1, <1>2, <2>1 DEF HandlerSound, ToolsClear, GrantClear, ResourceClear
  <2>3. HandlerSound(q) /\ q.pc \notin Awaited /\ q.pc # "handshake"
    BY <1>1, <1>a, <2>1, <2>2 DEF HandlerSound, HeldPcs, Awaited
  <2>4. Sound(q)
    BY <1>1, <1>2, <2>1, <2>3, CallSound
  <2>5. Goes(c, q)
    BY <1>4
  <2> QED  BY <1>1, <2>1, <2>3, <2>4, <2>5, CallGoes
<1> QED  BY <1>3, <1>4 DEF authenticate_tool

\* The tool is authorized for who that is.
LEMMA AuthorizeToolStores ==
    ASSUME StoreSafe, NEW c \in Clients, authorize_tool(c)
    PROVE  StoreSafe' /\ GrantsStand
<1> DEFINE r == req[c]
           allowing == Allows(c, "mcp.invoke", ToolIds[Len(r.value) + 1])
<1>1. /\ r.op = "mcp.discovery" /\ r.pc = "tool" /\ UNCHANGED mcpvars
      /\ r.op \in GovernedOps /\ r.pc \notin Finished \cup Awaited
  BY DEF authorize_tool, Calls, At, Finished, Awaited, GovernedOps, MCPRoutes
<1>e. HandlerSound(r)
  BY <1>1, CallFacts
<1>a. HandlerSound(r) /\ ToolsClear(r)
  BY <1>1, <1>e DEF HandlerSound
<1>b. Len(r.value) < Len(ToolIds)
  BY <1>1, <1>a DEF HandlerSound
<1>c. Len(r.value) \in Nat /\ Len(ToolIds) \in Nat
  BY <1>a, SurfaceAssumption DEF ToolsClear
<1>d. Len(r.value) + 1 <= Len(ToolIds)
  BY <1>b, <1>c
<1>2. PICK g \in IF allowing = {} THEN {None} ELSE allowing :
            Goes(c, [r EXCEPT !.pc = "authorized", !.value = Append(@, g)])
  BY DEF authorize_tool
<1>3. \A h \in allowing : h \in Grants
  BY DEF Allows, find_active
<1>4. g \in Grants \cup {None} /\ (g # None => g \in allowing)
  BY <1>2, <1>3
<1> QED  BY <1>1, <1>d, <1>2, <1>4, ToolStores

\* The tools that were allowed and are still active are listed.
LEMMA DiscoverStores ==
    ASSUME StoreSafe, NEW c \in Clients, discover(c)
    PROVE  StoreSafe' /\ GrantsStand
<1> DEFINE r == req[c]
           seen == {i \in DOMAIN ToolIds : r.value[i] # None /\ OwnerActive(ToolIds[i])}
<1>1. /\ r.op = "mcp.discovery" /\ r.pc = "authorized" /\ r.pc \notin Finished
      /\ r.pc \notin Finished \cup Awaited /\ r.op \in GovernedOps
      /\ ~At(c, "mcp.invoke", "handshake") /\ UNCHANGED mcpvars
      /\ Len(r.value) = Len(ToolIds)
  BY DEF discover, Calls, At, Finished, Awaited, GovernedOps, MCPRoutes
<1>2. /\ StoreTypes /\ StoreLinks /\ Sound(r) /\ IsRequest(r) /\ HandlerSound(r)
      /\ GrantClear(r, r.grant) /\ ResourceClear(r, r.target)
  BY <1>1, CallFacts
<1>3. ToolsClear(r)
  BY <1>1, <1>2 DEF HandlerSound
<1>4. r.target = Server
  BY <1>1, <1>2, TargetFacts
<1>5. CASE Refuse(c, 403)
  <2> PICK status \in Nat : status = 403
    OBVIOUS
  <2> QED  BY <1>1, <1>5, CallRefused
<1> PICK grants : grants = {r.grant} \cup {r.value[i] : i \in seen}
  OBVIOUS
<1> PICK targets : targets = {Server} \cup {ToolIds[i] : i \in seen}
  OBVIOUS
<1> PICK s : s = Show(c, grants, targets, TRUE)
  OBVIOUS
<1>6. CASE Release(c, 200, {s})
  <2>1. \A i \in seen : i \in 1..Len(r.value) /\ r.value[i] # None
    BY <1>1, SurfaceAssumption
  <2>2. \A i \in seen : GrantClear(r, r.value[i]) /\ ResourceClear(r, ToolIds[i])
    BY <1>3, <2>1 DEF ToolsClear
  <2> HIDE DEF seen
  <2>3. \A g \in grants : GrantClear(r, g)
    BY <1>2, <2>2
  <2>4. \A o \in targets : ResourceClear(r, o)
    BY <1>2, <1>4, <2>2
  <2>5. ShownSound(s)
    BY <1>1, <2>3, <2>4, ShowSound
  <2> QED  BY <1>1, <1>6, <2>5, ShownStores
<1> QED  BY <1>5, <1>6 DEF discover

\* A tool is called while the registry has it and its server active.
LEMMA ReadContractStores ==
    ASSUME StoreSafe, NEW c \in Clients, read_contract(c)
    PROVE  StoreSafe' /\ GrantsStand
<1> DEFINE r == req[c]
<1>1. /\ r.op = "mcp.invoke" /\ r.pc = "authorized" /\ r.pc \notin Finished
      /\ r.pc \notin Finished \cup Awaited /\ r.op \in GovernedOps
      /\ ~At(c, "mcp.invoke", "handshake") /\ UNCHANGED mcpvars
  BY DEF read_contract, Calls, At, Finished, Awaited, GovernedOps, MCPRoutes
<1>2. /\ StoreTypes /\ StoreLinks /\ Sound(r) /\ IsRequest(r) /\ StaysBarred(r)
      /\ GrantClear(r, r.grant) /\ ResourceClear(r, r.target)
  BY <1>1, CallFacts
<1>3. ASSUME NEW status \in {403, 422}, Refuse(c, status) \/ Unaudited(c, status)
      PROVE  StoreSafe' /\ GrantsStand
  <2>1. status \in Nat
    OBVIOUS
  <2> QED  BY <1>1, <1>3, <2>1, CallRefused
<1> PICK grants : grants = {r.grant}
  OBVIOUS
<1> PICK targets : targets = {Server, r.target}
  OBVIOUS
<1> PICK pc \in HeldPcs : pc = "calling"
  BY DEF HeldPcs
<1> PICK s : s = Show(c, grants, targets, TRUE)
  OBVIOUS
<1>4. CASE OwnerActive(Server) /\ Goes(c, [r EXCEPT !.pc = pc, !.value = s])
  <2>1. ResourceClear(r, Server)
    BY <1>2, <1>4, OwnerClear DEF McpIds
  <2>2. /\ \A g \in grants : GrantClear(r, g)
        /\ \A o \in targets : ResourceClear(r, o)
    BY <1>2, <2>1
  <2>3. ShownSound(s)
    BY <1>1, <2>2, ShowSound
  <2> QED  BY <1>1, <1>4, <2>3, KeptStores
<1> QED  BY <1>3, <1>4 DEF read_contract

\* A call that keeps what it was to show goes on.
LEMMA HeldSound ==
    ASSUME StoreSafe, NEW c \in Clients, req[c].op = "mcp.invoke", req[c].pc \in HeldPcs,
           NEW pc \in HeldPcs, NEW q, q = [req[c] EXCEPT !.pc = pc]
    PROVE  /\ IsRequest(q) /\ q.n = req[c].n /\ q.op = req[c].op /\ q.pc = pc /\ Sound(q)
           /\ req[c].pc \notin Finished /\ ShownSound(req[c].value)
<1> DEFINE r == req[c]
<1>1. r.op \in GovernedOps /\ r.pc \notin Finished \cup Awaited
  BY DEF Finished, Awaited, GovernedOps, MCPRoutes, HeldPcs
<1>2. Sound(r) /\ IsRequest(r) /\ HandlerSound(r)
  BY <1>1, CallFacts
<1>3. /\ IsRequest(q) /\ q.n = r.n /\ q.op = r.op /\ q.target = r.target /\ q.value = r.value
      /\ q.cred = r.cred /\ q.seen = r.seen /\ q.barred = r.barred /\ q.pc = pc
      /\ q.who = r.who /\ q.grant = r.grant
  BY <1>2 DEF IsRequest, RequestFields
<1>4. ShownSound(r.value)
  BY <1>2 DEF HandlerSound
<1>5. HandlerSound(q)
  BY <1>3, <1>4 DEF HandlerSound, HeldPcs
<1>6. Sound(q)
  BY <1>1, <1>2, <1>3, <1>5, CallSound DEF Awaited, HeldPcs
<1> QED  BY <1>1, <1>3, <1>4, <1>6

\* The session is looked at before the lock.
LEMMA EnterStores ==
    ASSUME StoreSafe, NEW c \in Clients, enter_initialize(c)
    PROVE  StoreSafe' /\ GrantsStand
<1> PICK pc \in HeldPcs : pc = IF client.initialized THEN "ready" ELSE "waiting"
  BY DEF HeldPcs
<1> PICK q : q = [req[c] EXCEPT !.pc = pc]
  OBVIOUS
<1>1. /\ req[c].op = "mcp.invoke" /\ req[c].pc \in HeldPcs /\ ~At(c, "mcp.invoke", "handshake")
      /\ pc # "handshake" /\ UNCHANGED mcpvars /\ Goes(c, q)
  BY DEF enter_initialize, At, HeldPcs
<1>2. IsRequest(q) /\ q.n = req[c].n /\ q.pc = pc /\ Sound(q) /\ req[c].pc \notin Finished
  BY <1>1, HeldSound
<1> QED  BY <1>1, <1>2, CallGoes

\* Who takes the lock finds the session initialized, or enters the handshake alone.
LEMMA TakeLockStores ==
    ASSUME StoreSafe, NEW c \in Clients, take_lock(c)
    PROVE  StoreSafe' /\ GrantsStand
<1>1. /\ req[c].op = "mcp.invoke" /\ req[c].pc \in HeldPcs /\ ~At(c, "mcp.invoke", "handshake")
      /\ UNCHANGED <<owner, ownerOps, handshakes>> /\ client.lock = None
  BY DEF take_lock, At, HeldPcs
<1>2. ASSUME client.initialized, Goes(c, [req[c] EXCEPT !.pc = "ready"]), UNCHANGED client
      PROVE  StoreSafe' /\ GrantsStand
  <2> PICK pc \in HeldPcs : pc = "ready"
    BY DEF HeldPcs
  <2> PICK q : q = [req[c] EXCEPT !.pc = pc]
    OBVIOUS
  <2>1. IsRequest(q) /\ q.n = req[c].n /\ q.pc = pc /\ Sound(q) /\ req[c].pc \notin Finished
    BY <1>1, HeldSound
  <2>2. Goes(c, q) /\ UNCHANGED mcpvars
    BY <1>1, <1>2 DEF mcpvars
  <2> QED  BY <1>1, <2>1, <2>2, CallGoes
<1>3. ASSUME ~client.initialized, Goes(c, [req[c] EXCEPT !.pc = "handshake"]),
             client' = [client EXCEPT !.lock = c]
      PROVE  StoreSafe' /\ GrantsStand
  <2> PICK pc \in HeldPcs : pc = "handshake"
    BY DEF HeldPcs
  <2> PICK q : q = [req[c] EXCEPT !.pc = pc]
    OBVIOUS
  <2>1. /\ IsRequest(q) /\ q.n = req[c].n /\ q.op = "mcp.invoke" /\ q.pc = "handshake"
        /\ Sound(q) /\ req[c].pc \notin Finished
    BY <1>1, HeldSound
  <2>2. /\ req' = [req EXCEPT ![c] = q]
        /\ UNCHANGED <<principal, credential, grant, resource, publication, owner, effects,
                       sent, served, handshakes>>
    BY <1>1, <1>3 DEF Goes, identity
  <2>3. SessionLocked /\ RequestTypes
    BY DEF StoreSafe
  <2>4. req'[c] = q /\ \A d \in Clients : d # c => req'[d] = req[d]
    BY <2>2, <2>3, RequestMoves
  <2>5. /\ client' \in [initialized : BOOLEAN, lock : Clients \cup {None}]
        /\ client'.lock = c /\ client'.initialized = client.initialized
    BY <1>3, <2>3 DEF SessionLocked
  <2>6. None \notin Clients
    BY SurfaceAssumption
  <2>7. \A d \in Clients : At(d, "mcp.invoke", "handshake")' <=> d = c
    <3>1. \A d \in Clients : d # c =>
             (At(d, "mcp.invoke", "handshake")' <=> At(d, "mcp.invoke", "handshake"))
      BY <2>4 DEF At
    <3>2. At(c, "mcp.invoke", "handshake")'
      BY <2>1, <2>4 DEF At
    <3>3. \A d \in Clients : ~At(d, "mcp.invoke", "handshake")
      BY <1>1, <2>3, <2>6 DEF SessionLocked
    <3> QED  BY <3>1, <3>2, <3>3
  <2>8. /\ handshakes' \in {0, 1}
        /\ client'.initialized <=> handshakes' = 1
        /\ ~client'.initialized
    <3>1. handshakes \in {0, 1} /\ (client.initialized <=> handshakes = 1)
      BY <2>3 DEF SessionLocked
    <3>2. ~client'.initialized
      BY <1>3, <2>5, Zenon
    <3> QED  BY <1>3, <2>2, <3>1, <3>2
  <2>9. SessionLocked'
    BY <2>5, <2>7, <2>8 DEF SessionLocked
  <2> QED  BY <2>1, <2>2, <2>9, GoesStores
<1> QED  BY <1>2, <1>3 DEF take_lock

\* The holder of the lock initializes the session, or fails and leaves it.
LEMMA HandshakeStores ==
    ASSUME StoreSafe, NEW c \in Clients, handshake(c)
    PROVE  StoreSafe' /\ GrantsStand
<1>1. /\ req[c].op = "mcp.invoke" /\ req[c].pc \in HeldPcs /\ At(c, "mcp.invoke", "handshake")
      /\ UNCHANGED <<owner, ownerOps>> /\ req[c].pc \notin Finished
  BY DEF handshake, At, HeldPcs, Finished
<1>2. SessionLocked /\ RequestTypes
  BY DEF StoreSafe
<1>3. client.lock = c
  BY <1>1, <1>2 DEF SessionLocked
<1>4. ASSUME client' = [initialized |-> TRUE, lock |-> None], handshakes' = handshakes + 1,
             Goes(c, [req[c] EXCEPT !.pc = "ready"])
      PROVE  StoreSafe' /\ GrantsStand
  <2> PICK pc \in HeldPcs : pc = "ready"
    BY DEF HeldPcs
  <2> PICK q : q = [req[c] EXCEPT !.pc = pc]
    OBVIOUS
  <2>1. IsRequest(q) /\ q.n = req[c].n /\ q.pc = "ready" /\ Sound(q)
    BY <1>1, HeldSound
  <2>2. /\ req' = [req EXCEPT ![c] = q]
        /\ UNCHANGED <<principal, credential, grant, resource, publication, owner, effects,
                       sent, served>>
    BY <1>1, <1>4 DEF Goes, identity
  <2>3. req'[c] = q /\ \A d \in Clients : d # c => req'[d] = req[d]
    BY <1>2, <2>2, RequestMoves
  <2>4. None \notin Clients
    BY SurfaceAssumption
  <2>5. \A d \in Clients : ~At(d, "mcp.invoke", "handshake")'
    <3>1. \A d \in Clients : d # c =>
             (At(d, "mcp.invoke", "handshake")' <=> At(d, "mcp.invoke", "handshake"))
      BY <2>3 DEF At
    <3>2. ~At(c, "mcp.invoke", "handshake")'
      BY <2>1, <2>3 DEF At
    <3>3. \A d \in Clients : d # c => ~At(d, "mcp.invoke", "handshake")
      BY <1>2, <1>3 DEF SessionLocked
    <3> QED  BY <3>1, <3>2, <3>3
  <2>6. handshakes' = 1
    BY <1>1, <1>2, <1>4 DEF SessionLocked
  <2>7. /\ client'.initialized /\ client'.lock = None
        /\ client' \in [initialized : BOOLEAN, lock : Clients \cup {None}]
    BY <1>4
  <2>8. SessionLocked'
    BY <2>4, <2>5, <2>6, <2>7 DEF SessionLocked
  <2> QED  BY <1>1, <2>1, <2>2, <2>8, GoesStores
<1>5. ASSUME client' = [client EXCEPT !.lock = None], handshakes' = handshakes,
             NEW status \in {502, 503, 504}, Refuse(c, status)
      PROVE  StoreSafe' /\ GrantsStand
  <2>1. status \in Nat /\ UNCHANGED <<owner, handshakes>>
    BY <1>1, <1>5
  <2>2. client' = [client EXCEPT !.lock = IF client.lock = c THEN None ELSE client.lock]
    BY <1>3, <1>5
  <2> QED  BY <1>1, <1>5, <2>1, <2>2, RefuseStores
<1> QED  BY <1>4, <1>5 DEF handshake

\* The tool answers, or fails.
LEMMA CallToolStores ==
    ASSUME StoreSafe, NEW c \in Clients, call_tool(c)
    PROVE  StoreSafe' /\ GrantsStand
<1> PICK pc \in HeldPcs : pc = "ready"
  BY DEF HeldPcs
<1> PICK q : q = [req[c] EXCEPT !.pc = pc]
  OBVIOUS
<1>1. /\ req[c].op = "mcp.invoke" /\ req[c].pc \in HeldPcs /\ ~At(c, "mcp.invoke", "handshake")
      /\ UNCHANGED mcpvars
  BY DEF call_tool, Calls, At, HeldPcs
<1>2. req[c].pc \notin Finished /\ ShownSound(req[c].value)
  BY <1>1, HeldSound
<1> PICK s : s = req[c].value
  OBVIOUS
<1>3. CASE Release(c, 200, {s})
  BY <1>1, <1>2, <1>3, ShownStores
<1>4. ASSUME NEW status \in {502, 503, 504}, Refuse(c, status)
      PROVE  StoreSafe' /\ GrantsStand
  <2>1. status \in Nat
    OBVIOUS
  <2> QED  BY <1>1, <1>2, <1>4, <2>1, CallRefused
<1> QED  BY <1>3, <1>4 DEF call_tool

\* A call that waits is ended.
LEMMA TimeOutStores ==
    ASSUME StoreSafe, NEW c \in Clients, time_out(c)
    PROVE  StoreSafe' /\ GrantsStand
<1> PICK status \in Nat : status = 504
  OBVIOUS
<1>1. /\ req[c].pc \notin Finished /\ Refuse(c, status) /\ UNCHANGED <<owner, handshakes>>
      /\ client' = [client EXCEPT !.lock = IF client.lock = c THEN None ELSE client.lock]
  BY DEF time_out, Finished
<1> QED  BY <1>1, RefuseStores

\* A request is lost with the connection.
LEMMA LoseCallStores ==
    ASSUME StoreSafe, NEW c \in Clients, lose_call(c)
    PROVE  StoreSafe' /\ GrantsStand
<1> PICK q : q = NoRequest
  OBVIOUS
<1> PICK lock : lock = IF client.lock = c THEN None ELSE client.lock
  OBVIOUS
<1>1. /\ req[c].pc \notin Finished /\ req' = [req EXCEPT ![c] = q]
      /\ UNCHANGED <<principal, credential, grant, resource, publication, owner, effects,
                     sent, served>>
      /\ handshakes' = handshakes /\ client' = [client EXCEPT !.lock = lock]
  BY DEF lose_call, Lose, identity
<1>2. IsRequest(q) /\ q.n = 0 /\ q.pc \in Finished
  BY NoRequestFacts DEF Finished
<1>3. Sound(q) /\ ~(q.op = "mcp.invoke" /\ q.pc = "handshake")
  BY <1>2, OverSound
<1>4. SessionLocked'
  BY <1>1, <1>3, SessionLeft
<1>5. Inhabited
  BY <1>1, SomebodyAsks
<1>6. q.n \in 0..sent' /\ sent' \in Nat /\ sent <= sent' /\ \A s \in served' : ShownSound(s)
  <2>1. sent \in Nat
    BY DEF StoreSafe, RequestTypes
  <2> QED  BY <1>1, <1>2, <2>1 DEF StoreSafe
<1> QED  BY <1>1, <1>2, <1>3, <1>4, <1>5, <1>6, MoveKeeps

\* Every step of a governed operation.
LEMMA GovernedStores ==
    ASSUME StoreSafe, NEW c \in Clients, GovernedStep(c)
    PROVE  StoreSafe' /\ GrantsStand
<1>1. CASE RefusePath(c) \/ StorageFails(c) \/ RefuseQuery(c)
  BY <1>1, RefusePathStores
<1>2. CASE authenticate_call(c) \/ authorize_governed_access(c)
  BY <1>2, AuthenticateCallStores, AuthorizeCallStores
<1>3. CASE read_skill(c) \/ authorize_dependency(c) \/ resolve(c)
  BY <1>3, ReadSkillStores, DependencyStores, ResolveStores
<1>4. CASE \/ lock_current_authority(c) \/ lock_active_version(c) \/ content_query(c)
           \/ release_content(c)
  BY <1>4, LockStores, ContentStores, ReleaseContentStores
<1>5. CASE authenticate_tool(c) \/ authorize_tool(c) \/ discover(c) \/ read_contract(c)
  BY <1>5, AuthenticateToolStores, AuthorizeToolStores, DiscoverStores, ReadContractStores
<1>6. CASE enter_initialize(c) \/ take_lock(c) \/ handshake(c)
  BY <1>6, EnterStores, TakeLockStores, HandshakeStores
<1>7. CASE call_tool(c) \/ time_out(c) \/ lose_call(c)
  BY <1>7, CallToolStores, TimeOutStores, LoseCallStores
<1> QED  BY <1>1, <1>2, <1>3, <1>4, <1>5, <1>6, <1>7 DEF GovernedStep

-----------------------------------------------------------------------------
(* The whole store: administration, the registry and the seeds *)

\* Every step of an administrative operation.
LEMMA AdminStores ==
    ASSUME StoreSafe, NEW c \in Clients, AdminStep(c)
    PROVE  StoreSafe' /\ GrantsStand
<1>1. CASE CatalogStep(c)
  BY <1>1, CatalogStores DEF AdminStep, Aside
<1>2. ASSUME UNCHANGED publication,
             \/ Submit(c) \/ RefuseMalformed(c) \/ Authenticate(c) \/ Authorize(c)
             \/ Finish(c) \/ CheckGrant(c) \/ create_grant(c) \/ revoke_grant(c)
             \/ revoke_credential(c) \/ replace_principal_status(c)
      PROVE  StoreSafe' /\ GrantsStand
  <2>1. Unserved
    BY <1>2 DEF AdminStep, Unserved
  <2>2. CASE Submit(c) \/ RefuseMalformed(c) \/ Authenticate(c) \/ Authorize(c) \/ Finish(c)
    BY <2>1, <2>2, SubmitStores, RefuseMalformedStores, AuthenticateStores, AuthorizeStores,
       FinishStores
  <2>3. CASE \/ CheckGrant(c) \/ create_grant(c) \/ revoke_grant(c) \/ revoke_credential(c)
             \/ replace_principal_status(c)
    BY <2>1, <2>3, CheckGrantStores, CreateGrantStores, RevokeGrantStores, RevokeKeyStores,
       ReplaceStatusStores
  <2> QED  BY <1>2, <2>2, <2>3
<1> QED  BY <1>1, <1>2 DEF AdminStep

\* Who is in the store, and who is not.
LEMMA SeededStays ==
    ASSUME StoreSafe, UNCHANGED <<principal, credential, grant, req>>
    PROVE  Seeded'
BY DEF StoreSafe, Seeded, Inhabited

\* Nothing moves that the store is made of.
LEMMA NothingMoves ==
    ASSUME StoreSafe,
           UNCHANGED <<principal, credential, grant, resource, publication, owner, req, sent,
                       effects, client, served, handshakes>>
    PROVE  StoreSafe' /\ GrantsStand
<1>1. StoreTypes' /\ StoreLinks' /\ StoreGrows
  BY StoreStays DEF StoreSafe
<1>2. Seeded'
  BY SeededStays
<1>3. GrantsStand
  BY DEF GrantsStand
<1> QED  BY <1>1, <1>2, <1>3, RowsKeep

\* A row of the registry, new or later than the one it replaces.
LaterRow(id, row) ==
    \/ row = owner[id]
    \/ /\ row \in OwnerRow
       /\ owner[id] # None => owner[id].stamp < row.stamp

\* A row under another stamp.
LEMMA StampedFacts ==
    ASSUME NEW row \in ResourceRow, NEW stamp \in Nat, NEW new, new = [row EXCEPT !.stamp = stamp]
    PROVE  /\ new \in ResourceRow /\ new.type = row.type /\ new.owner = row.owner
           /\ new.status = row.status /\ new.content = row.content /\ new.stamp = stamp
BY DEF ResourceRow

\* The registry writes its rows and their projection.
LEMMA RegistryStores ==
    ASSUME StoreSafe, NEW rows \in [McpIds -> OwnerRow \cup {None}], Registry(rows),
           \A id \in McpIds : LaterRow(id, rows[id])
    PROVE  StoreSafe' /\ GrantsStand
<1>1. /\ owner' = rows /\ project_mcp(rows)
      /\ UNCHANGED <<principal, credential, grant, publication, req, sent, effects, client,
                     served, handshakes>>
  BY DEF Registry, identity
<1>2. StoreTypes /\ StoreLinks
  BY DEF StoreSafe
<1>3. Seeded' /\ GrantsStand
  BY <1>1, SeededStays DEF GrantsStand
<1>4. /\ \A id \in McpIds : /\ id \in Resources /\ TypeOf[id] \in {"mcp_server", "mcp_tool"}
                            /\ TypeOf[id] = IF id = Server THEN "mcp_server" ELSE "mcp_tool"
                            /\ TypeOf[id] \notin Versioned /\ TypeOf[id] # "llm_model"
      /\ DOMAIN rows = McpIds
  BY SurfaceAssumption DEF McpIds, Tools, Versioned
<1>5. \A o \in Resources : o \notin McpIds \/ rows[o] = owner[o] => resource'[o] = resource[o]
  BY <1>1, <1>4 DEF project_mcp
<1> DEFINE Projected(id) == [Row(IF id = Server THEN "mcp_server" ELSE "mcp_tool", Server,
                                rows[id].status, None, FALSE) EXCEPT !.stamp = rows[id].stamp]
<1>6. \A id \in McpIds : rows[id] # owner[id] => resource'[id] = Projected(id)
  BY <1>1, <1>4 DEF project_mcp
<1>7. ASSUME NEW id \in McpIds, rows[id] # owner[id]
      PROVE  /\ resource'[id] \in ResourceRow /\ resource'[id] # None
             /\ resource'[id].type = TypeOf[id] /\ resource'[id].status = rows[id].status
             /\ resource'[id].stamp = rows[id].stamp
             /\ owner[id] # None => owner[id].stamp < rows[id].stamp
             /\ rows[id] # None
  <2>1. rows[id] \in OwnerRow /\ (owner[id] # None => owner[id].stamp < rows[id].stamp)
    BY <1>7 DEF LaterRow
  <2>2. rows[id] # None /\ rows[id].status \in {"active", "inactive"} /\ rows[id].stamp \in Nat
    BY <2>1, SurfaceAssumption DEF OwnerRow
  <2>3. /\ TypeOf[id] \in ResourceTypes /\ Server \in Resources /\ None \in Documents
        /\ rows[id].status \in ResourceStatuses
    BY <1>4, <2>2, SurfaceAssumption, CatalogAssumption DEF ResourceTypes, ResourceStatuses
  <2> PICK row : row = Row(TypeOf[id], Server, rows[id].status, None, FALSE)
    OBVIOUS
  <2> PICK stamp \in Nat : stamp = rows[id].stamp
    BY <2>2
  <2>4. row \in ResourceRow /\ row.type = TypeOf[id] /\ row.status = rows[id].status
    BY <2>3 DEF Row, ResourceRow
  <2>5. /\ resource'[id] = [row EXCEPT !.stamp = stamp]
        /\ resource'[id] \in ResourceRow /\ resource'[id].type = row.type
        /\ resource'[id].status = row.status /\ resource'[id].stamp = stamp
    <3>1. resource'[id] = [row EXCEPT !.stamp = stamp]
      BY <1>4, <1>6, <1>7
    <3> QED  BY <2>4, <3>1 DEF ResourceRow
  <2>6. resource'[id] # None
    BY <2>5, CatalogAssumption
  <2> QED  BY <2>1, <2>2, <2>4, <2>5, <2>6
<1>8. DOMAIN resource' = Resources /\ resource' = [o \in Resources |-> resource'[o]]
  BY <1>1 DEF project_mcp
<1> HIDE DEF Projected
<1>9. StoreTypes'
  <2>1. \A o \in Resources : resource'[o] \in ResourceRow \cup {None}
    BY <1>2, <1>5, <1>7 DEF StoreTypes
  <2>2. resource' \in [Resources -> ResourceRow \cup {None}]
    BY <1>8, <2>1
  <2> QED  BY <1>1, <1>2, <2>2 DEF StoreTypes
<1>10. ASSUME NEW id \in McpIds
       PROVE  /\ owner'[id] = None => resource'[id] = None
              /\ owner'[id] # None => /\ resource'[id] # None
                                      /\ resource'[id].status = owner'[id].status
                                      /\ resource'[id].stamp = owner'[id].stamp
  <2>1. CASE rows[id] = owner[id]
    BY <1>1, <1>2, <1>4, <1>5, <2>1 DEF StoreLinks
  <2>2. CASE rows[id] # owner[id]
    BY <1>1, <1>7, <2>2
  <2> QED  BY <2>1, <2>2
<1>11. ASSUME NEW o \in Resources, resource'[o] # None
       PROVE  /\ resource'[o].type = TypeOf[o]
              /\ TypeOf[o] = "llm_model" => resource'[o].content \in Assignments
  <2>1. CASE o \in McpIds /\ rows[o] # owner[o]
    BY <1>4, <1>7, <2>1
  <2>2. CASE ~(o \in McpIds /\ rows[o] # owner[o])
    BY <1>2, <1>5, <1>11, <2>2 DEF StoreLinks
  <2> QED  BY <2>1, <2>2
<1>12. StoreLinks'
  BY <1>1, <1>2, <1>10, <1>11 DEF StoreLinks
<1>13. ASSUME NEW o \in Resources, resource[o] # None
       PROVE  /\ resource'[o] # None /\ resource[o].stamp <= resource'[o].stamp
              /\ resource'[o].stamp = resource[o].stamp => resource'[o].status = resource[o].status
              /\ TypeOf[o] \in Versioned => resource'[o] = resource[o]
  <2>1. resource[o].stamp \in Nat
    BY <1>2, <1>13, StampFacts
  <2>2. CASE o \in McpIds /\ rows[o] # owner[o]
    <3>1. owner[o] # None /\ resource[o].stamp = owner[o].stamp
      BY <1>2, <1>13, <2>2 DEF StoreLinks
    <3>2. resource'[o].stamp = rows[o].stamp /\ owner[o].stamp < rows[o].stamp
      BY <1>7, <2>2, <3>1
    <3>3. rows[o].stamp \in Nat
      BY <1>7, <2>2, SurfaceAssumption DEF OwnerRow
    <3> QED  BY <1>4, <1>7, <2>1, <2>2, <3>1, <3>2, <3>3
  <2>3. CASE ~(o \in McpIds /\ rows[o] # owner[o])
    BY <1>5, <1>13, <2>1, <2>3
  <2> QED  BY <2>2, <2>3
<1>14. \A o \in Resources : publication[o] # None => TypeOf[o] \in Versioned
  BY <1>2 DEF StoreLinks
<1>15. \A p \in Principals : principal[p] # None => principal[p].stamp \in Nat
  BY <1>2, StampFacts
<1>16. StoreGrows
  BY <1>1, <1>13, <1>14, <1>15 DEF StoreGrows
<1> QED  BY <1>1, <1>3, <1>9, <1>12, <1>16, RowsKeep

\* A row that the registry changes gets a later stamp.
LEMMA ChangedRow ==
    ASSUME StoreTypes, NEW id \in McpIds, owner[id] # None, NEW status \in {"active", "inactive"}
    PROVE  Changed(id, status) \in OwnerRow /\ LaterRow(id, Changed(id, status))
<1>1. owner[id] \in OwnerRow
  BY DEF StoreTypes
<1>2. owner[id].stamp \in Nat
  BY <1>1 DEF OwnerRow
<1> QED  BY <1>2 DEF Changed, LaterRow, OwnerRow

\* One row of the registry is written.
LEMMA OneRow ==
    ASSUME StoreSafe, NEW id \in McpIds, NEW row \in OwnerRow, LaterRow(id, row),
           Registry([owner EXCEPT ![id] = row])
    PROVE  StoreSafe' /\ GrantsStand
<1> PICK rows : rows = [owner EXCEPT ![id] = row]
  OBVIOUS
<1>1. owner \in [McpIds -> OwnerRow \cup {None}]
  BY DEF StoreSafe, StoreTypes
<1>2. /\ rows \in [McpIds -> OwnerRow \cup {None}] /\ rows[id] = row
      /\ \A i \in McpIds : i # id => rows[i] = owner[i]
  BY <1>1
<1>3. \A i \in McpIds : LaterRow(i, rows[i])
  BY <1>2 DEF LaterRow
<1> QED  BY <1>2, <1>3, RegistryStores

\* Every operation of the registry.
LEMMA OwnerStores ==
    ASSUME StoreSafe, OwnerStep
    PROVE  StoreSafe' /\ GrantsStand
<1>1. StoreTypes /\ owner \in [McpIds -> OwnerRow \cup {None}] /\ Server \in McpIds
      /\ Tools \subseteq McpIds
  BY DEF StoreSafe, StoreTypes, McpIds
<1>2. ASSUME NEW id \in DOMAIN owner, register(id) PROVE StoreSafe' /\ GrantsStand
  <2> PICK row : row = [status |-> "active", stamp |-> 1]
    OBVIOUS
  <2>1. /\ id \in McpIds /\ row \in OwnerRow /\ LaterRow(id, row)
        /\ Registry([owner EXCEPT ![id] = row])
    BY <1>1, <1>2 DEF register, LaterRow, OwnerRow
  <2> QED  BY <2>1, OneRow
<1>3. ASSUME NEW id \in McpIds, owner[id] # None, NEW status \in {"active", "inactive"},
             Registry([owner EXCEPT ![id] = Changed(id, status)])
      PROVE  StoreSafe' /\ GrantsStand
  <2> PICK row : row = Changed(id, status)
    OBVIOUS
  <2>1. row \in OwnerRow /\ LaterRow(id, row)
    BY <1>1, <1>3, ChangedRow
  <2> QED  BY <1>3, <2>1, OneRow
<1>4. ASSUME deactivate_server PROVE StoreSafe' /\ GrantsStand
  <2> PICK status \in {"active", "inactive"} : status = "inactive"
    OBVIOUS
  <2> PICK rows : rows = [id \in DOMAIN owner |->
                             IF owner[id] = None THEN None ELSE Changed(id, status)]
    OBVIOUS
  <2>1. \A id \in McpIds :
           /\ owner[id] = None => rows[id] = None
           /\ owner[id] # None => /\ rows[id] = Changed(id, status)
                                  /\ rows[id] \in OwnerRow /\ LaterRow(id, rows[id])
    BY <1>1, ChangedRow
  <2>2. rows \in [McpIds -> OwnerRow \cup {None}]
    BY <1>1, <2>1
  <2>3. \A id \in McpIds : LaterRow(id, rows[id])
    BY <2>1 DEF LaterRow
  <2>4. Registry(rows)
    BY <1>4 DEF deactivate_server
  <2> QED  BY <2>2, <2>3, <2>4, RegistryStores
<1> QED  BY <1>1, <1>2, <1>3, <1>4 DEF OwnerStep, update_server, update_tool

\* A restored grant takes an id that no row has.
LEMMA RestoredFree ==
    ASSUME NEW g, Restorable(g)
    PROVE  grant[RestoredAs(g)] = None
<1> DEFINE ids == restored_grant_id[g]
           i == CHOOSE i \in DOMAIN ids : FirstFree(g, i)
<1>1. i \in DOMAIN ids /\ FirstFree(g, i)
  BY DEF Restorable
<1> QED  BY <1>1 DEF FirstFree, RestoredAs

\* What the seeds write: the grants they insert and the ones they restore.
LEMMA RestoredRows ==
    ASSUME StoreTypes, NEW seeds, SeedsAuthorities(seeds), GrantsAgree(seeds),
           \A g \in Lapsed(seeds) : Restorable(g), grant' = restore_grants(seeds),
           NEW g \in Grants, grant'[g] # grant[g]
    PROVE  /\ grant[g] = None
           /\ \/ \E h \in Lapsed(seeds) : g = RestoredAs(h) /\ grant'[g] = GrantOf(seeds[h])
              \/ g \in DOMAIN seeds /\ grant'[g] = GrantOf(seeds[g])
<1> DEFINE lapsed == Lapsed(seeds)
<1>1. CASE \E h \in lapsed : g = RestoredAs(h)
  <2> DEFINE h == CHOOSE h \in lapsed : g = RestoredAs(h)
  <2>1. h \in lapsed /\ g = RestoredAs(h)
    BY <1>1
  <2>2. grant'[g] = GrantOf(Authority(h))
    BY <1>1 DEF restore_grants
  <2> HIDE DEF h
  <2>3. grant[g] = None
    BY <2>1, RestoredFree
  <2>4. Authority(h) = seeds[h]
    BY <2>1 DEF Lapsed, GrantsAgree, Present
  <2> QED  BY <2>1, <2>2, <2>3, <2>4
<1>2. CASE ~\E h \in lapsed : g = RestoredAs(h)
  BY <1>2 DEF restore_grants
<1> QED  BY <1>1, <1>2

\* The authority of a seed that is written is active in no row.
LEMMA NobodyHolds ==
    ASSUME StoreTypes, NEW seeds, SeedsAuthorities(seeds), GrantsAgree(seeds), ~GrantsCollide(seeds),
           NEW s \in DOMAIN seeds, s \in Lapsed(seeds) \/ grant[s] = None,
           NEW h \in Grants, grant[h] # None, grant[h].status = "active"
    PROVE  <<grant[h].principal, grant[h].action, grant[h].resource>> # seeds[s]
<1> SUFFICES ASSUME <<grant[h].principal, grant[h].action, grant[h].resource>> = seeds[s]
             PROVE  FALSE
  OBVIOUS
<1>1. /\ grant[h].principal = seeds[s][1] /\ grant[h].action = seeds[s][2]
      /\ grant[h].resource = seeds[s][3]
  OBVIOUS
<1>2. h \in find_active(seeds[s][1], seeds[s][2], seeds[s][3])
  BY <1>1 DEF find_active
<1>3. CASE grant[s] = None
  BY <1>2, <1>3 DEF GrantsCollide
<1>4. CASE s \in Lapsed(seeds)
  <2>1. grant[s] # None /\ ~Held(s)
    BY <1>4 DEF Lapsed
  <2>2. <<grant[s].principal, grant[s].action, grant[s].resource>> = seeds[s]
    BY <2>1 DEF GrantsAgree, Present, Authority
  <2>3. h \in find_active(grant[s].principal, grant[s].action, grant[s].resource)
    BY <1>2, <2>2
  <2> QED  BY <2>1, <2>3 DEF Held
<1> QED  BY <1>3, <1>4

\* The seeds write active grants in rows of their own, each of an authority that nobody has.
LEMMA RestoreStands ==
    ASSUME StoreTypes, NEW seeds, SeedsAuthorities(seeds), GrantsAgree(seeds), ~GrantsCollide(seeds),
           \A g \in Lapsed(seeds) : Restorable(g), grant' = restore_grants(seeds)
    PROVE  /\ grant' \in [Grants -> GrantRow \cup {None}]
           /\ \A g \in Grants : grant[g] # None => grant'[g] = grant[g]
           /\ GrantsStand
<1> DEFINE Writes(g, s) ==
               /\ s \in DOMAIN seeds /\ grant'[g] = GrantOf(seeds[s])
               /\ \/ s \in Lapsed(seeds) /\ g = RestoredAs(s)
                  \/ grant[s] = None /\ g = s
<1>1. ASSUME NEW g \in Grants, grant'[g] # grant[g]
      PROVE  grant[g] = None /\ \E s : Writes(g, s)
  <2>1. Lapsed(seeds) \subseteq DOMAIN seeds
    BY DEF Lapsed
  <2>2. /\ grant[g] = None
        /\ \/ \E h \in Lapsed(seeds) : g = RestoredAs(h) /\ grant'[g] = GrantOf(seeds[h])
           \/ g \in DOMAIN seeds /\ grant'[g] = GrantOf(seeds[g])
    BY <1>1, RestoredRows
  <2> QED  BY <2>1, <2>2
<1>2. \A s \in DOMAIN seeds :
         /\ GrantOf(seeds[s]) \in GrantRow /\ GrantOf(seeds[s]) # None
         /\ GrantOf(seeds[s]).status = "active"
         /\ GrantOf(seeds[s]).principal = seeds[s][1] /\ GrantOf(seeds[s]).action = seeds[s][2]
         /\ GrantOf(seeds[s]).resource = seeds[s][3]
         /\ seeds[s] = <<seeds[s][1], seeds[s][2], seeds[s][3]>>
  <2>1. \A s \in DOMAIN seeds : seeds[s] \in Principals \X STRING \X Resources
    BY DEF SeedsAuthorities
  <2>2. \A s \in DOMAIN seeds : GrantOf(seeds[s]) \in GrantRow
    BY <2>1 DEF GrantOf, GrantRow
  <2>3. None \notin GrantRow
    BY SeedsAssumption
  <2> QED  BY <2>1, <2>2, <2>3 DEF GrantOf
<1>3. grant' = [g \in Grants |-> grant'[g]]
  BY DEF restore_grants
<1>4. \A g \in Grants : grant'[g] \in GrantRow \cup {None}
  <2> TAKE g \in Grants
  <2>1. CASE grant'[g] # grant[g]
    BY <1>1, <1>2, <2>1
  <2>2. CASE grant'[g] = grant[g]
    BY <2>2 DEF StoreTypes
  <2> QED  BY <2>1, <2>2
<1>5. grant' \in [Grants -> GrantRow \cup {None}]
  BY <1>3, <1>4
<1>6. ASSUME NEW g \in Grants, grant'[g] # grant[g],
             NEW h \in Grants \ {g}, grant'[h] # None, grant'[h].status = "active"
      PROVE  grant'[h] # grant'[g]
  <2>1. PICK s : Writes(g, s)
    BY <1>1, <1>6
  <2>2. /\ s \in DOMAIN seeds /\ grant'[g] = GrantOf(seeds[s])
        /\ s \in Lapsed(seeds) \/ grant[s] = None
    BY <2>1
  <2>3. CASE grant'[h] = grant[h]
    <3>1. <<grant[h].principal, grant[h].action, grant[h].resource>> # seeds[s]
      BY <1>6, <2>2, <2>3, NobodyHolds
    <3> QED  BY <1>2, <2>2, <2>3, <3>1
  <2>4. CASE grant'[h] # grant[h]
    <3>1. PICK t : Writes(h, t)
      BY <1>1, <2>4
    <3>2. s # t
      <4>1. Lapsed(seeds) \subseteq {x \in DOMAIN seeds : grant[x] # None}
        BY DEF Lapsed
      <4> QED  BY <1>6, <2>1, <3>1, <4>1
    <3>3. seeds[s] # seeds[t]
      BY <2>1, <3>1, <3>2 DEF SeedsAuthorities
    <3> QED  BY <1>2, <2>1, <3>1, <3>3
  <2> QED  BY <2>3, <2>4
<1>7. ASSUME NEW g \in Grants, grant'[g] # grant[g] PROVE grant[g] = None /\ grant'[g] # None
  BY <1>1, <1>2, <1>7
<1>8. GrantsStand
  BY <1>6, <1>7 DEF GrantsStand
<1> QED  BY <1>5, <1>7, <1>8

\* A route and an administrative resource as the seeds insert them.
LEMMA SeedRows ==
    /\ \A alias \in DOMAIN SeedRoute :
         /\ alias \in Resources /\ TypeOf[alias] = "llm_model"
         /\ _resource_values(alias) \in ResourceRow
         /\ _resource_values(alias).type = "llm_model"
         /\ _resource_values(alias).content \in Assignments
    /\ \A r \in ADMIN_RESOURCES : r \in Resources /\ TypeOf[r] = "administrative_control"
    /\ AdminResource \in ResourceRow /\ AdminResource.type = "administrative_control"
<1>1. /\ \A alias \in DOMAIN SeedRoute :
           alias \in Resources /\ TypeOf[alias] = "llm_model" /\ SeedRoute[alias] \in Assignments
      /\ \A r \in ADMIN_RESOURCES : r \in Resources /\ TypeOf[r] = "administrative_control"
  BY GraphAssumption
<1>2. "llm_model" \in ResourceTypes /\ "administrative_control" \in ResourceTypes
      /\ "active" \in ResourceStatuses /\ None \in Documents
  BY CatalogAssumption DEF ResourceTypes, ResourceStatuses
<1>3. \A alias \in DOMAIN SeedRoute :
         /\ _resource_values(alias) \in ResourceRow
         /\ _resource_values(alias).type = "llm_model"
         /\ _resource_values(alias).content = SeedRoute[alias]
  BY <1>1, <1>2 DEF _resource_values, Row, ResourceRow
<1>4. AdminResource \in ResourceRow /\ AdminResource.type = "administrative_control"
  BY <1>2 DEF AdminResource, Row, ResourceRow
<1> QED  BY <1>1, <1>3, <1>4

\* The seeds insert the rows that are missing and write over the routes alone.
LEMMA ConvergedRows ==
    ASSUME StoreTypes, StoreLinks, NEW reconcile \in BOOLEAN, resource' = Converged(reconcile)
    PROVE  /\ resource' \in [Resources -> ResourceRow \cup {None}]
           /\ \A o \in Resources : resource'[o] # None =>
                 /\ resource'[o].type = TypeOf[o]
                 /\ TypeOf[o] = "llm_model" => resource'[o].content \in Assignments
           /\ \A o \in Resources : resource[o] # None =>
                 resource'[o] # None /\ resource'[o].stamp = resource[o].stamp
           /\ \A o \in Resources : resource[o] # None /\ o \notin DOMAIN SeedRoute =>
                 resource'[o] = resource[o]
           /\ \A o \in McpIds : resource'[o] = resource[o]
<1>1. /\ DOMAIN resource' = Resources
      /\ resource' = [o \in Resources |-> resource'[o]]
  BY DEF Converged
<1>2. ASSUME NEW o \in DOMAIN SeedRoute
      PROVE  /\ o \in Resources /\ resource'[o] \in ResourceRow \cup {None}
             /\ resource'[o].type = "llm_model" /\ resource'[o].content \in Assignments
             /\ resource[o] # None =>
                   resource'[o] # None /\ resource'[o].stamp = resource[o].stamp
  <2> PICK row : row = _resource_values(o)
    OBVIOUS
  <2>1. /\ o \in Resources /\ TypeOf[o] = "llm_model" /\ row \in ResourceRow
        /\ row.type = "llm_model" /\ row.content \in Assignments
    BY SeedRows
  <2>2. None \notin ResourceRow
    BY CatalogAssumption
  <2>3. CASE resource[o] = None
    BY <2>1, <2>3 DEF Converged
  <2>4. CASE resource[o] # None /\ ~reconcile
    BY <2>1, <2>4 DEF Converged, StoreTypes, StoreLinks
  <2>5. CASE resource[o] # None /\ reconcile
    <3>1. resource'[o] = [row EXCEPT !.stamp = resource[o].stamp]
      BY <2>1, <2>5 DEF Converged
    <3>2. resource[o].stamp \in Nat
      BY <2>1, <2>5, StampFacts
    <3> QED  BY <2>1, <2>2, <3>1, <3>2 DEF ResourceRow
  <2> QED  BY <2>3, <2>4, <2>5
<1>3. ASSUME NEW o \in Resources, o \notin DOMAIN SeedRoute
      PROVE  /\ resource[o] # None => resource'[o] = resource[o]
             /\ \/ resource'[o] = resource[o]
                \/ o \in ADMIN_RESOURCES /\ resource'[o] = AdminResource
  BY <1>3 DEF Converged
<1>4. ASSUME NEW o \in McpIds PROVE resource'[o] = resource[o]
  <2>1. /\ o \in Resources /\ TypeOf[o] # "llm_model" /\ TypeOf[o] # "administrative_control"
    BY SurfaceAssumption DEF McpIds, Tools
  <2>2. o \notin DOMAIN SeedRoute /\ o \notin ADMIN_RESOURCES
    BY <2>1, SeedRows
  <2> QED  BY <1>3, <2>1, <2>2
<1>5. \A o \in Resources : resource'[o] \in ResourceRow \cup {None}
  BY <1>2, <1>3, SeedRows DEF StoreTypes
<1>6. ASSUME NEW o \in Resources, resource'[o] # None
      PROVE  /\ resource'[o].type = TypeOf[o]
             /\ TypeOf[o] = "llm_model" => resource'[o].content \in Assignments
  <2>1. CASE o \in DOMAIN SeedRoute
    BY <1>2, <2>1, SeedRows
  <2>2. CASE o \notin DOMAIN SeedRoute /\ resource'[o] = resource[o]
    BY <1>6, <2>2 DEF StoreLinks
  <2>3. CASE o \in ADMIN_RESOURCES /\ resource'[o] = AdminResource
    BY <2>3, SeedRows
  <2> QED  BY <1>3, <2>1, <2>2, <2>3
<1>7. resource' \in [Resources -> ResourceRow \cup {None}]
  BY <1>1, <1>5
<1> QED  BY <1>2, <1>3, <1>4, <1>6, <1>7

\* Nothing that the seeds or the demo leave takes the store back.
LEMMA SeedGrows ==
    ASSUME StoreTypes, StoreLinks,
           \A k \in Credentials : credential[k] # None => credential'[k] = credential[k],
           \A g \in Grants : grant[g] # None => grant'[g] = grant[g],
           \A p \in Principals : principal[p] # None => principal'[p] = principal[p],
           \A o \in Resources : resource[o] # None =>
              /\ resource'[o] # None /\ resource'[o].stamp = resource[o].stamp
              /\ o \notin DOMAIN SeedRoute => resource'[o].status = resource[o].status
              /\ TypeOf[o] \in Versioned => resource'[o] = resource[o],
           publication' = publication
    PROVE  StoreGrows
<1>1. \A o \in Resources : publication[o] # None => TypeOf[o] \in Versioned
  BY DEF StoreLinks
<1> QED  BY <1>1, StampFacts DEF StoreGrows

\* A fresh store is seeded.
LEMMA SeedFreshStores ==
    ASSUME StoreSafe, SeedFresh,
           UNCHANGED <<req, sent, effects, publication, owner, client, served, handshakes>>
    PROVE  StoreSafe' /\ GrantsStand
<1>1. StoreTypes /\ StoreLinks
  BY DEF StoreSafe
<1>2. ~Inhabited
  BY DEF SeedFresh, Existing, Present, Inhabited
<1>3. /\ \A p \in Principals : principal[p] = None
      /\ \A k \in Credentials : credential[k] = None
      /\ \A g \in Grants : grant[g] = None
  BY <1>2 DEF StoreSafe, Seeded
<1>4. /\ GrantsAgree(SeedGrant) /\ ~GrantsCollide(SeedGrant) /\ Lapsed(SeedGrant) = {}
      /\ SeedsAuthorities(SeedGrant)
  <2>1. DOMAIN SeedGrant \subseteq Grants /\ SeedsAuthorities(SeedGrant)
    BY GraphAssumption DEF SeedsAuthorities
  <2> QED  BY <1>3, <2>1 DEF GrantsAgree, GrantsCollide, Lapsed, Present, find_active
<1>5. /\ grant' \in [Grants -> GrantRow \cup {None}]
      /\ \A g \in Grants : grant[g] # None => grant'[g] = grant[g]
      /\ GrantsStand
  <2> PICK seeds : seeds = SeedGrant
    OBVIOUS
  <2>1. /\ SeedsAuthorities(seeds) /\ GrantsAgree(seeds) /\ ~GrantsCollide(seeds)
        /\ \A g \in Lapsed(seeds) : Restorable(g)
        /\ grant' = restore_grants(seeds)
    BY <1>4 DEF SeedFresh
  <2> QED  BY <1>1, <2>1, RestoreStands
<1> PICK reconcile \in BOOLEAN : reconcile = FALSE
  OBVIOUS
<1>6. resource' = Converged(reconcile)
  BY DEF SeedFresh
<1>7. /\ resource' \in [Resources -> ResourceRow \cup {None}]
      /\ \A o \in Resources : resource'[o] # None =>
            /\ resource'[o].type = TypeOf[o]
            /\ TypeOf[o] = "llm_model" => resource'[o].content \in Assignments
      /\ \A o \in Resources : resource[o] # None =>
            resource'[o] # None /\ resource'[o].stamp = resource[o].stamp
      /\ \A o \in Resources : resource[o] # None /\ o \notin DOMAIN SeedRoute =>
            resource'[o] = resource[o]
      /\ \A o \in McpIds : resource'[o] = resource[o]
  BY <1>1, <1>6, ConvergedRows
<1>8. /\ DOMAIN SeedPrincipal \subseteq Principals
      /\ \A p \in DOMAIN SeedPrincipal : SeedPrincipal[p] \in {"human", "agent"}
      /\ \E p \in DOMAIN SeedPrincipal : TRUE
      /\ \A k \in DOMAIN SeedCredential : SeedCredential[k] \in DOMAIN SeedPrincipal
  BY GraphAssumption
<1>9. /\ principal' = [p \in Principals |-> principal'[p]]
      /\ \A p \in DOMAIN SeedPrincipal : principal'[p] \in PrincipalRow
      /\ \A p \in Principals : p \notin DOMAIN SeedPrincipal => principal'[p] = None
  BY <1>3, <1>8 DEF SeedFresh, NewPrincipal, PrincipalRow
<1>10. /\ credential' = [k \in Credentials |-> credential'[k]]
       /\ \A k \in Credentials : k \in DOMAIN SeedCredential =>
             credential'[k] \in CredentialRow /\ credential'[k].owner = SeedCredential[k]
       /\ \A k \in Credentials : k \notin DOMAIN SeedCredential => credential'[k] = None
  BY <1>3, <1>8 DEF SeedFresh, CredentialRow
<1>11. StoreTypes'
  <2>1. principal' \in [Principals -> PrincipalRow \cup {None}]
    BY <1>8, <1>9
  <2>2. credential' \in [Credentials -> CredentialRow \cup {None}]
    BY <1>10
  <2> QED  BY <1>1, <1>5, <1>7, <2>1, <2>2 DEF StoreTypes
<1>12. StoreLinks'
  <2>1. \A k \in Credentials : credential'[k] # None => principal'[credential'[k].owner] # None
    BY <1>8, <1>9, <1>10, SeedsAssumption
  <2> QED  BY <1>1, <1>7, <2>1 DEF StoreLinks
<1>13. Seeded'
  BY <1>8, <1>9, SeedsAssumption DEF Seeded, Inhabited
<1>14. StoreGrows
  <2>1. \A o \in Resources : TypeOf[o] \in Versioned => o \notin DOMAIN SeedRoute
    BY SeedRows DEF Versioned
  <2> QED  BY <1>1, <1>3, <1>5, <1>7, <2>1, SeedGrows
<1> QED  BY <1>5, <1>11, <1>12, <1>13, <1>14, RowsKeep

\* A store is seeded again.
LEMMA SeedAgainStores ==
    ASSUME StoreSafe, NEW reconcile \in BOOLEAN, SeedAgain(reconcile),
           UNCHANGED <<req, sent, effects, publication, owner, client, served, handshakes>>
    PROVE  StoreSafe' /\ GrantsStand
<1>1. StoreTypes /\ StoreLinks
  BY DEF StoreSafe
<1>2. /\ resource' = Converged(reconcile) /\ UNCHANGED <<principal, credential>>
      /\ GrantsAgree(SeedGrant) /\ ~GrantsCollide(SeedGrant) /\ Restores(SeedGrant)
      /\ \A p \in DOMAIN SeedPrincipal : principal[p] = NewPrincipal(SeedPrincipal[p])
  BY DEF SeedAgain, GraphAgrees
<1>3. /\ grant' \in [Grants -> GrantRow \cup {None}]
      /\ \A g \in Grants : grant[g] # None => grant'[g] = grant[g]
      /\ GrantsStand
  <2> PICK seeds : seeds = SeedGrant
    OBVIOUS
  <2>1. /\ SeedsAuthorities(seeds) /\ GrantsAgree(seeds) /\ ~GrantsCollide(seeds)
        /\ \A g \in Lapsed(seeds) : Restorable(g)
        /\ grant' = restore_grants(seeds)
    BY <1>2, GraphAssumption DEF Restores
  <2> QED  BY <1>1, <2>1, RestoreStands
<1>4. /\ resource' \in [Resources -> ResourceRow \cup {None}]
      /\ \A o \in Resources : resource'[o] # None =>
            /\ resource'[o].type = TypeOf[o]
            /\ TypeOf[o] = "llm_model" => resource'[o].content \in Assignments
      /\ \A o \in Resources : resource[o] # None =>
            resource'[o] # None /\ resource'[o].stamp = resource[o].stamp
      /\ \A o \in Resources : resource[o] # None /\ o \notin DOMAIN SeedRoute =>
            resource'[o] = resource[o]
      /\ \A o \in McpIds : resource'[o] = resource[o]
  BY <1>1, <1>2, ConvergedRows
<1>5. StoreTypes'
  BY <1>1, <1>2, <1>3, <1>4 DEF StoreTypes
<1>6. StoreLinks'
  BY <1>1, <1>2, <1>4 DEF StoreLinks
<1>7. StoreGrows
  <2>1. \A o \in Resources : TypeOf[o] \in Versioned => o \notin DOMAIN SeedRoute
    BY SeedRows DEF Versioned
  <2> QED  BY <1>1, <1>2, <1>3, <1>4, <2>1, SeedGrows
<1>8. Inhabited
  <2>1. PICK p \in DOMAIN SeedPrincipal : SeedPrincipal[p] \in {"human", "agent"}
    BY GraphAssumption
  <2>2. NewPrincipal(SeedPrincipal[p]) \in PrincipalRow
    BY <2>1 DEF NewPrincipal, PrincipalRow
  <2> QED  BY <1>2, <2>2, SeedsAssumption DEF Inhabited
<1>9. Seeded'
  BY <1>7, <1>8, SomebodyStays
<1> QED  BY <1>3, <1>5, <1>6, <1>7, <1>9, RowsKeep

\* The demo graph: its owner rows, their projection and its grants.
LEMMA BootstrapStores ==
    ASSUME StoreSafe, bootstrap_mcp_demo
    PROVE  StoreSafe' /\ GrantsStand
<1>1. StoreTypes /\ StoreLinks
  BY DEF StoreSafe
<1> PICK row : row = [status |-> "active", stamp |-> 1]
  OBVIOUS
<1>2. /\ \A id \in McpIds : owner[id] = None \/ owner[id] = row
      /\ owner' = [id \in McpIds |-> row]
      /\ GrantsAgree(MCP_DEMO_GRANTS) /\ ~GrantsCollide(MCP_DEMO_GRANTS)
      /\ Restores(MCP_DEMO_GRANTS)
      /\ UNCHANGED <<principal, credential, publication, req, sent, effects, client, served,
                     handshakes>>
      /\ \A p \in {MCP_DEMO_GRANTS[g][1] : g \in DOMAIN MCP_DEMO_GRANTS} : principal[p] # None
  <2>1. DOMAIN owner = McpIds
    BY <1>1 DEF StoreTypes
  <2> QED  BY <2>1 DEF bootstrap_mcp_demo
<1>3. row \in OwnerRow /\ row # None /\ row.status = "active" /\ row.stamp = 1
  BY SurfaceAssumption DEF OwnerRow
<1>4. /\ grant' \in [Grants -> GrantRow \cup {None}]
      /\ \A g \in Grants : grant[g] # None => grant'[g] = grant[g]
      /\ GrantsStand
  <2> PICK seeds : seeds = MCP_DEMO_GRANTS
    OBVIOUS
  <2>1. /\ SeedsAuthorities(seeds) /\ GrantsAgree(seeds) /\ ~GrantsCollide(seeds)
        /\ \A g \in Lapsed(seeds) : Restorable(g)
        /\ grant' = restore_grants(seeds)
    BY <1>2, GraphAssumption DEF Restores
  <2> QED  BY <1>1, <2>1, RestoreStands
<1>5. \A id \in McpIds : /\ id \in Resources
                         /\ TypeOf[id] = IF id = Server THEN "mcp_server" ELSE "mcp_tool"
                         /\ TypeOf[id] \notin Versioned /\ TypeOf[id] # "llm_model"
                         /\ TypeOf[id] \in ResourceTypes
  BY SurfaceAssumption DEF McpIds, Tools, Versioned, ResourceTypes
<1>6. /\ resource' = [o \in Resources |-> resource'[o]]
      /\ \A o \in Resources : o \notin McpIds => resource'[o] = resource[o]
      /\ \A id \in McpIds : resource'[id] = Row(TypeOf[id], Server, "active", None, FALSE)
  <2>1. DOMAIN owner = McpIds
    BY <1>1 DEF StoreTypes
  <2> QED  BY <1>5, <2>1 DEF bootstrap_mcp_demo
<1>7. ASSUME NEW id \in McpIds
      PROVE  /\ resource'[id] \in ResourceRow /\ resource'[id] # None
             /\ resource'[id].type = TypeOf[id] /\ resource'[id].status = "active"
             /\ resource'[id].stamp = 1
  <2>1. Server \in Resources /\ None \in Documents /\ "active" \in ResourceStatuses
    BY SurfaceAssumption, CatalogAssumption DEF ResourceStatuses
  <2>2. TypeOf[id] \in ResourceTypes
    BY <1>5
  <2> PICK new : new = Row(TypeOf[id], Server, "active", None, FALSE)
    OBVIOUS
  <2>3. /\ new \in ResourceRow /\ new.type = TypeOf[id] /\ new.status = "active"
        /\ new.stamp = 1
    BY <2>1, <2>2 DEF Row, ResourceRow
  <2>4. resource'[id] = new
    BY <1>6
  <2> QED  BY <2>3, <2>4, CatalogAssumption
<1>8. StoreTypes'
  <2>1. \A o \in Resources : resource'[o] \in ResourceRow \cup {None}
    BY <1>1, <1>6, <1>7 DEF StoreTypes
  <2>2. resource' \in [Resources -> ResourceRow \cup {None}]
    BY <1>6, <2>1
  <2>3. owner' \in [McpIds -> OwnerRow \cup {None}]
    BY <1>2, <1>3
  <2> QED  BY <1>1, <1>2, <1>4, <2>2, <2>3 DEF StoreTypes
<1>9. StoreLinks'
  <2>1. \A id \in McpIds : /\ owner'[id] = row /\ owner'[id] # None /\ resource'[id] # None
                           /\ resource'[id].status = owner'[id].status
                           /\ resource'[id].stamp = owner'[id].stamp
    BY <1>2, <1>3, <1>7
  <2>2. ASSUME NEW o \in Resources, resource'[o] # None
        PROVE  /\ resource'[o].type = TypeOf[o]
               /\ TypeOf[o] = "llm_model" => resource'[o].content \in Assignments
    <3>1. CASE o \in McpIds
      BY <1>5, <1>7, <3>1
    <3>2. CASE o \notin McpIds
      BY <1>1, <1>6, <2>2, <3>2 DEF StoreLinks
    <3> QED  BY <3>1, <3>2
  <2> QED  BY <1>1, <1>2, <2>1, <2>2 DEF StoreLinks
<1>10. StoreGrows
  <2>1. ASSUME NEW o \in Resources, resource[o] # None
        PROVE  /\ resource'[o] # None /\ resource'[o].stamp = resource[o].stamp
               /\ o \notin DOMAIN SeedRoute => resource'[o].status = resource[o].status
               /\ TypeOf[o] \in Versioned => resource'[o] = resource[o]
    <3>1. CASE o \in McpIds
      <4>1. owner[o] = row /\ resource[o].status = "active" /\ resource[o].stamp = 1
        BY <1>1, <1>2, <1>3, <2>1, <3>1 DEF StoreLinks
      <4> QED  BY <1>5, <1>7, <3>1, <4>1
    <3>2. CASE o \notin McpIds
      BY <1>6, <2>1, <3>2
    <3> QED  BY <3>1, <3>2
  <2> QED  BY <1>1, <1>2, <1>4, <2>1, SeedGrows
<1>11. Seeded'
  <2>1. CASE Inhabited
    BY <1>10, <2>1, SomebodyStays
  <2>2. CASE ~Inhabited
    <3>1. DOMAIN MCP_DEMO_GRANTS = {}
      <4>1. \A g \in DOMAIN MCP_DEMO_GRANTS : MCP_DEMO_GRANTS[g][1] \in DOMAIN SeedPrincipal
        BY GraphAssumption DEF SeedsAuthorities
      <4> QED  BY <1>2, <2>2, <4>1 DEF Inhabited
    <3>2. Lapsed(MCP_DEMO_GRANTS) = {}
      BY <3>1 DEF Lapsed
    <3>3. \A g \in Grants : grant'[g] = grant[g]
      BY <1>2, <3>1, <3>2 DEF Restores, restore_grants
    <3> QED  BY <1>2, <2>2, <3>3 DEF StoreSafe, Seeded
  <2> QED  BY <2>1, <2>2
<1> QED  BY <1>2, <1>4, <1>8, <1>9, <1>10, <1>11, RowsKeep

\* Every step keeps the store safe, and lets its grants stand.
LEMMA StoreStep ==
    ASSUME StoreSafe, [SeedNext]_svars
    PROVE  StoreSafe' /\ GrantsStand
<1>1. ASSUME NEW c \in Clients, GovernedStep(c) \/ AdminStep(c) PROVE StoreSafe' /\ GrantsStand
  BY <1>1, GovernedStores, AdminStores
<1>2. CASE OwnerStep
  BY <1>2, OwnerStores
<1>3. CASE RetentionEnds /\ UNCHANGED <<publication, mcpvars, served>>
  BY <1>3, NothingMoves DEF RetentionEnds, identity, mcpvars
<1>4. CASE check_routing \/ print_digest
  BY <1>4, NothingMoves DEF check_routing, print_digest, gvars, kvars, cvars, identity
<1>5. ASSUME NEW reconcile \in BOOLEAN, seed(reconcile) PROVE StoreSafe' /\ GrantsStand
  <2>1. UNCHANGED <<req, sent, effects, publication, owner, client, served, handshakes>>
    BY <1>5 DEF seed, mcpvars
  <2>2. CASE SeedFresh
    BY <2>1, <2>2, SeedFreshStores
  <2>3. CASE SeedAgain(reconcile)
    BY <2>1, <2>3, SeedAgainStores
  <2> QED  BY <1>5, <2>2, <2>3 DEF seed
<1>6. CASE bootstrap_mcp_demo
  BY <1>6, BootstrapStores
<1>7. CASE UNCHANGED svars
  BY <1>7, NothingMoves DEF svars, gvars, kvars, cvars, identity
<1> QED  BY <1>1, <1>2, <1>3, <1>4, <1>5, <1>6, <1>7 DEF SeedNext, GovernedNext

\* Nobody has asked for anything yet.
LEMMA QuietStart ==
    ASSUME req = [c \in Clients |-> NoRequest], sent = 0, effects = {}, served = {},
           client = [initialized |-> FALSE, lock |-> None], handshakes = 0
    PROVE  /\ RequestTypes /\ SessionLocked /\ WritesAreSerial
           /\ \A c \in Clients : req[c].pc \in Finished /\ Sound(req[c])
           /\ \A e \in effects : TokenSpent(e) /\ PublicationStands(e) /\ e.evidence \cap e.barred = {}
           /\ \A s \in served : ShownSound(s)
<1>1. \A c \in Clients : req[c] = NoRequest
  OBVIOUS
<1>2. IsRequest(NoRequest) /\ NoRequest.n = 0 /\ NoRequest.pc \in Finished
  BY NoRequestFacts DEF Finished
<1>3. \A c \in Clients : req[c].pc \in Finished /\ Sound(req[c])
  BY <1>1, <1>2, OverSound
<1>4. RequestTypes
  BY <1>1, <1>2 DEF RequestTypes
<1>5. \A c \in Clients : ~At(c, "mcp.invoke", "handshake")
  BY <1>3 DEF At, Finished
<1>6. SessionLocked
  BY <1>5, SurfaceAssumption DEF SessionLocked
<1> QED  BY <1>3, <1>4, <1>6 DEF WritesAreSerial

\* The store that was seeded, and the one that the migrations have just made.
LEMMA StoreStart ==
    ASSUME SeedInit
    PROVE  StoreSafe
<1>1. /\ RequestTypes /\ SessionLocked /\ WritesAreSerial
      /\ \A c \in Clients : req[c].pc \in Finished /\ Sound(req[c])
      /\ \A e \in effects : TokenSpent(e) /\ PublicationStands(e) /\ e.evidence \cap e.barred = {}
      /\ \A s \in served : ShownSound(s)
  <2>1. /\ req = [c \in Clients |-> NoRequest] /\ sent = 0 /\ effects = {} /\ served = {}
        /\ client = [initialized |-> FALSE, lock |-> None] /\ handshakes = 0
    BY DEF SeedInit, GovernedInit, CatalogInit, ControlInit, FreshInit
  <2> QED  BY <2>1, QuietStart
<1>2. \A id \in McpIds : id \in Resources /\ TypeOf[id] # "policy"
  BY SurfaceAssumption DEF McpIds, Tools
<1>3. ASSUME GovernedInit PROVE StoreTypes /\ StoreLinks /\ Seeded
  <2> PICK row : row = [status |-> "active", stamp |-> 1]
    OBVIOUS
  <2>1. row \in OwnerRow /\ row # None /\ row.status = "active" /\ row.stamp = 1
    BY SurfaceAssumption DEF OwnerRow
  <2>2. /\ principal = InitPrincipal /\ credential = InitCredential /\ grant = InitGrant
        /\ resource = InitResource /\ publication = InitPublication
        /\ owner = [id \in McpIds |-> IF resource[id] = None THEN None ELSE row]
    BY <1>3 DEF GovernedInit, CatalogInit, ControlInit, McpIds
  <2>3. StoreTypes
    BY <2>1, <2>2, SeedsAssumption, CatalogAssumption DEF StoreTypes
  <2>4. \A id \in McpIds :
           /\ owner[id] = None => resource[id] = None
           /\ owner[id] # None => /\ resource[id] # None
                                  /\ resource[id].status = owner[id].status
                                  /\ resource[id].stamp = owner[id].stamp
    BY <2>1, <2>2, SurfaceAssumption DEF McpIds
  <2>5. StoreLinks
    BY <2>2, <2>4, SeedsAssumption, CatalogAssumption DEF StoreLinks, Versioned
  <2>6. Seeded
    BY <2>2, GraphAssumption DEF Seeded, Inhabited
  <2> QED  BY <2>3, <2>5, <2>6
<1>4. ASSUME FreshInit PROVE StoreTypes /\ StoreLinks /\ Seeded
  <2>1. /\ principal = [p \in Principals |-> None] /\ credential = [k \in Credentials |-> None]
        /\ grant = [g \in Grants |-> None] /\ publication = [o \in Resources |-> None]
        /\ resource = [o \in Resources |-> IF o = "workspace" THEN InitResource[o] ELSE None]
        /\ owner = [id \in McpIds |-> None]
    BY <1>4 DEF FreshInit, McpIds
  <2>2. StoreTypes
    BY <2>1, CatalogAssumption DEF StoreTypes
  <2>3. \A id \in McpIds : owner[id] = None /\ resource[id] = None
    BY <1>2, <2>1, CatalogAssumption
  <2>4. StoreLinks
    BY <2>1, <2>3, CatalogAssumption DEF StoreLinks
  <2>5. Seeded
    BY <1>1, <2>1 DEF Seeded
  <2> QED  BY <2>2, <2>4, <2>5
<1>5. StoreTypes /\ StoreLinks /\ Seeded
  BY <1>3, <1>4 DEF SeedInit
<1> QED  BY <1>1, <1>5 DEF StoreSafe

\* The store of the control plane and of what agents reach through it is safe in every
\* behaviour: rows keep their shape and their links, a request that was authorized rests on
\* what was not out when it came, and what was written or shown does.
THEOREM StoreIsSafe == SeedSpec => []StoreSafe
<1>1. SeedInit => StoreSafe
  BY StoreStart
<1>2. StoreSafe /\ [SeedNext]_svars => StoreSafe'
  BY StoreStep
<1> QED  BY <1>1, <1>2, PTL DEF SeedSpec

-----------------------------------------------------------------------------
(* The locks of a retrieval *)

\* What a retrieval has found to stand, it holds: the row is still as it was.
LockSound(r) ==
    r.op \in RetrievalRoutes =>
        /\ r.pc \in Retrieving /\ r.active =>
              <<"principal", r.who>> \in r.value /\ principal[r.who].status = "active"
        /\ r.pc \in Retrieving \ {"principal locked"} /\ r.active =>
              <<"credential", r.cred>> \in r.value /\ credential[r.cred].status = "active"
        /\ r.pc \in {"resource locked", "authority locked", "version locked"} /\ r.active =>
              /\ <<"resource", r.target>> \in r.value
              /\ resource[r.target] # None /\ resource[r.target].status = "active"
        /\ r.pc \in {"authority locked", "version locked"} =>
              r.active /\ \E g \in find_active(r.who, r.op, r.target) : <<"grant", g>> \in r.value

\* What was read for an answer, or was shown in one, was under authority.
LockSafe ==
    /\ \A c \in Clients : LockSound(req[c])
    /\ \A c \in Clients : req[c].pc \in HeldPcs => req[c].value.current
    /\ \A s \in served : s.current

RowKept(row) ==
    /\ row[1] = "principal" => principal'[row[2]] = principal[row[2]]
    /\ row[1] = "credential" => credential'[row[2]] = credential[row[2]]
    /\ row[1] = "resource" => resource'[row[2]] = resource[row[2]]
    /\ row[1] = "grant" => grant'[row[2]] = grant[row[2]]

OthersKept(c) == \A d \in Clients \ {c} : \A row \in ShareLocks(d) : RowKept(row)

\* A request that is not in the transaction of a retrieval, nor past its read.
Aloof(r) == r.pc \notin Retrieving \cup HeldPcs

\* A row that is held is found again.
LEMMA HeldRow ==
    ASSUME NEW rows, \A row \in rows : RowKept(row), NEW kind, NEW id, <<kind, id>> \in rows
    PROVE  /\ kind = "principal" => principal'[id] = principal[id]
           /\ kind = "credential" => credential'[id] = credential[id]
           /\ kind = "resource" => resource'[id] = resource[id]
           /\ kind = "grant" => grant'[id] = grant[id]
<1> PICK row \in rows : row = <<kind, id>>
  OBVIOUS
<1>1. row[1] = kind /\ row[2] = id
  OBVIOUS
<1> QED  BY <1>1 DEF RowKept

\* The locks keep what a retrieval has found.
LEMMA LocksHold ==
    ASSUME NEW r, LockSound(r), r.pc \in Retrieving => \A row \in r.value : RowKept(row)
    PROVE  LockSound(r)'
<1> SUFFICES ASSUME r.op \in RetrievalRoutes, r.pc \in Retrieving PROVE LockSound(r)'
  BY DEF LockSound, Retrieving
<1>1. ASSUME r.active
      PROVE  <<"principal", r.who>> \in r.value /\ principal'[r.who].status = "active"
  <2>1. <<"principal", r.who>> \in r.value /\ principal[r.who].status = "active"
    BY <1>1 DEF LockSound
  <2>2. principal'[r.who] = principal[r.who]
    BY <2>1, HeldRow
  <2> QED  BY <2>1, <2>2
<1>2. ASSUME r.pc \in Retrieving \ {"principal locked"}, r.active
      PROVE  <<"credential", r.cred>> \in r.value /\ credential'[r.cred].status = "active"
  <2>1. <<"credential", r.cred>> \in r.value /\ credential[r.cred].status = "active"
    BY <1>2 DEF LockSound
  <2>2. credential'[r.cred] = credential[r.cred]
    BY <2>1, HeldRow
  <2> QED  BY <2>1, <2>2
<1>3. ASSUME r.pc \in {"resource locked", "authority locked", "version locked"}, r.active
      PROVE  /\ <<"resource", r.target>> \in r.value
             /\ resource'[r.target] # None /\ resource'[r.target].status = "active"
  <2>1. /\ <<"resource", r.target>> \in r.value
        /\ resource[r.target] # None /\ resource[r.target].status = "active"
    BY <1>3 DEF LockSound
  <2>2. resource'[r.target] = resource[r.target]
    BY <2>1, HeldRow
  <2> QED  BY <2>1, <2>2
<1>4. ASSUME r.pc \in {"authority locked", "version locked"}
      PROVE  r.active /\ \E g \in find_active(r.who, r.op, r.target)' : <<"grant", g>> \in r.value
  <2>1. r.active
    BY <1>4 DEF LockSound
  <2>2. PICK g \in find_active(r.who, r.op, r.target) : <<"grant", g>> \in r.value
    BY <1>4 DEF LockSound
  <2>3. grant'[g] = grant[g]
    BY <2>2, HeldRow
  <2>4. g \in find_active(r.who, r.op, r.target)'
    BY <2>2, <2>3 DEF find_active
  <2> QED  BY <2>1, <2>2, <2>4
<1> QED  BY <1>1, <1>2, <1>3, <1>4 DEF LockSound

\* A request moves, and every other one keeps what it holds.
LEMMA MoveLocks ==
    ASSUME RequestTypes, LockSafe, NEW c \in Clients, OthersKept(c), NEW q,
           req' = [req EXCEPT ![c] = q], LockSound(q)', q.pc \in HeldPcs => q.value.current,
           \A s \in served' : s.current
    PROVE  LockSafe'
<1>1. req'[c] = q /\ \A d \in Clients \ {c} : req'[d] = req[d]
  BY DEF RequestTypes
<1>2. ASSUME NEW d \in Clients PROVE LockSound(req[d])'
  <2>1. CASE d = c
    BY <1>1, <2>1
  <2>2. CASE d # c
    <3> PICK r : r = req[d]
      OBVIOUS
    <3>1. LockSound(r) /\ req'[d] = r
      BY <1>1, <2>2 DEF LockSafe
    <3>2. r.pc \in Retrieving => \A row \in r.value : RowKept(row)
      BY <2>2 DEF OthersKept, ShareLocks
    <3>3. LockSound(r)'
      BY <3>1, <3>2, LocksHold
    <3> QED  BY <3>1, <3>3
  <2> QED  BY <2>1, <2>2
<1>3. ASSUME NEW d \in Clients, req'[d].pc \in HeldPcs PROVE req'[d].value.current
  <2>1. CASE d = c
    BY <1>1, <1>3, <2>1
  <2>2. CASE d # c
    <3>1. req'[d] = req[d]
      BY <1>1, <2>2
    <3> QED  BY <1>3, <3>1 DEF LockSafe
  <2> QED  BY <2>1, <2>2
<1> QED  BY <1>2, <1>3 DEF LockSafe

\* Nobody moves, and what is held stays.
LEMMA RestLocks ==
    ASSUME LockSafe, UNCHANGED <<req, served>>,
           \A d \in Clients : \A row \in ShareLocks(d) : RowKept(row)
    PROVE  LockSafe'
<1>1. ASSUME NEW d \in Clients PROVE LockSound(req[d])'
  <2> PICK r : r = req[d]
    OBVIOUS
  <2>1. LockSound(r) /\ req'[d] = r /\ (r.pc \in Retrieving => \A row \in r.value : RowKept(row))
    BY DEF LockSafe, ShareLocks
  <2>2. LockSound(r)'
    BY <2>1, LocksHold
  <2> QED  BY <2>1, <2>2
<1>2. \A d \in Clients : req'[d].pc \in HeldPcs => req'[d].value.current
  BY DEF LockSafe
<1>3. \A s \in served' : s.current
  BY DEF LockSafe
<1> QED  BY <1>1, <1>2, <1>3 DEF LockSafe

\* A request outside a retrieval has nothing to keep.
LEMMA AloofSound ==
    ASSUME NEW q, Aloof(q)
    PROVE  LockSound(q) /\ LockSound(q)' /\ q.pc \notin HeldPcs
BY DEF Aloof, LockSound, Retrieving

\* What is left of a request that was answered is outside any retrieval.
LEMMA AnsweredAloof ==
    ASSUME NEW c \in Clients, NEW status, NEW replayed, req' = Answered(c, status, replayed)
    PROVE  \E q : req' = [req EXCEPT ![c] = q] /\ Aloof(q)
<1> PICK q : q = IF status < 400
               THEN [NoRequest EXCEPT !.n = req[c].n, !.op = req[c].op, !.pc = "done",
                                      !.status = status, !.replayed = replayed]
               ELSE NoRequest
  OBVIOUS
<1>1. q.pc \in {"idle", "done"}
  BY DEF NoRequest
<1>2. Aloof(q)
  BY <1>1 DEF Aloof, Retrieving, HeldPcs
<1> QED  BY <1>2 DEF Answered

\* A request is answered; what that shows was under authority.
LEMMA AnsweredLocks ==
    ASSUME RequestTypes, LockSafe, NEW c \in Clients, OthersKept(c), NEW status, NEW replayed,
           req' = Answered(c, status, replayed), \A s \in served' : s.current
    PROVE  LockSafe'
<1>1. PICK q : req' = [req EXCEPT ![c] = q] /\ Aloof(q)
  BY AnsweredAloof
<1>2. LockSound(q)' /\ q.pc \notin HeldPcs
  BY <1>1, AloofSound
<1> QED  BY <1>1, <1>2, MoveLocks

\* A step of an agent's call, as far as the locks go: it changes no row, and goes on outside
\* a retrieval, under authority, or is answered.
Passes(c) ==
    \/ \E q : Goes(c, q) /\ LockSound(q) /\ (q.pc \in HeldPcs => q.value.current)
    \/ \E status, shown : Release(c, status, shown) /\ \A s \in shown : s.current
    \/ \E status : Unaudited(c, status)

\* Such a step changes nothing that is held, nor claims what is not.
LEMMA PassesLocks ==
    ASSUME StoreSafe, LockSafe, NEW c \in Clients, Passes(c)
    PROVE  LockSafe'
<1>1. RequestTypes /\ \A s \in served : s.current
  BY DEF StoreSafe, LockSafe
<1>2. UNCHANGED <<principal, credential, grant, resource>>
  BY DEF Passes, Goes, Release, Unaudited, identity
<1>3. OthersKept(c)
  BY <1>2 DEF OthersKept, RowKept
<1>4. ASSUME NEW q, Goes(c, q), LockSound(q), q.pc \in HeldPcs => q.value.current PROVE LockSafe'
  <2>1. req' = [req EXCEPT ![c] = q] /\ served' = served
    BY <1>4 DEF Goes
  <2>2. q.pc \in Retrieving => \A row \in q.value : RowKept(row)
    BY <1>2 DEF RowKept
  <2>3. LockSound(q)'
    BY <1>4, <2>2, LocksHold
  <2> QED  BY <1>1, <1>3, <1>4, <2>1, <2>3, MoveLocks
<1>5. ASSUME NEW status, NEW shown, Release(c, status, shown), \A s \in shown : s.current
      PROVE  LockSafe'
  <2>1. \A s \in served' : s.current
    BY <1>1, <1>5 DEF Release
  <2> PICK fail : fail = 503
    OBVIOUS
  <2> PICK replayed : replayed = FALSE
    BY Zenon
  <2>2. req' = Answered(c, status, replayed) \/ req' = Answered(c, fail, replayed)
    BY <1>5 DEF Release, finish
  <2> QED  BY <1>1, <1>3, <2>1, <2>2, AnsweredLocks
<1>6. ASSUME NEW status, Unaudited(c, status) PROVE LockSafe'
  <2> PICK replayed : replayed = FALSE
    BY Zenon
  <2>1. req' = Answered(c, status, replayed) /\ \A s \in served' : s.current
    BY <1>1, <1>6 DEF Unaudited
  <2> QED  BY <1>1, <1>3, <2>1, AnsweredLocks
<1> QED  BY <1>4, <1>5, <1>6 DEF Passes

\* A call that is refused.
LEMMA RefusedPasses ==
    ASSUME NEW c, \E status : Refuse(c, status) \/ Unaudited(c, status)
    PROVE  Passes(c)
<1>1. PICK status : Refuse(c, status) \/ Unaudited(c, status)
  OBVIOUS
<1>2. CASE Refuse(c, status)
  <2> PICK shown : shown = {}
    OBVIOUS
  <2>1. Release(c, status, shown) /\ \A s \in shown : s.current
    BY <1>2 DEF Refuse
  <2> QED  BY <2>1 DEF Passes
<1>3. CASE Unaudited(c, status)
  BY <1>3 DEF Passes
<1> QED  BY <1>1, <1>2, <1>3

\* A call that goes on outside a retrieval.
LEMMA AloofPasses ==
    ASSUME NEW c, NEW q, Goes(c, q), Aloof(q)
    PROVE  Passes(c)
BY AloofSound DEF Passes

\* What is shown of a skill or of a tool claims nothing of the kind.
LEMMA ShowPasses ==
    ASSUME NEW c, NEW grants, NEW targets, Release(c, 200, {Show(c, grants, targets, TRUE)})
    PROVE  Passes(c)
<1> PICK shown : shown = {Show(c, grants, targets, TRUE)}
  OBVIOUS
<1>1. \A s \in shown : s.current
  BY DEF Show
<1> QED  BY <1>1 DEF Passes

\* Each statement of a retrieval adds the row it found, or finds that it does not stand.
LEMMA StatementPasses ==
    ASSUME StoreSafe, LockSafe, NEW c \in Clients,
           lock_current_authority(c) \/ lock_active_version(c)
    PROVE  Passes(c)
<1> DEFINE r == req[c]
<1>1. IsRequest(r) /\ LockSound(r)
  BY DEF StoreSafe, RequestTypes, LockSafe
<1>2. ASSUME NEW pc \in Retrieving, NEW rows, NEW stands, Holds(c, pc, rows, stands),
             \A q : /\ q.op = r.op /\ q.who = r.who /\ q.cred = r.cred /\ q.target = r.target
                    /\ q.pc = pc /\ q.value = rows /\ q.active = stands
                    => LockSound(q)
      PROVE  Passes(c)
  <2> PICK q : q = [r EXCEPT !.pc = pc, !.value = rows, !.active = stands]
    OBVIOUS
  <2>1. /\ q.op = r.op /\ q.who = r.who /\ q.cred = r.cred /\ q.target = r.target
        /\ q.pc = pc /\ q.value = rows /\ q.active = stands
    BY <1>1 DEF IsRequest, RequestFields
  <2>2. LockSound(q) /\ q.pc \notin HeldPcs
    BY <1>2, <2>1 DEF Retrieving, HeldPcs
  <2> QED  BY <1>2, <2>2 DEF Passes, Holds
<1>3. CASE lock_principal(c)
  <2> PICK stands : stands = (principal[r.who].status = "active")
    BY Zenon
  <2> PICK rows : rows = {<<"principal", r.who>>}
    OBVIOUS
  <2>1. Holds(c, "principal locked", rows, stands)
    BY <1>3 DEF lock_principal
  <2>2. ASSUME NEW q, q.who = r.who, q.pc = "principal locked", q.value = rows, q.active = stands
        PROVE  LockSound(q)
    BY <2>2 DEF LockSound, Retrieving
  <2> QED  BY <1>2, <2>1, <2>2 DEF Retrieving
<1>4. CASE lock_credential(c)
  <2> PICK stands : stands = (r.active /\ Usable(r.cred))
    BY Zenon
  <2> PICK rows : rows = r.value \cup {<<"credential", r.cred>>}
    OBVIOUS
  <2>1. Holds(c, "credential locked", rows, stands)
    BY <1>4 DEF lock_credential
  <2>2. stands => /\ <<"principal", r.who>> \in rows /\ principal[r.who].status = "active"
                  /\ <<"credential", r.cred>> \in rows /\ credential[r.cred].status = "active"
    BY <1>1, <1>4 DEF lock_credential, Retrieves, LockSound, Retrieving, Usable
  <2>3. ASSUME NEW q, q.who = r.who, q.cred = r.cred, q.pc = "credential locked",
               q.value = rows, q.active = stands
        PROVE  LockSound(q)
    BY <2>2, <2>3 DEF LockSound, Retrieving
  <2> QED  BY <1>2, <2>1, <2>3 DEF Retrieving
<1>5. CASE lock_resource(c)
  <2> PICK stands : stands = (/\ resource[r.target] # None /\ r.active
                              /\ resource[r.target].status = "active")
    BY Zenon
  <2> PICK rows : rows = IF resource[r.target] # None
                         THEN r.value \cup {<<"resource", r.target>>} ELSE r.value
    OBVIOUS
  <2>1. Holds(c, "resource locked", rows, stands)
    BY <1>5 DEF lock_resource
  <2>2. stands => /\ <<"principal", r.who>> \in rows /\ principal[r.who].status = "active"
                  /\ <<"credential", r.cred>> \in rows /\ credential[r.cred].status = "active"
                  /\ <<"resource", r.target>> \in rows
                  /\ resource[r.target] # None /\ resource[r.target].status = "active"
    BY <1>1, <1>5 DEF lock_resource, Retrieves, LockSound, Retrieving
  <2>3. ASSUME NEW q, q.who = r.who, q.cred = r.cred, q.target = r.target,
               q.pc = "resource locked", q.value = rows, q.active = stands
        PROVE  LockSound(q)
    BY <2>2, <2>3 DEF LockSound, Retrieving
  <2> QED  BY <1>2, <2>1, <2>3 DEF Retrieving
<1>6. CASE lock_grant(c)
  <2>1. CASE ~(r.active /\ find_active(r.who, r.op, r.target) # {})
    <3>1. Refuse(c, 403)
      BY <1>6, <2>1 DEF lock_grant
    <3> QED  BY <3>1, RefusedPasses
  <2>2. CASE /\ r.active
             /\ \E g \in find_active(r.who, r.op, r.target) :
                  Holds(c, "authority locked", r.value \cup {<<"grant", g>>}, TRUE)
    <3>1. PICK g \in find_active(r.who, r.op, r.target) :
               Holds(c, "authority locked", r.value \cup {<<"grant", g>>}, TRUE)
      BY <2>2
    <3> PICK stands : stands = TRUE
      BY Zenon
    <3> PICK rows : rows = r.value \cup {<<"grant", g>>}
      OBVIOUS
    <3>2. Holds(c, "authority locked", rows, stands)
      BY <3>1
    <3>3. r.op \in RetrievalRoutes /\ r.pc = "resource locked" /\ r.active
      BY <1>6, <2>2 DEF lock_grant, Retrieves
    <3>4. /\ <<"principal", r.who>> \in rows /\ principal[r.who].status = "active"
          /\ <<"credential", r.cred>> \in rows /\ credential[r.cred].status = "active"
          /\ <<"resource", r.target>> \in rows
          /\ resource[r.target] # None /\ resource[r.target].status = "active"
          /\ <<"grant", g>> \in rows
      BY <1>1, <3>3 DEF LockSound, Retrieving
    <3>5. ASSUME NEW q, q.who = r.who, q.cred = r.cred, q.target = r.target, q.op = r.op,
                 q.pc = "authority locked", q.value = rows, q.active = stands
          PROVE  LockSound(q)
      BY <3>1, <3>4, <3>5 DEF LockSound, Retrieving
    <3> QED  BY <1>2, <3>2, <3>5 DEF Retrieving
  <2> QED  BY <1>6, <2>1, <2>2 DEF lock_grant
<1>7. CASE lock_active_version(c)
  <2>1. CASE Refuse(c, 503)
    BY <2>1, RefusedPasses
  <2>2. CASE Holds(c, "version locked", r.value, TRUE)
    <3> PICK stands : stands = TRUE
      BY Zenon
    <3> PICK rows : rows = r.value
      OBVIOUS
    <3>1. Holds(c, "version locked", rows, stands)
      BY <2>2
    <3>2. r.op \in RetrievalRoutes /\ r.pc = "authority locked"
      BY <1>7 DEF lock_active_version, Retrieves
    <3>3. ASSUME NEW q, q.who = r.who, q.cred = r.cred, q.target = r.target, q.op = r.op,
                 q.pc = "version locked", q.value = rows, q.active = stands
          PROVE  LockSound(q)
      BY <1>1, <3>2, <3>3 DEF LockSound, Retrieving
    <3> QED  BY <1>2, <3>1, <3>3 DEF Retrieving
  <2> QED  BY <1>7, <2>1, <2>2 DEF lock_active_version
<1> QED  BY <1>3, <1>4, <1>5, <1>6, <1>7 DEF lock_current_authority

\* The content is read while all of it is held.
LEMMA ContentPasses ==
    ASSUME StoreSafe, LockSafe, NEW c \in Clients, content_query(c) \/ release_content(c)
    PROVE  Passes(c)
<1> DEFINE r == req[c]
<1>1. IsRequest(r) /\ LockSound(r) /\ (r.pc \in HeldPcs => r.value.current)
  BY DEF StoreSafe, RequestTypes, LockSafe
<1>2. CASE content_query(c)
  <2>1. r.op \in RetrievalRoutes /\ r.pc = "version locked"
    BY <1>2 DEF content_query, Retrieves
  <2>2. AuthorityStands(c)
    BY <1>1, <2>1 DEF LockSound, Retrieving, AuthorityStands
  <2> PICK show : show = Show(c, {r.grant}, {r.target}, AuthorityStands(c))
    OBVIOUS
  <2>3. show.current
    BY <2>2 DEF Show
  <2> PICK q : q = [r EXCEPT !.pc = "read", !.value = show]
    OBVIOUS
  <2>4. q.pc = "read" /\ q.value = show
    BY <1>1 DEF IsRequest, RequestFields
  <2>5. LockSound(q)
    BY <2>4 DEF LockSound, Retrieving
  <2>6. Goes(c, q)
    BY <1>2 DEF content_query
  <2> QED  BY <2>3, <2>4, <2>5, <2>6 DEF Passes
<1>3. CASE release_content(c)
  <2>1. r.value.current
    BY <1>1, <1>3 DEF release_content, HeldPcs
  <2>2. CASE Release(c, 200, {r.value})
    <3> PICK shown : shown = {r.value}
      OBVIOUS
    <3>1. \A s \in shown : s.current
      BY <2>1
    <3> QED  BY <2>2, <3>1 DEF Passes
  <2>3. CASE Refuse(c, 404)
    BY <2>3, RefusedPasses
  <2> QED  BY <1>3, <2>2, <2>3 DEF release_content
<1> QED  BY <1>2, <1>3

\* The start of a call, and its refusals before the handler.
LEMMA CallPasses ==
    ASSUME StoreSafe, LockSafe, NEW c \in Clients,
           \/ RefusePath(c) \/ StorageFails(c) \/ RefuseQuery(c)
           \/ authenticate_call(c) \/ authorize_governed_access(c)
    PROVE  Passes(c)
<1> DEFINE r == req[c]
<1>1. IsRequest(r)
  BY DEF StoreSafe, RequestTypes
<1>2. CASE \E status : Refuse(c, status) \/ Unaudited(c, status)
  BY <1>2, RefusedPasses
<1>3. CASE \E who, active : Goes(c, [r EXCEPT !.pc = "authenticated", !.who = who, !.active = active])
  <2> PICK who, active : Goes(c, [r EXCEPT !.pc = "authenticated", !.who = who, !.active = active])
    BY <1>3
  <2> PICK q : q = [r EXCEPT !.pc = "authenticated", !.who = who, !.active = active]
    OBVIOUS
  <2>1. Goes(c, q) /\ q.pc = "authenticated"
    BY <1>1 DEF IsRequest, RequestFields
  <2> QED  BY <2>1, AloofPasses DEF Aloof, Retrieving, HeldPcs
<1>4. CASE \E g : Goes(c, [r EXCEPT !.pc = "authorized", !.grant = g, !.value = <<>>])
  <2> PICK g : Goes(c, [r EXCEPT !.pc = "authorized", !.grant = g, !.value = <<>>])
    BY <1>4
  <2> PICK q : q = [r EXCEPT !.pc = "authorized", !.grant = g, !.value = <<>>]
    OBVIOUS
  <2>1. Goes(c, q) /\ q.pc = "authorized"
    BY <1>1 DEF IsRequest, RequestFields
  <2> QED  BY <2>1, AloofPasses DEF Aloof, Retrieving, HeldPcs
<1>5. CASE RefusePath(c) \/ StorageFails(c) \/ RefuseQuery(c)
  BY <1>2, <1>5 DEF RefusePath, StorageFails, RefuseQuery
<1>6. CASE authenticate_call(c)
  <2> PICK active : active = (principal[credential[r.cred].owner].status = "active")
    BY Zenon
  <2>1. \/ Goes(c, [r EXCEPT !.pc = "authenticated", !.who = credential[r.cred].owner,
                             !.active = active])
        \/ Refuse(c, 401) \/ Unaudited(c, 401)
    BY <1>6 DEF authenticate_call
  <2> QED  BY <1>2, <1>3, <2>1
<1>7. CASE authorize_governed_access(c)
  <2>1. \/ Refuse(c, 404) \/ Refuse(c, 403)
        \/ \E g : Goes(c, [r EXCEPT !.pc = "authorized", !.grant = g, !.value = <<>>])
    BY <1>7 DEF authorize_governed_access
  <2> QED  BY <1>2, <1>4, <2>1
<1> QED  BY <1>5, <1>6, <1>7

\* Skills and tools: what they show claims nothing of the kind.
LEMMA SkillPasses ==
    ASSUME StoreSafe, LockSafe, NEW c \in Clients,
           read_skill(c) \/ authorize_dependency(c) \/ resolve(c)
    PROVE  Passes(c)
<1> DEFINE r == req[c]
<1>1. IsRequest(r)
  BY DEF StoreSafe, RequestTypes
<1>2. CASE \E status : Refuse(c, status) \/ Unaudited(c, status)
  BY <1>2, RefusedPasses
<1>3. CASE read_skill(c)
  <2>1. CASE Goes(c, [r EXCEPT !.pc = "dependencies"])
    <3> PICK q : q = [r EXCEPT !.pc = "dependencies"]
      OBVIOUS
    <3>1. Goes(c, q) /\ q.pc = "dependencies"
      BY <1>1, <2>1 DEF IsRequest, RequestFields
    <3> QED  BY <3>1, AloofPasses DEF Aloof, Retrieving, HeldPcs
  <2> QED  BY <1>2, <1>3, <2>1 DEF read_skill
<1>4. CASE authorize_dependency(c)
  <2>1. CASE \E g : Goes(c, [r EXCEPT !.value = Append(@, g)])
    <3> PICK g : Goes(c, [r EXCEPT !.value = Append(@, g)])
      BY <2>1
    <3> PICK q : q = [r EXCEPT !.value = Append(@, g)]
      OBVIOUS
    <3>1. Goes(c, q) /\ q.pc = "dependencies"
      BY <1>1, <1>4 DEF IsRequest, RequestFields, authorize_dependency, Calls, At
    <3> QED  BY <3>1, AloofPasses DEF Aloof, Retrieving, HeldPcs
  <2>2. Refuse(c, 404) \/ \E g : Goes(c, [r EXCEPT !.value = Append(@, g)])
    BY <1>4 DEF authorize_dependency
  <2> QED  BY <1>2, <2>1, <2>2
<1>5. CASE resolve(c)
  <2>1. Refuse(c, 404) \/ \E grants, targets : Release(c, 200, {Show(c, grants, targets, TRUE)})
    BY <1>5 DEF resolve
  <2> QED  BY <1>2, <2>1, ShowPasses
<1> QED  BY <1>3, <1>4, <1>5

\* The tools are asked for one by one, and shown together.
LEMMA DiscoveryPasses ==
    ASSUME StoreSafe, LockSafe, NEW c \in Clients,
           authenticate_tool(c) \/ authorize_tool(c) \/ discover(c)
    PROVE  Passes(c)
<1> DEFINE r == req[c]
<1>1. IsRequest(r)
  BY DEF StoreSafe, RequestTypes
<1>2. CASE \E status : Refuse(c, status) \/ Unaudited(c, status)
  BY <1>2, RefusedPasses
<1>3. CASE authenticate_tool(c)
  <2> PICK active : active = (principal[r.who].status = "active")
    BY Zenon
  <2>1. CASE Goes(c, [r EXCEPT !.pc = "tool", !.active = active])
    <3> PICK q : q = [r EXCEPT !.pc = "tool", !.active = active]
      OBVIOUS
    <3>1. Goes(c, q) /\ q.pc = "tool"
      BY <1>1, <2>1 DEF IsRequest, RequestFields
    <3> QED  BY <3>1, AloofPasses DEF Aloof, Retrieving, HeldPcs
  <2> QED  BY <1>2, <1>3, <2>1 DEF authenticate_tool
<1>4. CASE authorize_tool(c)
  <2> PICK g : Goes(c, [r EXCEPT !.pc = "authorized", !.value = Append(@, g)])
    BY <1>4 DEF authorize_tool
  <2> PICK q : q = [r EXCEPT !.pc = "authorized", !.value = Append(@, g)]
    OBVIOUS
  <2>1. Goes(c, q) /\ q.pc = "authorized"
    BY <1>1 DEF IsRequest, RequestFields
  <2> QED  BY <2>1, AloofPasses DEF Aloof, Retrieving, HeldPcs
<1>5. CASE discover(c)
  <2>1. Refuse(c, 403) \/ \E grants, targets : Release(c, 200, {Show(c, grants, targets, TRUE)})
    BY <1>5 DEF discover
  <2> QED  BY <1>2, <2>1, ShowPasses
<1> QED  BY <1>3, <1>4, <1>5

\* A call of a tool goes through the handshake to its answer.
LEMMA InvocationPasses ==
    ASSUME StoreSafe, LockSafe, NEW c \in Clients,
           \/ read_contract(c) \/ enter_initialize(c) \/ take_lock(c) \/ handshake(c)
           \/ call_tool(c) \/ time_out(c)
    PROVE  Passes(c)
<1> DEFINE r == req[c]
<1>1. IsRequest(r) /\ (r.pc \in HeldPcs => r.value.current)
  BY DEF StoreSafe, RequestTypes, LockSafe
<1>2. CASE \E status : Refuse(c, status) \/ Unaudited(c, status)
  BY <1>2, RefusedPasses
<1>3. ASSUME NEW pc \in HeldPcs \ {"read"}, r.value.current, Goes(c, [r EXCEPT !.pc = pc])
      PROVE  Passes(c)
  <2> PICK q : q = [r EXCEPT !.pc = pc]
    OBVIOUS
  <2>1. Goes(c, q) /\ q.pc = pc /\ q.value = r.value
    BY <1>1, <1>3 DEF IsRequest, RequestFields
  <2>2. LockSound(q)
    BY <2>1 DEF LockSound, Retrieving, HeldPcs
  <2> QED  BY <1>3, <2>1, <2>2 DEF Passes
<1>4. CASE read_contract(c)
  <2>1. CASE Goes(c, [r EXCEPT !.pc = "calling", !.value = Show(c, {r.grant}, {Server, r.target}, TRUE)])
    <3> PICK show : show = Show(c, {r.grant}, {Server, r.target}, TRUE)
      OBVIOUS
    <3> PICK q : q = [r EXCEPT !.pc = "calling", !.value = show]
      OBVIOUS
    <3>1. Goes(c, q) /\ q.pc = "calling" /\ q.value = show /\ show.current
      BY <1>1, <2>1 DEF IsRequest, RequestFields, Show
    <3>2. LockSound(q)
      BY <3>1 DEF LockSound, Retrieving
    <3> QED  BY <3>1, <3>2 DEF Passes
  <2> QED  BY <1>2, <1>4, <2>1 DEF read_contract
<1>5. CASE enter_initialize(c)
  <2>1. r.value.current
    BY <1>1, <1>5 DEF enter_initialize, At, HeldPcs
  <2>2. \E pc \in HeldPcs \ {"read"} : Goes(c, [r EXCEPT !.pc = pc])
    BY <1>5 DEF enter_initialize, HeldPcs
  <2> QED  BY <1>3, <2>1, <2>2
<1>6. CASE take_lock(c)
  <2>1. r.value.current
    BY <1>1, <1>6 DEF take_lock, At, HeldPcs
  <2>2. \E pc \in HeldPcs \ {"read"} : Goes(c, [r EXCEPT !.pc = pc])
    BY <1>6 DEF take_lock, HeldPcs
  <2> QED  BY <1>3, <2>1, <2>2
<1>7. CASE handshake(c)
  <2>1. r.value.current
    BY <1>1, <1>7 DEF handshake, At, HeldPcs
  <2>2. \/ \E pc \in HeldPcs \ {"read"} : Goes(c, [r EXCEPT !.pc = pc])
        \/ \E status : Refuse(c, status)
    BY <1>7 DEF handshake, HeldPcs
  <2> QED  BY <1>2, <1>3, <2>1, <2>2
<1>8. CASE call_tool(c)
  <2>1. r.value.current
    BY <1>1, <1>8 DEF call_tool, Calls, At, HeldPcs
  <2>2. CASE Release(c, 200, {r.value})
    <3> PICK shown : shown = {r.value}
      OBVIOUS
    <3>1. \A s \in shown : s.current
      BY <2>1
    <3> QED  BY <2>2, <3>1 DEF Passes
  <2> QED  BY <1>2, <1>8, <2>2 DEF call_tool
<1>9. CASE time_out(c)
  BY <1>2, <1>9 DEF time_out
<1> QED  BY <1>4, <1>5, <1>6, <1>7, <1>8, <1>9

\* A step of an administrative operation, as far as the locks go: no retrieval of its own.
Moves(c) == \E q : req' = [req EXCEPT ![c] = q] /\ Aloof(q)

\* It answers,
LEMMA EndMoves ==
    ASSUME NEW c \in Clients,
           \E status : \/ Answer(c, status) \/ Replay(c, status) \/ CommitsAudited(c, status)
                       \/ AuditRefused(c) \/ Says(c, status)
    PROVE  Moves(c)
<1>1. \E status, replayed : req' = Answered(c, status, replayed)
  BY DEF Answer, finish, Replay, CommitsAudited, AuditRefused, Says
<1>2. PICK status, replayed : req' = Answered(c, status, replayed)
  BY <1>1
<1> QED  BY <1>2, AnsweredAloof DEF Moves

\* or goes on to another step of its own,
LEMMA PcMoves ==
    ASSUME RequestTypes, NEW c \in Clients,
           \/ \E who, active : req' = [req EXCEPT ![c].pc = "authenticated", ![c].who = who,
                                                  ![c].active = active]
           \/ \E g : req' = [req EXCEPT ![c].pc = "authorized", ![c].grant = g]
           \/ \E status : req' = [req EXCEPT ![c].pc = "committed", ![c].status = status]
           \/ req' = [req EXCEPT ![c].pc = "checked"]
           \/ \E seen : req' = [req EXCEPT ![c].pc = "checked", ![c].seen = seen]
    PROVE  Moves(c)
<1> DEFINE r == req[c]
<1>1. IsRequest(r)
  BY DEF RequestTypes
<1>2. \E q : /\ req' = [req EXCEPT ![c] = q]
             /\ q.pc \in {"authenticated", "authorized", "committed", "checked"}
  <2>1. CASE \E who, active : req' = [req EXCEPT ![c].pc = "authenticated", ![c].who = who,
                                                 ![c].active = active]
    <3> PICK who, active : req' = [req EXCEPT ![c].pc = "authenticated", ![c].who = who,
                                              ![c].active = active]
      BY <2>1
    <3> PICK q : q = [r EXCEPT !.pc = "authenticated", !.who = who, !.active = active]
      OBVIOUS
    <3>1. q.pc = "authenticated"
      BY <1>1 DEF IsRequest, RequestFields
    <3>2. req' = [req EXCEPT ![c] = q]
      BY DEF RequestTypes
    <3> QED  BY <3>1, <3>2
  <2>2. CASE \E g : req' = [req EXCEPT ![c].pc = "authorized", ![c].grant = g]
    <3> PICK g : req' = [req EXCEPT ![c].pc = "authorized", ![c].grant = g]
      BY <2>2
    <3> PICK q : q = [r EXCEPT !.pc = "authorized", !.grant = g]
      OBVIOUS
    <3>1. q.pc = "authorized"
      BY <1>1 DEF IsRequest, RequestFields
    <3>2. req' = [req EXCEPT ![c] = q]
      BY DEF RequestTypes
    <3> QED  BY <3>1, <3>2
  <2>3. CASE \E status : req' = [req EXCEPT ![c].pc = "committed", ![c].status = status]
    <3> PICK status : req' = [req EXCEPT ![c].pc = "committed", ![c].status = status]
      BY <2>3
    <3> PICK q : q = [r EXCEPT !.pc = "committed", !.status = status]
      OBVIOUS
    <3>1. q.pc = "committed"
      BY <1>1 DEF IsRequest, RequestFields
    <3>2. req' = [req EXCEPT ![c] = q]
      BY DEF RequestTypes
    <3> QED  BY <3>1, <3>2
  <2>4. CASE req' = [req EXCEPT ![c].pc = "checked"]
    <3> PICK q : q = [r EXCEPT !.pc = "checked"]
      OBVIOUS
    <3>1. q.pc = "checked"
      BY <1>1 DEF IsRequest, RequestFields
    <3>2. req' = [req EXCEPT ![c] = q]
      BY <2>4 DEF RequestTypes
    <3> QED  BY <3>1, <3>2
  <2>5. CASE \E seen : req' = [req EXCEPT ![c].pc = "checked", ![c].seen = seen]
    <3> PICK seen : req' = [req EXCEPT ![c].pc = "checked", ![c].seen = seen]
      BY <2>5
    <3> PICK q : q = [r EXCEPT !.pc = "checked", !.seen = seen]
      OBVIOUS
    <3>1. q.pc = "checked"
      BY <1>1 DEF IsRequest, RequestFields
    <3>2. req' = [req EXCEPT ![c] = q]
      BY DEF RequestTypes
    <3> QED  BY <3>1, <3>2
  <2> QED  BY <2>1, <2>2, <2>3, <2>4, <2>5
<1> QED  BY <1>2 DEF Moves, Aloof, Retrieving, HeldPcs

\* whether it administers identities and grants
LEMMA ControlMoves ==
    ASSUME RequestTypes, NEW c \in Clients,
           \/ Submit(c) \/ RefuseMalformed(c) \/ Authenticate(c) \/ Authorize(c) \/ Finish(c)
           \/ CheckGrant(c) \/ create_grant(c) \/ revoke_grant(c) \/ revoke_credential(c)
           \/ replace_principal_status(c)
    PROVE  Moves(c)
<1>1. CASE Submit(c)
  <2>1. PICK op \in Operations, cred \in Credentials :
           \E in \in Inputs[op], key \in IF op \in Keyed THEN Keys ELSE {None} :
              req' = [req EXCEPT ![c] =
                 [NoRequest EXCEPT !.n = sent + 1, !.op = op, !.key = key,
                    !.target = in[1], !.value = in[2], !.cred = cred,
                    !.seen = Stamp(op, in[1]), !.barred = Revoked,
                    !.pc = "arrived"]]
    BY <1>1, Zenon DEF Submit
  <2>2. PICK in \in Inputs[op], key \in IF op \in Keyed THEN Keys ELSE {None} :
              req' = [req EXCEPT ![c] =
                 [NoRequest EXCEPT !.n = sent + 1, !.op = op, !.key = key,
                    !.target = in[1], !.value = in[2], !.cred = cred,
                    !.seen = Stamp(op, in[1]), !.barred = Revoked,
                    !.pc = "arrived"]]
    BY <2>1
  <2> PICK q : q = [NoRequest EXCEPT !.n = sent + 1, !.op = op, !.key = key,
                      !.target = in[1], !.value = in[2], !.cred = cred,
                      !.seen = Stamp(op, in[1]), !.barred = Revoked, !.pc = "arrived"]
    OBVIOUS
  <2>3. q.pc = "arrived"
    BY DEF NoRequest
  <2> QED  BY <2>2, <2>3 DEF Moves, Aloof, Retrieving, HeldPcs
<1>2. CASE RefuseMalformed(c)
  BY <1>2, EndMoves DEF RefuseMalformed
<1>3. CASE Authenticate(c)
  <2> PICK active : active = (principal[credential[req[c].cred].owner].status = "active")
    BY Zenon
  <2>1. \/ \E who : req' = [req EXCEPT ![c].pc = "authenticated", ![c].who = who,
                                       ![c].active = active]
        \/ Answer(c, 401)
    BY <1>3 DEF Authenticate
  <2>2. CASE Answer(c, 401)
    BY <2>2, EndMoves
  <2>3. CASE \E who : req' = [req EXCEPT ![c].pc = "authenticated", ![c].who = who,
                                         ![c].active = active]
    <3> PICK who : req' = [req EXCEPT ![c].pc = "authenticated", ![c].who = who,
                                      ![c].active = active]
      BY <2>3
    <3> QED  BY PcMoves
  <2> QED  BY <2>1, <2>2, <2>3
<1>4. CASE Authorize(c)
  <2>1. \/ \E g : req' = [req EXCEPT ![c].pc = "authorized", ![c].grant = g]
        \/ Answer(c, 404) \/ Answer(c, 403)
    BY <1>4 DEF Authorize
  <2> QED  BY <2>1, EndMoves, PcMoves
<1>5. CASE Finish(c)
  <2>1. \E status, replayed : req' = Answered(c, status, replayed)
    BY <1>5 DEF Finish
  <2>2. PICK status, replayed : req' = Answered(c, status, replayed)
    BY <2>1
  <2> QED  BY <2>2, AnsweredAloof DEF Moves
<1>6. CASE CheckGrant(c)
  <2>1. \/ req' = [req EXCEPT ![c].pc = "checked"]
        \/ Replay(c, 201) \/ Answer(c, 409) \/ Answer(c, 404) \/ Answer(c, 422)
    BY <1>6 DEF CheckGrant
  <2> QED  BY <2>1, EndMoves, PcMoves
<1>7. CASE create_grant(c)
  <2>1. Replay(c, 201) \/ Answer(c, 409) \/ CommitsAudited(c, 201) \/ AuditRefused(c)
    BY <1>7 DEF create_grant
  <2> QED  BY <2>1, EndMoves
<1>8. CASE revoke_grant(c)
  <2>1. Answer(c, 404) \/ CommitsAudited(c, 204) \/ AuditRefused(c)
    BY <1>8 DEF revoke_grant
  <2> QED  BY <2>1, EndMoves
<1>9. CASE revoke_credential(c)
  <2>1. Answer(c, 404) \/ CommitsFirst(c, 204)
    BY <1>9 DEF revoke_credential
  <2>2. Answer(c, 404) \/ \E status : req' = [req EXCEPT ![c].pc = "committed", ![c].status = status]
    BY <2>1 DEF CommitsFirst
  <2> QED  BY <2>2, EndMoves, PcMoves
<1>10. CASE replace_principal_status(c)
  <2>1. Answer(c, 404) \/ Answer(c, 409) \/ CommitsFirst(c, 200)
    BY <1>10 DEF replace_principal_status
  <2>2. \/ Answer(c, 404) \/ Answer(c, 409)
        \/ \E status : req' = [req EXCEPT ![c].pc = "committed", ![c].status = status]
    BY <2>1 DEF CommitsFirst
  <2> QED  BY <2>2, EndMoves, PcMoves
<1> QED  BY <1>1, <1>2, <1>3, <1>4, <1>5, <1>6, <1>7, <1>8, <1>9, <1>10

\* or the catalog.
LEMMA CatalogMoves ==
    ASSUME RequestTypes, NEW c \in Clients, CatalogStep(c)
    PROVE  Moves(c)
<1> DEFINE Ended == \E status : \/ Answer(c, status) \/ Replay(c, status)
                                \/ CommitsAudited(c, status) \/ AuditRefused(c) \/ Says(c, status)
<1>1. ASSUME Ended PROVE Moves(c)
  BY <1>1, EndMoves
<1>2. ASSUME NEW id, NEW row, NEW status, Stores(c, id, row, status) PROVE Ended
  BY <1>2 DEF Stores
<1>3. create_alias(c) \/ list_aliases(c) \/ get_alias(c) => Ended
  <2>1. create_alias(c) => \/ Ended \/ \E id, row, status : Stores(c, id, row, status)
    BY DEF create_alias
  <2> QED  BY <1>2, <2>1 DEF list_aliases, get_alias
<1>4. ASSUME NEW row, AliasWrite(c, row) PROVE Ended
  <2>1. Ended \/ \E id, status : Stores(c, id, row, status)
    BY <1>4 DEF AliasWrite
  <2> QED  BY <1>2, <2>1
<1>5. replace_alias_assignment(c) \/ replace_alias_status(c) => Ended
  BY <1>4 DEF replace_alias_assignment, replace_alias_status
<1>6. create_catalog_resource(c) \/ list_catalog_resources(c) \/ get_catalog_resource(c) => Ended
  <2>1. create_catalog_resource(c) => \/ Ended \/ \E id, row, status : Stores(c, id, row, status)
    BY DEF create_catalog_resource
  <2> QED  BY <1>2, <2>1 DEF list_catalog_resources, get_catalog_resource
<1>7. ASSUME NEW status, Confirms(c, status) PROVE Moves(c)
  <2>1. AuditRefused(c) \/ \E replayed : req' = Answered(c, status, replayed)
    BY <1>7 DEF Confirms
  <2>2. ASSUME NEW replayed, req' = Answered(c, status, replayed) PROVE Moves(c)
    BY <2>2, AnsweredAloof DEF Moves
  <2> QED  BY <1>1, <2>1, <2>2
<1>8. ReadPublication(c) => Moves(c)
  <2> HAVE ReadPublication(c)
  <2> PICK seen : seen = IF resource[req[c].target] = None THEN 0 ELSE resource[req[c].target].stamp
    OBVIOUS
  <2>1. \/ Ended \/ \E status : Confirms(c, status)
        \/ req' = [req EXCEPT ![c].pc = "checked", ![c].seen = seen]
    BY DEF ReadPublication
  <2> QED  BY <1>1, <1>7, <2>1, PcMoves
<1>9. publish_skill_version(c) \/ publish_bok_version(c) => Ended
  <2>1. ASSUME NEW type, NEW status, Publishes(c, type, status) PROVE Ended
    BY <2>1 DEF Publishes
  <2> QED  BY <2>1 DEF publish_skill_version, publish_bok_version
<1>10. get_skill_version(c) \/ get_bok_version(c) \/ get_skill_status(c) \/ get_policy(c) => Ended
  BY DEF get_skill_version, get_bok_version, get_skill_status, get_policy
<1>11. replace_skill_status(c) \/ replace_policy(c) => Ended
  <2>1. replace_skill_status(c) \/ replace_policy(c) =>
           Ended \/ \E id, row, status : Stores(c, id, row, status)
    BY DEF replace_skill_status, replace_policy
  <2> QED  BY <1>2, <2>1
<1> HIDE DEF Ended
<1> QED  BY <1>1, <1>3, <1>5, <1>6, <1>8, <1>9, <1>10, <1>11 DEF CatalogStep

\* Administrators wait for what a retrieval holds.
LEMMA AdminLocks ==
    ASSUME StoreSafe, LockSafe, NEW c \in Clients, AdminStep(c)
    PROVE  LockSafe'
<1>1. RequestTypes /\ \A s \in served' : s.current
  BY DEF StoreSafe, LockSafe, AdminStep
<1>2. OthersKept(c)
  BY DEF AdminStep, WaitsForLocks, OthersKept, RowKept
<1>3. Moves(c)
  BY <1>1, ControlMoves, CatalogMoves DEF AdminStep
<1>4. PICK q : req' = [req EXCEPT ![c] = q] /\ Aloof(q)
  BY <1>3 DEF Moves
<1> QED  BY <1>1, <1>2, <1>4, AloofSound, MoveLocks

\* Every step of an agent's call.
LEMMA GovernedLocks ==
    ASSUME StoreSafe, LockSafe, NEW c \in Clients, GovernedStep(c)
    PROVE  LockSafe'
<1>1. CASE lose_call(c)
  <2>1. /\ req' = [req EXCEPT ![c] = NoRequest]
        /\ UNCHANGED <<principal, credential, grant, resource, served>>
    BY <1>1 DEF lose_call, Lose, identity
  <2>2. Aloof(NoRequest)
    BY DEF Aloof, Retrieving, HeldPcs, NoRequest
  <2>3. OthersKept(c)
    BY <2>1 DEF OthersKept, RowKept
  <2>4. RequestTypes /\ \A s \in served' : s.current
    BY <2>1 DEF StoreSafe, LockSafe
  <2> QED  BY <2>1, <2>2, <2>3, <2>4, AloofSound, MoveLocks
<1>2. CASE Passes(c)
  BY <1>2, PassesLocks
<1>3. GovernedStep(c) => lose_call(c) \/ Passes(c)
  BY CallPasses, SkillPasses, StatementPasses, ContentPasses, DiscoveryPasses, InvocationPasses
     DEF GovernedStep
<1> QED  BY <1>1, <1>2, <1>3

\* The registry writes the rows of its servers and tools, which no retrieval holds.
LEMMA OwnerLocks ==
    ASSUME StoreSafe, LockSafe, OwnerStep
    PROVE  LockSafe'
<1>1. /\ UNCHANGED <<principal, credential, grant, req, served>>
      /\ \E rows : DOMAIN rows = McpIds /\ project_mcp(rows)
  <2>1. \E rows : DOMAIN rows = McpIds /\ Registry(rows)
    <3>1. DOMAIN owner = McpIds
      BY DEF StoreSafe, StoreTypes
    <3> QED  BY <3>1 DEF OwnerStep, register, update_server, deactivate_server, update_tool
  <2> QED  BY <2>1 DEF Registry, identity
<1>2. \A id \in Resources \ McpIds : resource'[id] = resource[id]
  BY <1>1 DEF project_mcp
<1>3. ASSUME NEW d \in Clients PROVE LockSound(req[d])'
  <2> PICK r : r = req[d]
    OBVIOUS
  <2>1. LockSound(r) /\ Sound(r) /\ req'[d] = r
    BY <1>1 DEF LockSafe, StoreSafe
  <2>2. r.op \in RetrievalRoutes /\ r.pc \in Retrieving => r.target \in Resources \ McpIds
    <3> HAVE r.op \in RetrievalRoutes /\ r.pc \in Retrieving
    <3>1. r.op \in Operations /\ \E in \in Inputs[r.op] : r.target = in[1]
      BY <2>1 DEF Sound, Finished, Retrieving
    <3>2. r.target \in Resources /\ TypeOf[r.target] = "bok_collection"
      BY <3>1, SurfaceAssumption DEF RetrievalRoutes
    <3>3. r.target \notin McpIds
      BY <3>2, SurfaceAssumption DEF McpIds
    <3> QED  BY <3>2, <3>3
  <2>3. r.op \in RetrievalRoutes /\ r.pc \in Retrieving => resource'[r.target] = resource[r.target]
    BY <1>2, <2>2
  <2>4. LockSound(r)'
    BY <1>1, <2>1, <2>3 DEF LockSound, find_active, Retrieving
  <2> QED  BY <2>1, <2>4
<1>4. \A d \in Clients : req'[d].pc \in HeldPcs => req'[d].value.current
  BY <1>1 DEF LockSafe
<1>5. \A s \in served' : s.current
  BY <1>1 DEF LockSafe
<1> QED  BY <1>3, <1>4, <1>5 DEF LockSafe

\* What was found under authority stays under it, whoever steps.
LEMMA LockStep ==
    ASSUME StoreSafe, LockSafe, [SeedNext]_svars
    PROVE  LockSafe'
<1>1. ASSUME NEW c \in Clients, GovernedStep(c) \/ AdminStep(c) PROVE LockSafe'
  BY <1>1, GovernedLocks, AdminLocks
<1>2. CASE OwnerStep
  BY <1>2, OwnerLocks
<1>3. ASSUME UNCHANGED <<principal, credential, grant, resource, req, served>> PROVE LockSafe'
  BY <1>3, RestLocks DEF RowKept
<1>4. CASE RetentionEnds /\ UNCHANGED <<publication, mcpvars, served>>
  BY <1>3, <1>4 DEF RetentionEnds, identity
<1>5. CASE check_routing \/ print_digest \/ UNCHANGED svars
  BY <1>3, <1>5 DEF check_routing, print_digest, svars, gvars, kvars, cvars, identity
<1>6. CASE ((\E reconcile \in BOOLEAN : seed(reconcile)) \/ bootstrap_mcp_demo) /\ WaitsForLocks
  <2>1. UNCHANGED <<req, served>>
    BY <1>6 DEF seed, bootstrap_mcp_demo
  <2> QED  BY <1>6, <2>1, RestLocks DEF WaitsForLocks, RowKept
<1> QED  BY <1>1, <1>2, <1>4, <1>5, <1>6 DEF SeedNext, GovernedNext

\* Nothing is held, nor has been shown, at the start.
LEMMA LockStart ==
    ASSUME SeedInit
    PROVE  LockSafe
<1>1. req = [c \in Clients |-> NoRequest] /\ served = {}
  BY DEF SeedInit, GovernedInit, CatalogInit, ControlInit, FreshInit
<1>2. Aloof(NoRequest)
  BY DEF Aloof, Retrieving, HeldPcs, NoRequest
<1> QED  BY <1>1, <1>2, AloofSound DEF LockSafe

-----------------------------------------------------------------------------
(* What the store promises *)

\* Of two changes that were decided on the same version of a row, one is told of the conflict,
\* whoever makes them and whatever the seeds do between (replace_principal_status,
\* replace_alias_*, replace_skill_status and the consumption policy).
THEOREM ChangesAreSerial == SeedSpec => []WritesAreSerial
<1>1. StoreSafe => WritesAreSerial
  BY DEF StoreSafe
<1> QED  BY <1>1, StoreIsSafe, PTL

\* A version of a skill or of a collection is the one that its only publication sent
\* (publish_skill_version, publish_bok_version).
THEOREM VersionIsPublishedOnce == SeedSpec => []OnePublication
<1>1. StoreSafe => OnePublication
  BY DEF StoreSafe, PublicationStands, OnePublication, Shown
<1> QED  BY <1>1, StoreIsSafe, PTL

\* Neither a change nor an answer to an agent rests on a key, a grant, a principal or a
\* resource that was out when the request came and stayed out (gateway/skills.py,
\* gateway/mcp.py, bok/retrieval.py), while administrators, the registry and the seeds write.
THEOREM RevokedIsServedNothing == SeedSpec => []RevokedServesNothing
<1>1. StoreSafe => RevokedServesNothing
  BY DEF StoreSafe, ShownSound, RevokedServesNothing, RevokedStaysOut
<1> QED  BY <1>1, StoreIsSafe, PTL

\* BoK content is read while its authority stands: the rows that lock_current_authority found
\* active are held until the content is read, and what waits for them changes nothing under it.
THEOREM ContentIsUnderAuthority == SeedSpec => []ContentUnderAuthority
<1>1. LockSafe => ContentUnderAuthority
  BY DEF LockSafe, ContentUnderAuthority
<1>2. SeedSpec => []LockSafe
  <2>1. SeedInit => LockSafe
    BY LockStart
  <2>2. StoreSafe /\ LockSafe /\ [SeedNext]_svars => LockSafe'
    BY LockStep
  <2> QED  BY <2>1, <2>2, StoreIsSafe, PTL DEF SeedSpec
<1> QED  BY <1>1, <1>2, PTL

\* The MCP session is initialized once, and under its lock (GrafanaMCPClient._initialize).
THEOREM SessionHasOneHandshake == SeedSpec => []OneHandshake
<1>1. StoreSafe => OneHandshake
  BY DEF StoreSafe, SessionLocked, OneHandshake
<1> QED  BY <1>1, StoreIsSafe, PTL

\* A revoked grant stays as history, and an authority that is granted anew is active in one
\* row (create_grant, restore_grant and the unique index on active grants).
THEOREM RevocationIsFinal == SeedSpec => RevokedForGood
<1>1. StoreSafe /\ [SeedNext]_svars => [GrantsStand]_svars
  BY StoreStep
<1> QED  BY <1>1, StoreIsSafe, PTL DEF SeedSpec, RevokedForGood, GrantsStand
=============================================================================
