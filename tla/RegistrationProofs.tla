-------------------------- MODULE RegistrationProofs --------------------------
(***************************************************************************)
(* Theorems about the check-then-insert handlers, for every set of         *)
(* requests, bodies and initial rows, and any number of faults.            *)
(***************************************************************************)
EXTENDS Registration, TLAPS

-----------------------------------------------------------------------------
(* Where in its handler a request of each kind can be, and what its        *)
(* session holds there.                                                    *)

StageAt(b, l) ==
    /\ b \in Bodies
    /\ l = "CheckKey" => b.op \in Creators
    /\ l = "GetUser" => b.op \in {"put", "hook", "leave"}
    /\ l \in {"GetEntity", "ReadOwnership", "Update"} => b.op = "put"
    /\ l = "Insert" => b.op \in Creators \cup {"put", "hook"}
    /\ l \in SeedStages => b.op = "seed"

Shape ==
    /\ DOMAIN body = Requests /\ DOMAIN pending = Requests /\ DOMAIN loaded = Requests
    /\ \A r \in Requests : At(r, "idle") \/ StageAt(body[r], pc[r])

\* What a seed has flushed before each of its stages.
Flushed(r) ==
    CASE pc[r] = "SeedUsers"     -> {}
      [] pc[r] = "SeedEntity"    -> SeedRows(r, "SeedUsers")
      [] pc[r] = "SeedOwnership" -> SeedRows(r, "SeedUsers") \cup SeedRows(r, "SeedEntity")
      [] pc[r] = "SeedProposals" -> SeedRows(r, "SeedUsers") \cup SeedRows(r, "SeedEntity")
                                        \cup SeedRows(r, "SeedOwnership")
      [] pc[r] = "Commit"        -> RowsOf(r)
      [] OTHER                   -> {}

\* A session holds rows of its own request only, and a seed all it has flushed.
PendingInv ==
    \A r \in Requests :
        /\ pending[r] # {} => pc[r] \in SeedStages \cup {"Commit"} /\ body[r].op # "leave"
        /\ pending[r] \subseteq RowsOf(r)
        /\ ~At(r, "idle") /\ body[r].op = "seed" => pending[r] = Flushed(r)

\* No two sessions hold one key, and none holds a key that is stored.
KeyInv ==
    /\ UniqueKeys
    /\ \A r \in Requests : KeysOf(pending[r]) \cap KeysOf(rows) = {}
    /\ \A q, r \in Requests : q # r => KeysOf(pending[q]) \cap KeysOf(pending[r]) = {}

\* Stored rows are rows, and carry the name of a request only once it is done.
RowInv ==
    \A row \in rows :
        /\ DOMAIN row = Columns
        /\ row.id \in Requests => At(row.id, "done")
        /\ row.table = "ownership" => \A j, k \in row.keys : j = k

Inv == TypeOK /\ Shape /\ PendingInv /\ KeyInv /\ RowInv

-----------------------------------------------------------------------------
(* The rows a request inserts.                                             *)

\* Rows are rows, carry the request's name, and ownership rows have one key.
LEMMA OwnRows ==
    ASSUME NEW r \in Requests, body[r] \in Bodies, body[r].op # "leave",
           NEW row \in RowsOf(r)
    PROVE  /\ DOMAIN row = Columns /\ row.id = r
           /\ row.table = "ownership" => \A j, k \in row.keys : j = k
<1>1. CASE body[r].op = "seed"
  BY <1>1 DEF RowsOf, SeedRows, SeedStages, Row, Columns
<1>2. CASE body[r].op # "seed"
  <2>1. row = NewRow(r) /\ DOMAIN row = Columns /\ row.id = r
        /\ row.table = TableOf(body[r].op) /\ row.keys = body[r].keys
    BY <1>2 DEF RowsOf, NewRow, Row, Columns
  <2>2. body[r].op \in Creators \cup {"put", "hook"}
    BY <1>2, RegistrationAssumption
  <2>3. row.table = "ownership" => body[r].op = "put"
    BY <2>1, <2>2 DEF TableOf, Creators
  <2>4. body[r].op = "put" => body[r].keys = {Owner(body[r].user, body[r].entity)}
    BY RegistrationAssumption
  <2> QED  BY <2>1, <2>3, <2>4
<1> QED  BY <1>1, <1>2

\* The rows of one request have different keys.
LEMMA OwnKeysDistinct ==
    ASSUME NEW r \in Requests
    PROVE  \A a, b \in RowsOf(r) : a.keys \cap b.keys # {} => a = b
<1>1. CASE body[r].op # "seed"
  BY <1>1 DEF RowsOf
<1>2. CASE body[r].op = "seed"
  <2> SUFFICES ASSUME NEW a \in RowsOf(r), NEW b \in RowsOf(r),
                      NEW k \in a.keys \cap b.keys
               PROVE  a = b
    OBVIOUS
  <2>1. ASSUME NEW c \in RowsOf(r), k \in c.keys
        PROVE  \/ \E e \in SeedExternalIds :
                    k = ExternalId(e) /\ c = Row("users", r, {ExternalId(e)})
               \/ k \in {Ticker(SeedTicker), Lei(SeedLei)}
                  /\ c = Row("entities", r, {Ticker(SeedTicker), Lei(SeedLei)})
               \/ k = Owner(r, r) /\ c = Row("ownership", r, {Owner(r, r)})
               \/ \E p \in SeedProposals :
                    k = ProposalId(p) /\ c = Row("proposals", r, {ProposalId(p)})
    BY <1>2, <2>1 DEF RowsOf, SeedRows, SeedStages, Row
  <2>2. /\ \A e, p, u, n : /\ ExternalId(e) # ProposalId(p) /\ ExternalId(e) # Owner(u, n)
                           /\ ProposalId(p) # Owner(u, n)
                           /\ ExternalId(e) \notin {Ticker(SeedTicker), Lei(SeedLei)}
                           /\ ProposalId(p) \notin {Ticker(SeedTicker), Lei(SeedLei)}
                           /\ Owner(u, n) \notin {Ticker(SeedTicker), Lei(SeedLei)}
        /\ \A e, f : ExternalId(e) = ExternalId(f) => e = f
        /\ \A p, q : ProposalId(p) = ProposalId(q) => p = q
    BY DEF ExternalId, Ticker, Lei, Owner, ProposalId
  <2>3. k \in a.keys /\ k \in b.keys
    OBVIOUS
  <2>4. CASE \E e \in SeedExternalIds : k = ExternalId(e)
    <3>1. PICK e \in SeedExternalIds : k = ExternalId(e)
      BY <2>4
    <3>2. \A c \in RowsOf(r) : k \in c.keys => c = Row("users", r, {ExternalId(e)})
      BY <2>1, <2>2, <3>1
    <3> QED  BY <2>3, <3>2
  <2>5. CASE k \in {Ticker(SeedTicker), Lei(SeedLei)}
    <3>1. \A c \in RowsOf(r) : k \in c.keys =>
            c = Row("entities", r, {Ticker(SeedTicker), Lei(SeedLei)})
      BY <2>1, <2>2, <2>5
    <3> QED  BY <2>3, <3>1
  <2>6. CASE k = Owner(r, r)
    <3>1. \A c \in RowsOf(r) : k \in c.keys => c = Row("ownership", r, {Owner(r, r)})
      BY <2>1, <2>2, <2>6
    <3> QED  BY <2>3, <3>1
  <2>7. CASE \E p \in SeedProposals : k = ProposalId(p)
    <3>1. PICK p \in SeedProposals : k = ProposalId(p)
      BY <2>7
    <3>2. \A c \in RowsOf(r) : k \in c.keys => c = Row("proposals", r, {ProposalId(p)})
      BY <2>1, <2>2, <3>1
    <3> QED  BY <2>3, <3>2
  <2> QED  BY <2>1, <2>3, <2>4, <2>5, <2>6, <2>7
<1> QED  BY <1>1, <1>2

\* What a flush inserts belongs to the request.
LEMMA NewRowsOwn ==
    ASSUME NEW r \in Requests, pc[r] \in Stages, StageAt(body[r], pc[r])
    PROVE  NewRows(r) \subseteq RowsOf(r) /\ body[r].op # "leave"
<1>1. CASE pc[r] \in SeedStages
  BY <1>1 DEF NewRows, RowsOf, StageAt
<1>2. CASE pc[r] = "Insert"
  BY <1>2 DEF NewRows, RowsOf, StageAt, SeedStages, Creators
<1> QED  BY <1>1, <1>2 DEF Stages

\* An UPDATE keeps table, identifier and keys.
LEMMA WrittenKeeps ==
    ASSUME NEW r, NEW row, DOMAIN row = Columns
    PROVE  LET w == Written(row, r) IN
           /\ DOMAIN w = Columns
           /\ w.table = row.table /\ w.id = row.id /\ w.keys = row.keys
<1>1. /\ \A r1 : /\ DOMAIN Updated(row, r1) = Columns
               /\ Updated(row, r1).table = row.table
               /\ Updated(row, r1).id = row.id
               /\ Updated(row, r1).keys = row.keys
    /\ LET o == [row EXCEPT !.active = FALSE] IN
         DOMAIN o = Columns /\ o.table = row.table /\ o.id = row.id /\ o.keys = row.keys
  BY DEF Updated, Columns
<1> QED  BY <1>1 DEF Written

-----------------------------------------------------------------------------
(* Keys: steps that store nothing, that flush, that commit.                *)

\* Rows in a subset have keys in a subset.
LEMMA KeysMonotone ==
    ASSUME NEW S, NEW T, S \subseteq T
    PROVE  KeysOf(S) \subseteq KeysOf(T)
BY DEF KeysOf

\* Sessions that let go of rows, or keep them, disturb no key.
LEMMA QuietKeepsKeys ==
    ASSUME KeyInv, rows' = rows, \A q \in Requests : pending'[q] \subseteq pending[q]
    PROVE  KeyInv'
<1>1. \A q \in Requests : KeysOf(pending'[q]) \subseteq KeysOf(pending[q])
  BY KeysMonotone
<1>2. KeysOf(rows)' = KeysOf(rows) /\ \A q \in Requests : KeysOf(pending[q])' = KeysOf(pending'[q])
  BY DEF KeysOf
<1>3. UniqueKeys'
  BY DEF KeyInv, UniqueKeys
<1>4. \A q \in Requests : KeysOf(pending[q])' \cap KeysOf(rows)' = {}
  BY <1>1, <1>2 DEF KeyInv
<1>5. \A q, r \in Requests : q # r => KeysOf(pending[q])' \cap KeysOf(pending[r])' = {}
  BY <1>1, <1>2 DEF KeyInv
<1> QED  BY <1>3, <1>4, <1>5 DEF KeyInv

\* The INSERT flushes keys that are neither stored nor held.
LEMMA InsertKeepsKeys ==
    ASSUME KeyInv, DOMAIN pending = Requests, NEW r \in Requests, rows' = rows,
           NobodyHolds(r, KeysOf(NewRows(r))), ~KeyTaken(KeysOf(NewRows(r))),
           pending' = [pending EXCEPT ![r] = @ \cup NewRows(r)]
    PROVE  KeyInv'
<1>1. KeysOf(rows)' = KeysOf(rows)
  BY DEF KeysOf
<1>2. \A q \in Requests \ {r} : KeysOf(pending[q])' = KeysOf(pending[q])
  BY DEF KeysOf
<1>3. KeysOf(pending[r])' = KeysOf(pending[r]) \cup KeysOf(NewRows(r))
  BY DEF KeysOf
<1>4. UniqueKeys'
  BY DEF KeyInv, UniqueKeys
<1>5. \A q \in Requests : KeysOf(pending[q])' \cap KeysOf(rows)' = {}
  BY <1>1, <1>2, <1>3 DEF KeyInv, KeyTaken
<1>6. \A q \in Requests \ {r} : KeysOf(pending[q])' \cap KeysOf(pending[r])' = {}
  BY <1>2, <1>3 DEF KeyInv, NobodyHolds
<1>7. \A p, q \in Requests : p # q => KeysOf(pending[p])' \cap KeysOf(pending[q])' = {}
  BY <1>2, <1>6 DEF KeyInv
<1> QED  BY <1>4, <1>5, <1>7 DEF KeyInv

\* A commit changes no key of a stored row and adds what its session held.
LEMMA StoreKeepsKeys ==
    ASSUME Inv, NEW r \in Requests, Store(r), pending' = [pending EXCEPT ![r] = {}]
    PROVE  KeyInv'
<1> USE DEF Inv
<1>1. \A row \in rows : Written(row, r).keys = row.keys
  BY WrittenKeeps DEF RowInv
<1>2. rows' = {Written(row, r) : row \in rows} \cup pending[r]
  BY DEF Store
<1>3. KeysOf(rows)' = KeysOf(rows) \cup KeysOf(pending[r])
  BY <1>1, <1>2 DEF KeysOf
<1>4. UniqueKeys'
  <2> SUFFICES ASSUME NEW a \in rows', NEW b \in rows', NEW k \in a.keys \cap b.keys
               PROVE  a = b
    BY DEF UniqueKeys
  <2>1. CASE a \in pending[r] /\ b \in pending[r]
    BY <2>1, OwnKeysDistinct DEF PendingInv
  <2>2. CASE a \notin pending[r] /\ b \notin pending[r]
    <3>1. PICK c \in rows, d \in rows : a = Written(c, r) /\ b = Written(d, r)
      BY <1>2, <2>2
    <3>2. k \in c.keys \cap d.keys
      BY <1>1, <3>1
    <3> QED  BY <3>1, <3>2 DEF KeyInv, UniqueKeys
  <2>3. ASSUME NEW c \in pending[r], NEW d \in rows, k \in c.keys, k \in Written(d, r).keys
        PROVE  FALSE
    <3>1. k \in KeysOf(pending[r]) /\ k \in KeysOf(rows)
      BY <1>1, <2>3 DEF KeysOf
    <3> QED  BY <3>1 DEF KeyInv
  <2> QED  BY <1>2, <2>1, <2>2, <2>3
<1>5. KeysOf(pending[r])' = {} /\ \A q \in Requests \ {r} : KeysOf(pending[q])' = KeysOf(pending[q])
  BY DEF KeysOf, Shape
<1>6. \A q \in Requests : KeysOf(pending[q])' \cap KeysOf(rows)' = {}
  BY <1>3, <1>5 DEF KeyInv
<1>7. \A p, q \in Requests : p # q => KeysOf(pending[p])' \cap KeysOf(pending[q])' = {}
  BY <1>5 DEF KeyInv
<1> QED  BY <1>4, <1>6, <1>7 DEF KeyInv

-----------------------------------------------------------------------------
(* What a step of a handler does, by kind.                                 *)

\* It reads, waits or answers without a commit.
Quiet(r) ==
    /\ rows' = rows
    /\ \/ pending' = pending /\ pc[r] \notin SeedStages \cup {"Commit"}
       \/ pending' = [pending EXCEPT ![r] = {}] /\ pc'[r] = "done"
    /\ reply' = reply \/ (pc'[r] = "done" /\ \E code \in {"404", "409", "422", "500"} :
                                                reply' = [reply EXCEPT ![r] = code])

\* It flushes.
Flushes(r) ==
    /\ pc[r] \in Stages /\ rows' = rows /\ reply' = reply
    /\ NobodyHolds(r, KeysOf(NewRows(r))) /\ ~KeyTaken(KeysOf(NewRows(r)))
    /\ pending' = [pending EXCEPT ![r] = @ \cup NewRows(r)]
    /\ pc'[r] = After(pc[r])

\* It commits.
Commits(r) ==
    /\ Store(r) /\ pending' = [pending EXCEPT ![r] = {}] /\ pc'[r] = "done"
    /\ \E code \in {"200", "500"} : reply' = [reply EXCEPT ![r] = code]

\* A step moves one request, whose body stays what it was.
Moves(r) ==
    /\ pc[r] \notin {"idle", "done"} /\ body' = body
    /\ \E l \in Labels \ {"idle"} : pc' = [pc EXCEPT ![r] = l] /\ StageAt(body[r], l)
    /\ loaded' = loaded \/ \E stored : loaded' = [loaded EXCEPT ![r] = stored]

\* Every step of a handler is of one of the three kinds.
LEMMA StepKinds ==
    ASSUME Inv, NEW r \in Requests, Step(r) \/ Fail(r)
    PROVE  Moves(r) /\ (Quiet(r) \/ Flushes(r) \/ Commits(r))
<1> USE DEF Inv
<1>0. DOMAIN pc = Requests /\ (pc[r] # "idle" => StageAt(body[r], pc[r]))
  BY DEF TypeOK, Shape, At
<1>1. CASE CheckKey(r)
  <2>1. body[r].op \in Creators
    BY <1>0, <1>1 DEF CheckKey, At, StageAt
  <2>2. Moves(r)
    BY <1>0, <1>1, <2>1
       DEF CheckKey, At, Goto, Respond, Moves, Labels, Stages, SeedStages, StageAt
  <2>3. Quiet(r)
    BY <1>0, <1>1 DEF CheckKey, At, Goto, Respond, Quiet, SeedStages
  <2> QED  BY <2>2, <2>3
<1>2. CASE GetUser(r)
  <2>1. body[r].op \in {"put", "hook", "leave"}
    BY <1>0, <1>2 DEF GetUser, At, StageAt
  <2>2. Moves(r)
    BY <1>0, <1>2, <2>1
       DEF GetUser, At, Goto, Respond, Moves, Labels, Stages, SeedStages, StageAt
  <2>3. Quiet(r)
    BY <1>0, <1>2 DEF GetUser, At, Goto, Respond, Quiet, SeedStages
  <2> QED  BY <2>2, <2>3
<1>3. CASE GetEntity(r)
  <2>1. Moves(r)
    BY <1>0, <1>3
       DEF GetEntity, At, Goto, Respond, Moves, Labels, Stages, SeedStages, StageAt
  <2>2. Quiet(r)
    BY <1>0, <1>3 DEF GetEntity, At, Goto, Respond, Quiet, SeedStages
  <2> QED  BY <2>1, <2>2
<1>4. CASE ReadOwnership(r)
  <2>0. StageAt(body[r], "Insert") /\ StageAt(body[r], "Update")
    BY <1>0, <1>4 DEF ReadOwnership, At, StageAt, SeedStages
  <2>1. Moves(r)
    BY <1>0, <2>0, <1>4 DEF ReadOwnership, At, Goto, Moves, Labels, Stages
  <2>2. Quiet(r)
    BY <1>0, <1>4 DEF ReadOwnership, At, Goto, Quiet, SeedStages
  <2> QED  BY <2>1, <2>2
<1>5. CASE Insert(r)
  <2>1. Moves(r)
    BY <1>0, <1>5
       DEF Insert, At, Goto, Respond, Moves, Labels, Stages, SeedStages, StageAt, After
  <2>2. Quiet(r) \/ Flushes(r)
    BY <1>0, <1>5 DEF Insert, At, Goto, Respond, Quiet, Flushes
  <2> QED  BY <2>1, <2>2
<1>6. CASE Update(r)
  <2>0. StageAt(body[r], "Commit")
    BY <1>0, <1>6 DEF Update, At, StageAt, SeedStages
  <2>1. Moves(r)
    BY <1>0, <2>0, <1>6 DEF Update, At, Goto, Moves, Labels
  <2>2. Quiet(r)
    BY <1>0, <1>6 DEF Update, At, Goto, Quiet, SeedStages
  <2> QED  BY <2>1, <2>2
<1>7. CASE Commit(r)
  <2>0. StageAt(body[r], "done")
    BY <1>0, <1>7 DEF Commit, Store, At, StageAt, SeedStages
  <2>1. Moves(r)
    BY <1>0, <2>0, <1>7 DEF Commit, Store, At, Respond, Moves, Labels
  <2>2. Commits(r)
    BY <1>0, <1>7 DEF Commit, Store, At, Respond, Commits
  <2> QED  BY <2>1, <2>2
<1>8. CASE Fail(r)
  <2>1. Moves(r)
    BY <1>0, <1>8 DEF Fail, InFlight, Moves, Labels, Stages, SeedStages, StageAt
  <2>2. Quiet(r) \/ Commits(r)
    BY <1>0, <1>8 DEF Fail, Quiet, Commits
  <2> QED  BY <2>1, <2>2
<1> QED  BY <1>1, <1>2, <1>3, <1>4, <1>5, <1>6, <1>7, <1>8 DEF Step

-----------------------------------------------------------------------------
(* The invariant.                                                          *)

\* Types, and who is where.
LEMMA StepKeepsShape ==
    ASSUME Inv, NEW r \in Requests, Moves(r), Quiet(r) \/ Flushes(r) \/ Commits(r),
           failed' \subseteq Requests
    PROVE  TypeOK' /\ Shape'
<1> USE DEF Inv
<1>1. PICK l \in Labels \ {"idle"} : pc' = [pc EXCEPT ![r] = l] /\ StageAt(body[r], l)
  BY DEF Moves
<1>2. pc' \in [Requests -> Labels]
  BY <1>1 DEF TypeOK
<1>3. reply' \in [Requests -> {"", "200", "404", "409", "422", "500"}]
  BY DEF TypeOK, Quiet, Flushes, Commits
<1>4. \A q \in Requests : body'[q] \in Bodies \/ (pc'[q] = "idle" /\ body'[q] = NoBody)
  BY <1>1 DEF TypeOK, Moves, At, StageAt
<1>5. /\ DOMAIN body' = Requests /\ DOMAIN pending' = Requests
      /\ DOMAIN loaded' = Requests
  BY DEF Shape, Moves, Quiet, Flushes, Commits
<1>6. \A q \in Requests : pc'[q] = "idle" \/ StageAt(body'[q], pc'[q])
  BY <1>1 DEF Shape, TypeOK, Moves, At
<1>7. TypeOK'
  BY <1>2, <1>3, <1>4 DEF TypeOK, At
<1>8. Shape'
  BY <1>5, <1>6 DEF Shape, At, StageAt
<1> QED  BY <1>7, <1>8

\* A flush adds the rows of its stage.
LEMMA FlushGrows ==
    ASSUME Inv, NEW r \in Requests, Moves(r), Flushes(r)
    PROVE  /\ pending'[r] \subseteq RowsOf(r)
           /\ pc'[r] \in SeedStages \cup {"Commit"} /\ body[r].op # "leave"
           /\ body[r].op = "seed" => pending'[r] = Flushed(r)'
<1> USE DEF Inv
<1>1. StageAt(body[r], pc[r])
  BY DEF Shape, Moves, At
<1>2. pending'[r] = pending[r] \cup NewRows(r) /\ pc'[r] = After(pc[r])
  BY DEF Flushes, Shape
<1>3. pending'[r] \subseteq RowsOf(r)
  BY <1>1, <1>2, NewRowsOwn DEF Flushes, PendingInv
<1>4. pc'[r] \in SeedStages \cup {"Commit"} /\ body[r].op # "leave"
  BY <1>1, <1>2, NewRowsOwn DEF Flushes, Stages, SeedStages, After
<1>5. ASSUME body[r].op = "seed" PROVE pending'[r] = Flushed(r)'
  <2>1. pending[r] = Flushed(r) /\ pc[r] \in SeedStages
    BY <1>1, <1>5 DEF PendingInv, Flushes, Moves, At, Stages, StageAt, Creators
  <2>2. \A stage : SeedRows(r, stage)' = SeedRows(r, stage)
    BY DEF SeedRows, Row
  <2>3. RowsOf(r)' = SeedRows(r, "SeedUsers") \cup SeedRows(r, "SeedEntity")
                       \cup SeedRows(r, "SeedOwnership") \cup SeedRows(r, "SeedProposals")
    BY <1>5, <2>2 DEF RowsOf, SeedStages, Moves
  <2>4. pending'[r] = Flushed(r) \cup SeedRows(r, pc[r])
    BY <1>2, <2>1 DEF NewRows
  <2>5. CASE pc[r] = "SeedUsers"
    BY <1>2, <2>2, <2>4, <2>5 DEF Flushed, After
  <2>6. CASE pc[r] = "SeedEntity"
    BY <1>2, <2>2, <2>4, <2>6 DEF Flushed, After
  <2>7. CASE pc[r] = "SeedOwnership"
    BY <1>2, <2>2, <2>4, <2>7 DEF Flushed, After
  <2>8. CASE pc[r] = "SeedProposals"
    BY <1>2, <2>3, <2>4, <2>8 DEF Flushed, After
  <2> QED  BY <2>1, <2>5, <2>6, <2>7, <2>8 DEF SeedStages
<1> QED  BY <1>3, <1>4, <1>5

\* What the sessions hold.
LEMMA StepKeepsPending ==
    ASSUME Inv, NEW r \in Requests, Moves(r), Quiet(r) \/ Flushes(r) \/ Commits(r)
    PROVE  PendingInv'
<1> USE DEF Inv
<1>1. \A q \in Requests : RowsOf(q)' = RowsOf(q)
  BY DEF Moves, RowsOf, NewRow, SeedRows, Row
<1>2. \A q \in Requests \ {r} :
        pc'[q] = pc[q] /\ pending'[q] = pending[q] /\ Flushed(q)' = Flushed(q)
  <2>1. \A q \in Requests \ {r} : pc'[q] = pc[q] /\ pending'[q] = pending[q]
    BY DEF TypeOK, Shape, Moves, Quiet, Flushes, Commits
  <2>2. \A q, stage : SeedRows(q, stage)' = SeedRows(q, stage)
    BY DEF SeedRows, Row
  <2> QED  BY <1>1, <2>1, <2>2 DEF Flushed
<1>3. \A q \in Requests \ {r} :
        /\ pending'[q] # {} => pc'[q] \in SeedStages \cup {"Commit"} /\ body'[q].op # "leave"
        /\ pending'[q] \subseteq RowsOf(q)'
        /\ pc'[q] # "idle" /\ body'[q].op = "seed" => pending'[q] = Flushed(q)'
  BY <1>1, <1>2 DEF PendingInv, Moves, At
<1>4. CASE Flushes(r)
  <2>1. /\ pending'[r] # {} => pc'[r] \in SeedStages \cup {"Commit"} /\ body'[r].op # "leave"
        /\ pending'[r] \subseteq RowsOf(r)'
        /\ body'[r].op = "seed" => pending'[r] = Flushed(r)'
    <3>1. /\ pending'[r] \subseteq RowsOf(r)
          /\ pc'[r] \in SeedStages \cup {"Commit"} /\ body[r].op # "leave"
          /\ body[r].op = "seed" => pending'[r] = Flushed(r)'
      BY <1>4, FlushGrows
    <3>2. body'[r] = body[r]
      BY DEF Moves
    <3> QED  BY <1>1, <3>1, <3>2
  <2> QED  BY <1>3, <2>1 DEF PendingInv, At, SeedStages
<1>5. CASE pending' = [pending EXCEPT ![r] = {}] /\ pc'[r] = "done"
  <2>1. pending'[r] = {} /\ Flushed(r)' = {}
    BY <1>5 DEF Shape, Flushed
  <2> QED  BY <1>3, <2>1 DEF PendingInv, At, SeedStages
<1>6. CASE pending' = pending /\ pc[r] \notin SeedStages \cup {"Commit"}
  <2>1. pending'[r] = {} /\ body'[r].op # "seed"
    BY <1>6 DEF PendingInv, Shape, Moves, At, StageAt, TypeOK, Labels, Stages, Creators
  <2> QED  BY <1>3, <2>1 DEF PendingInv, At, SeedStages
<1> QED  BY <1>4, <1>5, <1>6 DEF Quiet, Commits

\* What is stored, and by whom.
LEMMA StepKeepsRows ==
    ASSUME Inv, NEW r \in Requests, Moves(r), Quiet(r) \/ Flushes(r) \/ Commits(r)
    PROVE  RowInv'
<1> USE DEF Inv
<1>1. \A q \in Requests : pc[q] = "done" => pc'[q] = "done"
  BY DEF TypeOK, Moves
<1>2. CASE rows' = rows
  BY <1>1, <1>2 DEF RowInv, At
<1>3. CASE Commits(r)
  <2> SUFFICES ASSUME NEW row \in rows'
               PROVE  /\ DOMAIN row = Columns
                      /\ row.id \in Requests => pc'[row.id] = "done"
                      /\ row.table = "ownership" => \A j, k \in row.keys : j = k
    BY DEF RowInv, At
  <2>1. CASE row \in pending[r]
    <3>1. pc[r] = "Commit" /\ row \in RowsOf(r) /\ body[r] \in Bodies
      BY <1>3, <2>1 DEF Commits, Store, At, PendingInv, Shape, StageAt
    <3>2. body[r].op # "leave"
      BY <2>1 DEF PendingInv
    <3> QED  BY <1>3, <3>1, <3>2, OwnRows DEF Commits
  <2>2. ASSUME NEW old \in rows, row = Written(old, r)
        PROVE  /\ DOMAIN row = Columns
               /\ row.id \in Requests => pc'[row.id] = "done"
               /\ row.table = "ownership" => \A j, k \in row.keys : j = k
    BY <1>1, <2>2, WrittenKeeps DEF RowInv, At
  <2> QED  BY <1>3, <2>1, <2>2 DEF Commits, Store
<1> QED  BY <1>2, <1>3 DEF Quiet, Flushes

\* A step of a handler, or its failure.
LEMMA StepKeeps ==
    ASSUME Inv, NEW r \in Requests, Step(r) \/ Fail(r)
    PROVE  Inv'
<1>1. Moves(r) /\ (Quiet(r) \/ Flushes(r) \/ Commits(r))
  BY StepKinds
<1>2. failed' \subseteq Requests
  BY DEF Inv, TypeOK, Step, CheckKey, GetUser, GetEntity, ReadOwnership, Insert, Update,
         Commit, Fail, Goto, Respond
<1>3. KeyInv'
  <2>1. CASE Quiet(r)
    BY <2>1, QuietKeepsKeys DEF Inv, Quiet, Shape
  <2>2. CASE Flushes(r)
    BY <2>2, InsertKeepsKeys DEF Inv, Flushes, Shape
  <2>3. CASE Commits(r)
    BY <2>3, StoreKeepsKeys DEF Commits
  <2> QED  BY <1>1, <2>1, <2>2, <2>3
<1> QED  BY <1>1, <1>2, <1>3, StepKeepsShape, StepKeepsPending, StepKeepsRows DEF Inv

\* A request arrives.
LEMMA ReceiveKeeps ==
    ASSUME Inv, NEW r \in Requests, Receive(r)
    PROVE  Inv'
<1> USE DEF Inv
<1>1. PICK b \in Bodies, l \in {"CheckKey", "SeedUsers", "GetUser"} :
        /\ body' = [body EXCEPT ![r] = b] /\ pc' = [pc EXCEPT ![r] = l] /\ StageAt(b, l)
  BY RegistrationAssumption DEF Receive, StageAt, SeedStages, Creators
<1>2. pc[r] = "idle" /\ pending[r] = {} /\ UNCHANGED <<rows, pending, loaded, reply, failed>>
  BY DEF Receive, At, PendingInv, SeedStages
<1>3. TypeOK'
  <2>1. pc' \in [Requests -> Labels]
    BY <1>1 DEF TypeOK, Labels, Stages, SeedStages
  <2>2. \A q \in Requests : body'[q] \in Bodies \/ (pc'[q] = "idle" /\ body'[q] = NoBody)
    BY <1>1 DEF TypeOK, Shape, At
  <2> QED  BY <1>2, <2>1, <2>2 DEF TypeOK, At
<1>4. Shape'
  BY <1>1, <1>2 DEF Shape, TypeOK, At, StageAt
<1>5. PendingInv'
  <2>1. \A q \in Requests \ {r} : pc'[q] = pc[q] /\ body'[q] = body[q]
    BY <1>1 DEF TypeOK, Shape
  <2>2. \A q, stage : SeedRows(q, stage)' = SeedRows(q, stage)
    BY DEF SeedRows, Row
  <2>3. \A q \in Requests \ {r} : RowsOf(q)' = RowsOf(q)
    BY <2>1, <2>2 DEF RowsOf, NewRow, Row
  <2>4. \A q \in Requests \ {r} : Flushed(q)' = Flushed(q)
    BY <2>1, <2>2, <2>3 DEF Flushed
  <2>5. pc'[r] # "SeedUsers" => body'[r].op # "seed"
    BY <1>1 DEF StageAt, TypeOK, Shape, Creators
  <2>6. pending'[r] = {} /\ (pc'[r] = "SeedUsers" => Flushed(r)' = {})
    BY <1>2 DEF Flushed
  <2>7. \A q \in Requests \ {r} : pending'[q] = pending[q]
    BY <1>2
  <2>8. ASSUME NEW q \in Requests \ {r}
        PROVE  /\ pending'[q] # {} =>
                    pc'[q] \in SeedStages \cup {"Commit"} /\ body'[q].op # "leave"
               /\ pending'[q] \subseteq RowsOf(q)'
               /\ ~At(q, "idle")' /\ body'[q].op = "seed" => pending'[q] = Flushed(q)'
    BY <2>1, <2>3, <2>4, <2>7 DEF PendingInv, At
  <2>9. /\ pending'[r] = {} /\ pending'[r] \subseteq RowsOf(r)'
        /\ body'[r].op = "seed" => pending'[r] = Flushed(r)'
    BY <2>5, <2>6
  <2> QED  BY <2>8, <2>9 DEF PendingInv
<1>6. KeyInv'
  BY <1>2, QuietKeepsKeys
<1>7. RowInv'
  BY <1>1, <1>2 DEF RowInv, At, TypeOK
<1> QED  BY <1>3, <1>4, <1>5, <1>6, <1>7

\* Before the first request.
LEMMA InitHolds == Init => Inv
<1> SUFFICES ASSUME Init PROVE Inv
  OBVIOUS
<1>1. TypeOK /\ Shape /\ PendingInv
  BY DEF Init, TypeOK, Shape, PendingInv, At, Labels
<1>2. KeyInv
  <2>1. \A r \in Requests : KeysOf(pending[r]) = {}
    BY DEF Init, KeysOf
  <2>2. UniqueKeys
    BY RegistrationAssumption DEF Init, UniqueKeys
  <2> QED  BY <2>1, <2>2 DEF KeyInv
<1>3. RowInv
  BY RegistrationAssumption DEF Init, RowInv
<1> QED  BY <1>1, <1>2, <1>3 DEF Inv

\* A step that changes nothing.
LEMMA StutterKeeps ==
    ASSUME Inv, UNCHANGED vars
    PROVE  Inv'
<1>1. TypeOK' /\ Shape' /\ RowInv'
  BY DEF vars, Inv, TypeOK, Shape, StageAt, RowInv, At
<1>2. PendingInv'
  <2>1. \A q, stage : SeedRows(q, stage)' = SeedRows(q, stage)
    BY DEF SeedRows, Row
  <2>2. \A q \in Requests : RowsOf(q)' = RowsOf(q)
    BY <2>1 DEF vars, RowsOf, NewRow, Row
  <2>3. \A q \in Requests : Flushed(q)' = Flushed(q)
    BY <2>1, <2>2 DEF vars, Flushed
  <2> QED  BY <2>2, <2>3 DEF vars, Inv, PendingInv, At
<1>3. KeyInv'
  BY QuietKeepsKeys DEF vars, Inv
<1> QED  BY <1>1, <1>2, <1>3 DEF Inv

\* The handlers look and insert in two steps, and nothing looks for the LEI; still no
\* unique key is stored twice.
THEOREM UniqueKeysHold == Spec => [](TypeOK /\ UniqueKeys)
<1>1. Inv /\ [Next]_vars => Inv'
  BY StepKeeps, ReceiveKeeps, StutterKeeps DEF Next, Wait
<1>2. Inv => TypeOK /\ UniqueKeys
  BY DEF Inv, KeyInv
<1> QED  BY <1>1, <1>2, InitHolds, PTL DEF Spec

-----------------------------------------------------------------------------
(* The seed.                                                               *)

\* A reply comes with the end.
ReplyInv ==
    \A r \in Requests : reply[r] # "" => At(r, "done")

SeedInv == Inv /\ ReplyInv /\ SeedAllOrNothing

\* A commit keeps the identifier and keys of what is stored, and adds what is held.
LEMMA StoredRows ==
    ASSUME Inv, NEW r \in Requests, Moves(r), Quiet(r) \/ Flushes(r) \/ Commits(r)
    PROVE  /\ \A row \in rows : \E new \in rows' : new.id = row.id /\ new.keys = row.keys
           /\ \A new \in rows' \ pending[r] : \E row \in rows : row.id = new.id
           /\ Commits(r) => pending[r] \subseteq rows'
<1>1. CASE rows' = rows
  BY <1>1 DEF Commits, Store
<1>2. CASE Commits(r)
  <2>1. rows' = {Written(row, r) : row \in rows} \cup pending[r]
    BY <1>2 DEF Commits, Store
  <2>2. \A row \in rows : Written(row, r).id = row.id /\ Written(row, r).keys = row.keys
    BY WrittenKeeps DEF Inv, RowInv
  <2> QED  BY <2>1, <2>2
<1> QED  BY <1>1, <1>2 DEF Quiet, Flushes

\* The rows of a seed are stored by its commit, and all of them then.
LEMMA StepKeepsSeed ==
    ASSUME SeedInv, NEW r \in Requests, Step(r) \/ Fail(r)
    PROVE  ReplyInv' /\ SeedAllOrNothing'
<1> USE DEF SeedInv
<1>1. Moves(r) /\ (Quiet(r) \/ Flushes(r) \/ Commits(r))
  BY StepKinds
<1>2. \A q \in Requests \ {r} : pc'[q] = pc[q] /\ reply'[q] = reply[q]
  BY <1>1 DEF Inv, TypeOK, Moves, Quiet, Flushes, Commits
<1>3. reply'[r] # "" => pc'[r] = "done"
  BY <1>1 DEF Inv, TypeOK, ReplyInv, At, Moves, Quiet, Flushes, Commits
<1>4. ReplyInv'
  BY <1>2, <1>3 DEF ReplyInv, At
<1>5. \A q \in Requests : RowsOf(q)' = RowsOf(q)
  BY <1>1 DEF Moves, RowsOf, NewRow, SeedRows, Row
<1>6. ASSUME NEW q \in Requests \ {r}, body[q].op = "seed"
      PROVE  LET its == {row \in rows' : row.id = q} IN
             /\ its = {} \/ \A row \in RowsOf(q) : \E i \in its : i.keys = row.keys
             /\ reply'[q] = "200" => its # {}
  <2> DEFINE before == {row \in rows : row.id = q}
             its == {row \in rows' : row.id = q}
  <2>1. \A row \in pending[r] : row.id = r
    BY OwnRows, <1>1 DEF Inv, PendingInv, Shape, Moves, StageAt, At
  <2>2. its # {} => before # {}
    BY <1>1, <2>1, StoredRows
  <2>3. \A row \in before : \E i \in its : i.keys = row.keys
    BY <1>1, StoredRows
  <2>4. /\ before = {} \/ \A row \in RowsOf(q) : \E i \in before : i.keys = row.keys
        /\ reply[q] = "200" => before # {}
    BY <1>6 DEF SeedAllOrNothing
  <2>5. its = {} \/ \A row \in RowsOf(q) : \E i \in its : i.keys = row.keys
    BY <2>2, <2>3, <2>4
  <2>6. reply'[q] = "200" => its # {}
    BY <1>2, <2>3, <2>4
  <2> QED  BY <2>5, <2>6
<1>7. ASSUME body[r].op = "seed"
      PROVE  LET its == {row \in rows' : row.id = r} IN
             /\ its = {} \/ \A row \in RowsOf(r) : \E i \in its : i.keys = row.keys
             /\ reply'[r] = "200" => its # {}
  <2> DEFINE its == {row \in rows' : row.id = r}
  <2>1. \A row \in rows : row.id # r
    BY <1>1 DEF Inv, RowInv, At, Moves
  <2>2. CASE Commits(r)
    <3>1. pending[r] = RowsOf(r)
      BY <1>7, <2>2 DEF Inv, PendingInv, Commits, Store, At, Flushed
    <3>2. body[r] \in Bodies
      BY <1>1 DEF Inv, Shape, Moves, StageAt, At
    <3>3. RowsOf(r) \subseteq its
      BY <1>1, <1>7, <2>2, <3>1, <3>2, OwnRows, StoredRows
    <3>4. RowsOf(r) # {}
      BY <1>7 DEF RowsOf, SeedRows, SeedStages
    <3> QED  BY <3>3, <3>4
  <2>3. CASE Quiet(r) \/ Flushes(r)
    <3>1. its = {}
      BY <2>1, <2>3 DEF Quiet, Flushes
    <3>2. reply'[r] # "200"
      BY <1>1, <2>3 DEF Inv, TypeOK, ReplyInv, At, Moves, Quiet, Flushes
    <3> QED  BY <3>1, <3>2
  <2> QED  BY <1>1, <2>2, <2>3
<1>8. SeedAllOrNothing'
  BY <1>1, <1>5, <1>6, <1>7 DEF SeedAllOrNothing, Moves
<1> QED  BY <1>4, <1>8

\* The request that arrives has stored nothing.
LEMMA ReceiveKeepsSeed ==
    ASSUME SeedInv, NEW r \in Requests, Receive(r)
    PROVE  ReplyInv' /\ SeedAllOrNothing'
<1> USE DEF SeedInv
<1>1. pc[r] = "idle" /\ rows' = rows /\ reply' = reply
  BY DEF Receive, At
<1>2. \A q \in Requests \ {r} : pc'[q] = pc[q] /\ body'[q] = body[q]
  BY DEF Receive, Inv, TypeOK, Shape
<1>3. ReplyInv'
  BY <1>1, <1>2 DEF ReplyInv, At
<1>4. {row \in rows : row.id = r} = {} /\ reply[r] # "200"
  BY <1>1 DEF Inv, RowInv, ReplyInv, At
<1>5. \A q \in Requests \ {r} : RowsOf(q)' = RowsOf(q)
  BY <1>2 DEF RowsOf, NewRow, SeedRows, Row
<1>6. SeedAllOrNothing'
  BY <1>1, <1>2, <1>4, <1>5 DEF SeedAllOrNothing
<1> QED  BY <1>3, <1>6

\* Four flushes and one commit: whatever runs, fails or is killed beside or during it,
\* a seed is stored completely or not at all.
THEOREM SeedAllOrNothingHolds == Spec => []SeedAllOrNothing
<1>1. Init => SeedInv
  <2> SUFFICES ASSUME Init PROVE SeedInv
    OBVIOUS
  <2>1. Inv
    BY InitHolds
  <2>2. ReplyInv /\ SeedAllOrNothing
    BY DEF Init, ReplyInv, SeedAllOrNothing, NoBody
  <2> QED  BY <2>1, <2>2 DEF SeedInv
<1>2. SeedInv /\ [Next]_vars => SeedInv'
  <2> SUFFICES ASSUME SeedInv, [Next]_vars PROVE SeedInv'
    OBVIOUS
  <2>1. ASSUME NEW r \in Requests, Step(r) \/ Fail(r) PROVE SeedInv'
    BY <2>1, StepKeeps, StepKeepsSeed DEF SeedInv
  <2>2. ASSUME NEW r \in Requests, Receive(r) PROVE SeedInv'
    BY <2>2, ReceiveKeeps, ReceiveKeepsSeed DEF SeedInv
  <2>3. CASE UNCHANGED vars
    <3>1. Inv'
      BY <2>3, StutterKeeps DEF SeedInv
    <3>2. \A q \in Requests : RowsOf(q)' = RowsOf(q)
      BY <2>3 DEF vars, RowsOf, SeedRows, NewRow, Row
    <3>3. ReplyInv'
      BY <2>3 DEF vars, SeedInv, ReplyInv, At
    <3>4. SeedAllOrNothing'
      BY <2>3, <3>2 DEF vars, SeedInv, SeedAllOrNothing
    <3> QED  BY <3>1, <3>3, <3>4 DEF SeedInv
  <2> QED  BY <2>1, <2>2, <2>3 DEF Next, Wait
<1> QED  BY <1>1, <1>2, PTL DEF Spec, SeedInv

-----------------------------------------------------------------------------
(* Refusals.                                                               *)

RefusalInv == Inv /\ ReplyInv /\ RefusalsAreJustified

\* The keys a request is refused for.
KeysWanted(r) == IF body[r].op = "seed" THEN KeysOf(RowsOf(r)) ELSE body[r].keys

\* What justified a refusal does so in the next state, if nothing is deleted.
LEMMA RefusalsCarryOver ==
    ASSUME RefusalsAreJustified, rows \subseteq rows', failed \subseteq failed',
           \A q \in Requests : reply'[q] \in {"409", "500"} =>
                reply[q] = reply'[q] /\ KeysWanted(q)' = KeysWanted(q)
    PROVE  RefusalsAreJustified'
<1> SUFFICES ASSUME NEW q \in Requests \ failed', reply'[q] \in {"409", "500"}
             PROVE  \E row \in rows' : row.id # q /\ row.keys \cap KeysWanted(q)' # {}
  BY DEF RefusalsAreJustified, KeysWanted
<1>1. reply[q] \in {"409", "500"} /\ q \notin failed
  OBVIOUS
<1>2. \E row \in rows : row.id # q /\ row.keys \cap KeysWanted(q) # {}
  BY <1>1 DEF RefusalsAreJustified, KeysWanted
<1> QED  BY <1>2

\* Who refuses has seen a stored row with a key of the request.
LEMMA RefusalHasWitness ==
    ASSUME Inv, ReplyInv, NEW r \in Requests, Step(r), reply'[r] \in {"409", "500"}
    PROVE  KeysWanted(r) \cap KeysOf(rows) # {} /\ rows' = rows
<1> USE DEF Inv
<1>1. Moves(r) /\ reply[r] = ""
  BY StepKinds DEF Moves, ReplyInv, At
<1>2. DOMAIN reply = Requests /\ StageAt(body[r], pc[r])
  BY <1>1 DEF TypeOK, Shape, Moves, At
<1>3. CASE CheckKey(r)
  <2>1. KeyTaken(body[r].checked) /\ rows' = rows
    BY <1>1, <1>2, <1>3 DEF CheckKey, Respond, Goto
  <2>2. body[r].checked \subseteq body[r].keys /\ body[r].op # "seed"
    BY <1>2, <1>3, RegistrationAssumption DEF CheckKey, At, StageAt, Creators
  <2> QED  BY <2>1, <2>2 DEF KeyTaken, KeysWanted
<1>4. CASE Insert(r)
  <2>1. KeyTaken(KeysOf(NewRows(r))) /\ rows' = rows /\ pc[r] \in Stages
    BY <1>1, <1>2, <1>4 DEF Insert, Respond, Goto
  <2>2. KeysOf(NewRows(r)) \subseteq KeysWanted(r)
    <3>1. CASE body[r].op = "seed"
      <4>1. NewRows(r) \subseteq RowsOf(r)
        BY <1>2, <2>1, NewRowsOwn
      <4> QED  BY <3>1, <4>1, KeysMonotone DEF KeysWanted
    <3>2. CASE body[r].op # "seed"
      <4>1. NewRows(r) = {NewRow(r)} /\ NewRow(r).keys = body[r].keys
        BY <1>2, <3>2 DEF NewRows, NewRow, Row, StageAt
      <4> QED  BY <3>2, <4>1 DEF KeysWanted, KeysOf
    <3> QED  BY <3>1, <3>2
  <2> QED  BY <2>1, <2>2 DEF KeyTaken
<1>5. CASE GetUser(r) \/ GetEntity(r) \/ ReadOwnership(r) \/ Update(r) \/ Commit(r)
  BY <1>1, <1>2, <1>5
     DEF GetUser, GetEntity, ReadOwnership, Update, Commit, Respond, Goto
<1> QED  BY <1>3, <1>4, <1>5 DEF Step

\* The rows that justified a refusal stay, and a new refusal has its own.
LEMMA StepKeepsRefusals ==
    ASSUME RefusalInv, NEW r \in Requests, Step(r) \/ Fail(r)
    PROVE  ReplyInv' /\ RefusalsAreJustified'
<1> USE DEF RefusalInv
<1>1. Moves(r) /\ (Quiet(r) \/ Flushes(r) \/ Commits(r))
  BY StepKinds
<1>2. \A q \in Requests \ {r} : pc'[q] = pc[q] /\ reply'[q] = reply[q]
  BY <1>1 DEF Inv, TypeOK, Moves, Quiet, Flushes, Commits
<1>3. reply'[r] # "" => pc'[r] = "done"
  BY <1>1 DEF Inv, TypeOK, ReplyInv, At, Moves, Quiet, Flushes, Commits
<1>4. ReplyInv'
  BY <1>2, <1>3 DEF ReplyInv, At
<1>5. \A q \in Requests : RowsOf(q)' = RowsOf(q)
  BY <1>1 DEF Moves, RowsOf, NewRow, SeedRows, Row
<1>6. \A q \in Requests : KeysOf(RowsOf(q))' = KeysOf(RowsOf(q)) /\ body'[q] = body[q]
  BY <1>1, <1>5 DEF KeysOf, Moves
<1>7. failed \subseteq failed' /\ (Fail(r) => r \in failed')
  BY DEF Step, CheckKey, GetUser, GetEntity, ReadOwnership, Insert, Update, Commit, Fail,
         Goto, Respond
<1>8. ASSUME NEW q \in Requests \ failed', reply'[q] \in {"409", "500"}
      PROVE  \E row \in rows' : row.id # q /\ row.keys \cap KeysWanted(q) # {}
  <2>1. CASE q # r
    <3>1. PICK row \in rows : row.id # q /\ row.keys \cap KeysWanted(q) # {}
      BY <1>2, <1>7, <1>8, <2>1 DEF RefusalsAreJustified, KeysWanted
    <3> QED  BY <1>1, <3>1, StoredRows
  <2>2. CASE q = r
    <3>1. KeysWanted(r) \cap KeysOf(rows) # {} /\ rows' = rows
      BY <1>7, <1>8, <2>2, RefusalHasWitness
    <3>2. \A row \in rows : row.id # r
      BY <1>1 DEF Inv, RowInv, At, Moves
    <3> QED  BY <2>2, <3>1, <3>2 DEF KeysOf
  <2> QED  BY <2>1, <2>2
<1>9. RefusalsAreJustified'
  BY <1>6, <1>8 DEF RefusalsAreJustified, KeysWanted
<1> QED  BY <1>4, <1>9

\* Nobody is refused because of a row that was rolled back while he waited for it.
THEOREM RefusalsAreJustifiedHolds == Spec => []RefusalsAreJustified
<1>1. Init => RefusalInv
  <2> SUFFICES ASSUME Init PROVE RefusalInv
    OBVIOUS
  <2>1. Inv
    BY InitHolds
  <2>2. ReplyInv /\ RefusalsAreJustified
    BY DEF Init, ReplyInv, RefusalsAreJustified
  <2> QED  BY <2>1, <2>2 DEF RefusalInv
<1>2. RefusalInv /\ [Next]_vars => RefusalInv'
  <2> SUFFICES ASSUME RefusalInv, [Next]_vars PROVE RefusalInv'
    OBVIOUS
  <2>1. ASSUME NEW r \in Requests, Step(r) \/ Fail(r) PROVE RefusalInv'
    BY <2>1, StepKeeps, StepKeepsRefusals DEF RefusalInv
  <2>2. ASSUME NEW r \in Requests, Receive(r) PROVE RefusalInv'
    <3>1. Inv'
      BY <2>2, ReceiveKeeps DEF RefusalInv
    <3>2. pc[r] = "idle" /\ rows' = rows /\ reply' = reply /\ failed' = failed /\ reply[r] = ""
      BY <2>2 DEF Receive, At, RefusalInv, ReplyInv
    <3>3. \A q \in Requests \ {r} : pc'[q] = pc[q] /\ body'[q] = body[q]
      BY <2>2 DEF Receive, RefusalInv, Inv, TypeOK, Shape
    <3>4. ReplyInv'
      BY <3>2, <3>3 DEF RefusalInv, ReplyInv, At
    <3>5. \A q \in Requests \ {r} : RowsOf(q)' = RowsOf(q)
      BY <3>3 DEF RowsOf, NewRow, SeedRows, Row
    <3>6. \A q \in Requests \ {r} : KeysOf(RowsOf(q))' = KeysOf(RowsOf(q))
      BY <3>5 DEF KeysOf
    <3>7. RefusalsAreJustified'
      BY <3>2, <3>3, <3>6, RefusalsCarryOver DEF RefusalInv, KeysWanted
    <3> QED  BY <3>1, <3>4, <3>7 DEF RefusalInv
  <2>3. CASE UNCHANGED vars
    <3>1. Inv'
      BY <2>3, StutterKeeps DEF RefusalInv
    <3>2. \A q \in Requests : KeysOf(RowsOf(q))' = KeysOf(RowsOf(q))
      BY <2>3 DEF vars, KeysOf, RowsOf, SeedRows, NewRow, Row
    <3>3. ReplyInv' /\ RefusalsAreJustified'
      BY <2>3, <3>2, RefusalsCarryOver DEF vars, RefusalInv, ReplyInv, At, KeysWanted
    <3> QED  BY <3>1, <3>3 DEF RefusalInv
  <2> QED  BY <2>1, <2>2, <2>3 DEF Next, Wait
<1> QED  BY <1>1, <1>2, PTL DEF Spec, RefusalInv

-----------------------------------------------------------------------------
(* Ownership.                                                              *)

\* A row as one request asked for it, where the requests differ in both columns.
Whole(row) ==
    row.table = "ownership" =>
        \A key \in row.keys :
            Apart(Asked(key)) => <<row.shares, row.multiplier>> \in Asked(key)

\* The row a session has loaded is the only one with its key, was whole when it was
\* read, and is still there, with whatever values it has by now.
LoadedRow(r, old) ==
    /\ body[r].op = "put" /\ Owner(body[r].user, body[r].entity) \in old.keys
    /\ \A o \in loaded[r] : o = old
    /\ \E row \in rows : row.id = old.id /\ row.keys = old.keys /\ row.table = old.table
    /\ Whole(old)

OwnershipInv ==
    /\ Inv /\ PutsAreWhole
    /\ \A r \in Requests : At(r, "idle") => body[r] = NoBody /\ loaded[r] = {}
    /\ \A r \in Requests : \A old \in loaded[r] : LoadedRow(r, old)

\* A body that has been received stays: the values asked for become more.
BodiesStay == \A q \in Requests : body[q].op \in {"put", "seed"} => body'[q] = body[q]

LEMMA AskedGrows ==
    ASSUME BodiesStay
    PROVE  \A key : Asked(key) \subseteq Asked(key)'
<1>1. \A q, stage : SeedRows(q, stage)' = SeedRows(q, stage)
  BY DEF SeedRows, Row
<1>2. ASSUME NEW q \in Requests, body[q].op \in {"put", "seed"}
      PROVE  body'[q].op \in {"put", "seed"} /\ RowsOf(q)' = RowsOf(q)
  BY <1>1, <1>2 DEF BodiesStay, RowsOf, NewRow, Row
<1>3. UNION {RowsOf(q) : q \in {o \in Requests : body[o].op \in {"put", "seed"}}}
        \subseteq UNION {RowsOf(q)' : q \in {o \in Requests : body'[o].op \in {"put", "seed"}}}
  BY <1>2
<1> QED  BY <1>3 DEF Asked

\* What was whole stays whole: more values asked for are harder to keep apart.
LEMMA WholeStays ==
    ASSUME BodiesStay, NEW row, Whole(row)
    PROVE  Whole(row)'
<1>1. ASSUME NEW key \in row.keys, row.table = "ownership", Apart(Asked(key)')
      PROVE  <<row.shares, row.multiplier>> \in Asked(key)'
  <2>1. Asked(key) \subseteq Asked(key)'
    BY AskedGrows
  <2>2. Apart(Asked(key))
    BY <1>1, <2>1 DEF Apart
  <2> QED  BY <1>1, <2>1, <2>2 DEF Whole
<1> QED  BY <1>1 DEF Whole, Apart

\* A row of a request is what it asked for.
LEMMA OwnIsWhole ==
    ASSUME NEW r \in Requests, body[r] \in Bodies, body[r].op # "leave", NEW row \in RowsOf(r)
    PROVE  Whole(row)
<1>1. body[r].op \notin {"put", "seed"} => row.table # "ownership"
  <2> SUFFICES ASSUME body[r].op \notin {"put", "seed"} PROVE row.table # "ownership"
    OBVIOUS
  <2>1. row = NewRow(r) /\ row.table = TableOf(body[r].op)
    BY DEF RowsOf, NewRow, Row
  <2>2. body[r].op \in {"user", "entity", "cliuser", "hook"}
    BY RegistrationAssumption DEF Creators
  <2> QED  BY <2>1, <2>2 DEF TableOf
<1>2. ASSUME body[r].op \in {"put", "seed"}, NEW key \in row.keys
      PROVE  <<row.shares, row.multiplier>> \in Asked(key)
  BY <1>2 DEF Asked
<1> QED  BY <1>1, <1>2 DEF Whole

\* What a commit writes into a stored row: both columns or none.
LEMMA WrittenIsWhole ==
    ASSUME OwnershipInv, NEW r \in Requests, NEW row \in rows
    PROVE  Whole(Written(row, r))
<1> DEFINE w == Written(row, r)
<1>1. DOMAIN row = Columns /\ Whole(row)
  BY DEF OwnershipInv, Inv, RowInv, PutsAreWhole, Whole
<1>2. CASE body[r].op = "leave" /\ row \in Existing("users", body[r].user)
  <2>0. loaded[r] = {}
    BY <1>2 DEF OwnershipInv, LoadedRow
  <2>1. w = [row EXCEPT !.active = FALSE]
    BY <1>2, <2>0 DEF Written
  <2>2. /\ w.table = row.table /\ w.keys = row.keys /\ w.shares = row.shares
        /\ w.multiplier = row.multiplier
    BY <1>1, <2>1 DEF Columns
  <2> QED  BY <1>1, <2>2 DEF Whole
<1>3. CASE /\ ~(body[r].op = "leave" /\ row \in Existing("users", body[r].user))
           /\ ~\E old \in loaded[r] : old.id = row.id /\ old.keys = row.keys
  BY <1>1, <1>3 DEF Written
<1>4. ASSUME ~(body[r].op = "leave" /\ row \in Existing("users", body[r].user)),
             NEW old \in loaded[r], old.id = row.id, old.keys = row.keys
      PROVE  Whole(w)
  <2>1. LoadedRow(r, old)
    BY DEF OwnershipInv
  <2>2. old = CHOOSE o \in loaded[r] : o.id = row.id
    BY <1>4, <2>1 DEF LoadedRow
  <2>3. w = [row EXCEPT
                !.shares = IF body[r].shares # old.shares THEN body[r].shares ELSE row.shares,
                !.multiplier = IF body[r].multiplier # old.multiplier
                               THEN body[r].multiplier ELSE row.multiplier]
    BY <1>4, <2>2 DEF Written, Updated
  <2>4. /\ w.table = row.table /\ w.keys = row.keys
        /\ w.shares = IF body[r].shares # old.shares THEN body[r].shares ELSE row.shares
        /\ w.multiplier = IF body[r].multiplier # old.multiplier
                          THEN body[r].multiplier ELSE row.multiplier
    BY <1>1, <2>3 DEF Columns
  <2> HIDE DEF w
  <2> SUFFICES ASSUME row.table = "ownership", NEW key \in row.keys, Apart(Asked(key))
               PROVE  <<w.shares, w.multiplier>> \in Asked(key)
    BY <2>4 DEF Whole
  <2>5. key = Owner(body[r].user, body[r].entity)
    BY <1>4, <2>1 DEF LoadedRow, OwnershipInv, Inv, RowInv
  <2>6. old.table = "ownership"
    <3>1. PICK other \in rows : other.id = old.id /\ other.keys = old.keys
                                /\ other.table = old.table
      BY <2>1 DEF LoadedRow
    <3>2. other = row
      BY <1>4, <3>1 DEF OwnershipInv, Inv, KeyInv, UniqueKeys
    <3> QED  BY <3>1, <3>2
  <2>7. <<row.shares, row.multiplier>> \in Asked(key)
    BY <1>1 DEF Whole
  <2>8. <<old.shares, old.multiplier>> \in Asked(key)
    BY <1>4, <2>1, <2>6 DEF LoadedRow, Whole
  <2>9. <<body[r].shares, body[r].multiplier>> \in Asked(key)
    <3>1. body[r] \in Bodies /\ body[r].op = "put"
      BY <2>1 DEF LoadedRow, OwnershipInv, Inv, TypeOK, NoBody
    <3>2. body[r].keys = {key}
      BY <2>5, <3>1, RegistrationAssumption
    <3>3. /\ RowsOf(r) = {NewRow(r)} /\ NewRow(r).keys = {key}
          /\ NewRow(r).shares = body[r].shares /\ NewRow(r).multiplier = body[r].multiplier
      BY <3>1, <3>2 DEF RowsOf, NewRow, Row
    <3>4. NewRow(r) \in UNION {RowsOf(q) : q \in {o \in Requests : body[o].op \in {"put", "seed"}}}
      BY <3>1, <3>3
    <3> HIDE DEF w
    <3> QED  BY <3>3, <3>4 DEF Asked
  <2>10. (body[r].shares = old.shares) <=> (body[r].multiplier = old.multiplier)
    <3> DEFINE v == <<body[r].shares, body[r].multiplier>>
               u == <<old.shares, old.multiplier>>
    <3>1. v \in Asked(key) /\ u \in Asked(key) /\ (v[1] = u[1] <=> v[2] = u[2])
      BY <2>8, <2>9 DEF Apart
    <3> QED  BY <3>1
  <2> QED  BY <2>4, <2>7, <2>9, <2>10
<1> QED  BY <1>2, <1>3, <1>4

\* What a step may do to the row a session has loaded.
LEMMA LoadsOwnKey ==
    ASSUME Inv, NEW r \in Requests, Step(r) \/ Fail(r)
    PROVE  \/ loaded' = loaded
           \/ /\ body[r].op = "put" /\ rows' = rows
              /\ loaded' = [loaded EXCEPT
                                ![r] = WithKey(Owner(body[r].user, body[r].entity))]
BY DEF Inv, Shape, StageAt, At, Step, CheckKey, GetUser, GetEntity, ReadOwnership, Insert,
       Update, Commit, Fail

\* A step of a handler, or its failure.
LEMMA StepKeepsOwnership ==
    ASSUME OwnershipInv, NEW r \in Requests, Step(r) \/ Fail(r)
    PROVE  OwnershipInv'
<1> USE DEF OwnershipInv
<1>1. Moves(r) /\ (Quiet(r) \/ Flushes(r) \/ Commits(r)) /\ Inv'
  BY StepKinds, StepKeeps
<1>2. BodiesStay /\ body' = body
  BY <1>1 DEF BodiesStay, Moves
<1>3. ASSUME NEW row \in rows' PROVE Whole(row)'
  <2>1. CASE row \in rows
    BY <1>2, <2>1, WholeStays DEF PutsAreWhole, Whole
  <2>2. CASE row \in pending[r] /\ Commits(r)
    <3>1. row \in RowsOf(r) /\ body[r] \in Bodies /\ body[r].op # "leave"
      BY <1>1, <2>2 DEF Inv, PendingInv, Shape, Moves, StageAt, At
    <3> QED  BY <1>2, <3>1, OwnIsWhole, WholeStays
  <2>3. ASSUME NEW old \in rows, row = Written(old, r) PROVE Whole(row)'
    BY <1>2, <2>3, WrittenIsWhole, WholeStays
  <2> QED  BY <1>1, <2>1, <2>2, <2>3 DEF Quiet, Flushes, Commits, Store
<1>4. ASSUME NEW q \in Requests, pc'[q] = "idle" PROVE body'[q] = NoBody /\ loaded'[q] = {}
  <2>1. q # r /\ pc[q] = "idle"
    BY <1>1, <1>4 DEF Moves, Inv, TypeOK
  <2> QED  BY <1>2, <2>1, LoadsOwnKey DEF At, Inv, Shape
<1>5. ASSUME NEW q \in Requests, NEW old \in loaded'[q] PROVE LoadedRow(q, old)'
  <2>1. CASE old \in loaded[q] /\ loaded'[q] = loaded[q]
    <3>1. LoadedRow(q, old)
      BY <2>1
    <3>2. Whole(old)'
      BY <1>2, <3>1, WholeStays DEF LoadedRow
    <3>3. \E row \in rows' : row.id = old.id /\ row.keys = old.keys /\ row.table = old.table
      <4>1. PICK row \in rows : row.id = old.id /\ row.keys = old.keys /\ row.table = old.table
        BY <3>1 DEF LoadedRow
      <4>2. CASE rows' = rows
        BY <4>1, <4>2
      <4>3. CASE Commits(r)
        <5>1. Written(row, r) \in rows'
          BY <4>3 DEF Commits, Store
        <5> QED  BY <4>1, <5>1, WrittenKeeps DEF Inv, RowInv
      <4> QED  BY <1>1, <4>2, <4>3 DEF Quiet, Flushes
    <3> QED  BY <1>2, <2>1, <3>1, <3>2, <3>3 DEF LoadedRow
  <2>2. CASE /\ q = r /\ body[r].op = "put" /\ rows' = rows
             /\ loaded'[r] = WithKey(Owner(body[r].user, body[r].entity))
    <3>1. old \in rows /\ Owner(body[r].user, body[r].entity) \in old.keys
      BY <1>5, <2>2 DEF WithKey
    <3>2. \A o \in loaded'[r] : o = old
      BY <2>2, <3>1 DEF WithKey, Inv, KeyInv, UniqueKeys
    <3>3. Whole(old)'
      BY <1>3, <2>2, <3>1
    <3> QED  BY <1>2, <2>2, <3>1, <3>2, <3>3 DEF LoadedRow
  <2> QED  BY <1>5, <2>1, <2>2, LoadsOwnKey DEF Inv, Shape
<1>6. PutsAreWhole'
  BY <1>3 DEF PutsAreWhole, Whole
<1> QED  BY <1>1, <1>4, <1>5, <1>6 DEF At

\* A request that arrives asks for more.
LEMMA ReceiveKeepsOwnership ==
    ASSUME OwnershipInv, NEW r \in Requests, Receive(r)
    PROVE  OwnershipInv'
<1> USE DEF OwnershipInv
<1>1. /\ pc[r] = "idle" /\ body[r] = NoBody /\ loaded[r] = {}
      /\ UNCHANGED <<rows, loaded>> /\ pc'[r] # "idle"
      /\ \A q \in Requests \ {r} : pc'[q] = pc[q] /\ body'[q] = body[q]
  BY DEF Receive, At, Inv, TypeOK, Shape
<1>2. BodiesStay
  BY <1>1 DEF BodiesStay, NoBody
<1>3. Inv'
  BY ReceiveKeeps
<1>4. PutsAreWhole'
  <2>1. ASSUME NEW row \in rows PROVE Whole(row)'
    BY <1>2, WholeStays DEF PutsAreWhole, Whole
  <2> QED  BY <1>1, <2>1 DEF PutsAreWhole, Whole
<1>5. ASSUME NEW q \in Requests, NEW old \in loaded'[q] PROVE LoadedRow(q, old)'
  <2>1. q # r /\ old \in loaded[q] /\ LoadedRow(q, old)
    BY <1>1, <1>5
  <2>2. Whole(old)'
    BY <1>2, <2>1, WholeStays DEF LoadedRow
  <2> QED  BY <1>1, <2>1, <2>2 DEF LoadedRow
<1>6. \A q \in Requests : pc'[q] = "idle" => body'[q] = NoBody /\ loaded'[q] = {}
  BY <1>1 DEF At
<1> QED  BY <1>3, <1>4, <1>5, <1>6 DEF At

\* Concurrent PUTs of one ownership that differ in both columns never mix: the row has
\* the values of one of them, although each UPDATE names only the columns its session
\* saw change.
THEOREM PutsAreWholeHolds == Spec => []PutsAreWhole
<1>1. Init => OwnershipInv
  <2> SUFFICES ASSUME Init PROVE OwnershipInv
    OBVIOUS
  <2>1. Inv
    BY InitHolds
  <2>2. PutsAreWhole
    BY DEF Init, PutsAreWhole, Asked
  <2> QED  BY <2>1, <2>2 DEF Init, OwnershipInv
<1>2. ASSUME OwnershipInv, UNCHANGED vars PROVE OwnershipInv'
  <2>1. Inv' /\ BodiesStay
    BY <1>2, StutterKeeps DEF OwnershipInv, BodiesStay, vars
  <2>2. ASSUME NEW row, Whole(row) PROVE Whole(row)'
    BY <2>1, <2>2, WholeStays
  <2>3. PutsAreWhole'
    BY <1>2, <2>2 DEF OwnershipInv, PutsAreWhole, Whole, vars
  <2>4. ASSUME NEW r \in Requests, NEW old \in loaded[r] PROVE LoadedRow(r, old)'
    BY <1>2, <2>2 DEF OwnershipInv, LoadedRow, vars
  <2> QED  BY <1>2, <2>1, <2>3, <2>4 DEF OwnershipInv, At, vars
<1>3. OwnershipInv /\ [Next]_vars => OwnershipInv'
  BY <1>2, StepKeepsOwnership, ReceiveKeepsOwnership DEF Next, Wait
<1>4. OwnershipInv => PutsAreWhole
  BY DEF OwnershipInv
<1> QED  BY <1>1, <1>3, <1>4, PTL DEF Spec

=============================================================================
