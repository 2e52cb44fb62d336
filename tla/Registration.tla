---------------------------- MODULE Registration ----------------------------
(***************************************************************************)
(* The handlers that look whether a row exists and then insert it: users,  *)
(* entities, ownership and webhook endpoints of the HTTP API, and the seed *)
(* and create-user commands, concurrently against one PostgreSQL database  *)
(* (READ COMMITTED).                                                       *)
(*                                                                         *)
(* As in Governance a request is a process, an await that reaches the      *)
(* database is one action, and what a session has flushed only holds its   *)
(* unique keys and row locks until Commit.  A row carries the name of the  *)
(* request that inserted it as its identifier.                             *)
(***************************************************************************)
EXTENDS Naturals, FiniteSets

CONSTANTS
    Requests,        \* identities of the requests, and of the rows they insert
    Bodies,          \* what the requests of a run may ask for
    InitialRows,     \* the committed rows when the run starts
    SeedExternalIds, SeedTicker, SeedLei, SeedProposals,  \* literals of _seed
    MaxFaults        \* bound on lost connections and killed handlers

VARIABLES
    rows,            \* the committed rows of all tables
    pc,              \* the await each request is at
    body,            \* its parsed request body
    pending,         \* the rows it has flushed and not committed
    loaded,          \* the ownership row its session loaded, or none
    reply,           \* the response code, "" while there is none
    failed           \* the requests a lost connection has ended

vars == <<rows, pc, body, pending, loaded, reply, failed>>

-----------------------------------------------------------------------------
(* Rows and their unique keys.                                             *)

Columns == {"table", "id", "keys", "active", "shares", "multiplier"}

\* Tables without a column hold its default.
Row(table, id, keys) ==
    [table |-> table, id |-> id, keys |-> keys,
     active |-> TRUE, shares |-> 0, multiplier |-> 1]

ExternalId(e) == <<"external_id", e>>
Ticker(t)     == <<"ticker", t>>
Lei(l)        == <<"lei", l>>
Owner(u, n)   == <<"owner", u, n>>
ProposalId(p) == <<"proposal", p>>

KeysOf(set) == UNION {row.keys : row \in set}

Existing(table, id) == {row \in rows : row.table = table /\ row.id = id}
WithKey(key)        == {row \in rows : key \in row.keys}

-----------------------------------------------------------------------------
(* Request bodies: keys are the unique keys of the row to insert, checked  *)
(* those the handler looks up before.                                      *)

Blank(op) ==
    [op |-> op, keys |-> {}, checked |-> {}, valid |-> TRUE,
     user |-> "none", entity |-> "none", shares |-> 0, multiplier |-> 1]

UserBody(e, valid) ==
    [Blank("user") EXCEPT !.keys = {ExternalId(e)}, !.checked = {ExternalId(e)},
                          !.valid = valid]
\* create_entity looks up the ticker; the table has a unique LEI as well.
EntityBody(t, l) ==
    [Blank("entity") EXCEPT !.keys = {Ticker(t), Lei(l)}, !.checked = {Ticker(t)}]
PutBody(u, n, shares, multiplier) ==
    [Blank("put") EXCEPT !.keys = {Owner(u, n)}, !.user = u, !.entity = n,
                         !.shares = shares, !.multiplier = multiplier]
LeaveBody(u)       == [Blank("leave") EXCEPT !.user = u]
HookBody(u)        == [Blank("hook") EXCEPT !.user = u]
CliUserBody(valid) == [Blank("cliuser") EXCEPT !.valid = valid]
SeedBody           == Blank("seed")

NoBody == [op |-> "none"]

Creators == {"user", "entity", "cliuser"}
TableOf(op) ==
    CASE op \in {"user", "cliuser"} -> "users"
      [] op = "entity" -> "entities"
      [] op = "put"    -> "ownership"
      [] op = "hook"   -> "webhook_endpoints"

ASSUME RegistrationAssumption ==
    /\ \A b \in Bodies :
        /\ DOMAIN b = DOMAIN SeedBody
        /\ b.op \in Creators \cup {"put", "hook", "leave", "seed"}
        /\ b.op = "seed" => b = SeedBody
        /\ b.checked \subseteq b.keys
        /\ b.op = "put" => b.keys = {Owner(b.user, b.entity)}
    /\ \A row \in InitialRows :
        /\ DOMAIN row = Columns /\ row.id \notin Requests
        /\ row.table = "ownership" => \A j, k \in row.keys : j = k
    /\ \A a, b \in InitialRows : a.keys \cap b.keys # {} => a = b
    /\ MaxFaults \in Nat

-----------------------------------------------------------------------------
(* What each flush inserts.                                                *)

SeedStages == {"SeedUsers", "SeedEntity", "SeedOwnership", "SeedProposals"}
Stages == SeedStages \cup {"Insert"}

SeedRows(r, stage) ==
    CASE stage = "SeedUsers" ->
            {Row("users", r, {ExternalId(e)}) : e \in SeedExternalIds}
      [] stage = "SeedEntity" ->
            {Row("entities", r, {Ticker(SeedTicker), Lei(SeedLei)})}
      [] stage = "SeedOwnership" ->
            {Row("ownership", r, {Owner(r, r)})}
      [] stage = "SeedProposals" ->
            {Row("proposals", r, {ProposalId(p)}) : p \in SeedProposals}

NewRow(r) ==
    [Row(TableOf(body[r].op), r, body[r].keys) EXCEPT
        !.shares = body[r].shares, !.multiplier = body[r].multiplier]

NewRows(r) == IF pc[r] \in SeedStages THEN SeedRows(r, pc[r]) ELSE {NewRow(r)}

\* All rows of a request that inserts.
RowsOf(r) ==
    IF body[r].op = "seed" THEN UNION {SeedRows(r, stage) : stage \in SeedStages}
                           ELSE {NewRow(r)}

\* Faulty variant: the seed commits what it has after every flush.
AfterEach(stage) == "Commit"

After(stage) ==
    CASE stage = "SeedUsers"     -> "SeedEntity"
      [] stage = "SeedEntity"    -> "SeedOwnership"
      [] stage = "SeedOwnership" -> "SeedProposals"
      [] stage \in {"SeedProposals", "Insert"} -> "Commit"

-----------------------------------------------------------------------------
(* Handlers.                                                               *)

InFlight == {r \in Requests : pc[r] \notin {"idle", "done"}}
At(r, label) == pc[r] = label

Goto(r, label) == pc' = [pc EXCEPT ![r] = label] /\ UNCHANGED <<body, reply, failed>>

\* The request ends with a response, and its session with it.
Respond(r, code) ==
    /\ pc' = [pc EXCEPT ![r] = "done"]
    /\ reply' = [reply EXCEPT ![r] = code]
    /\ pending' = [pending EXCEPT ![r] = {}]
    /\ UNCHANGED <<body, failed>>

Receive(r) ==
    /\ At(r, "idle")
    /\ \E b \in Bodies :
        /\ body' = [body EXCEPT ![r] = b]
        /\ pc' = [pc EXCEPT ![r] =
                    CASE b.op \in Creators -> "CheckKey"
                      [] b.op = "seed"     -> "SeedUsers"
                      [] OTHER             -> "GetUser"]
    /\ UNCHANGED <<rows, pending, loaded, reply, failed>>

\* Faulty variant: the tables have no unique constraints.
NoConstraint(keys) == FALSE

\* Faulty variant: rows count that are not committed.
DirtyRead(keys) ==
    keys \cap (KeysOf(rows) \cup UNION {KeysOf(pending[q]) : q \in Requests}) # {}

\* A committed row has one of the keys.
KeyTaken(keys) == keys \cap KeysOf(rows) # {}

\* The SELECT for the identifier that must be free, then the role.
CheckKey(r) ==
    LET taken == KeyTaken(body[r].checked) IN
    /\ At(r, "CheckKey")
    /\ \/ taken /\ Respond(r, "409")
       \/ ~taken /\ ~body[r].valid /\ Respond(r, "422")
       \/ ~taken /\ body[r].valid /\ Goto(r, "Insert") /\ UNCHANGED pending
    /\ UNCHANGED <<rows, loaded>>

\* db.get(User, ...): is_active is not looked at.
GetUser(r) ==
    LET found == Existing("users", body[r].user) # {} IN
    /\ At(r, "GetUser")
    /\ \/ ~found /\ Respond(r, "404")
       \/ /\ found /\ UNCHANGED pending
          /\ Goto(r, CASE body[r].op = "put"   -> "GetEntity"
                       [] body[r].op = "hook"  -> "Insert"
                       [] body[r].op = "leave" -> "Commit")
    /\ UNCHANGED <<rows, loaded>>

GetEntity(r) ==
    LET found == Existing("entities", body[r].entity) # {} IN
    /\ At(r, "GetEntity")
    /\ \/ ~found /\ Respond(r, "404")
       \/ found /\ Goto(r, "ReadOwnership") /\ UNCHANGED pending
    /\ UNCHANGED <<rows, loaded>>

\* upsert_ownership decides between UPDATE and INSERT by what it reads here.
ReadOwnership(r) ==
    LET stored == WithKey(Owner(body[r].user, body[r].entity)) IN
    /\ At(r, "ReadOwnership")
    /\ loaded' = [loaded EXCEPT ![r] = stored]
    /\ Goto(r, IF stored = {} THEN "Insert" ELSE "Update")
    /\ UNCHANGED <<rows, pending>>

\* No other transaction holds one of the keys.
NobodyHolds(r, keys) ==
    \A q \in Requests \ {r} : keys \cap KeysOf(pending[q]) = {}

\* The INSERT waits for transactions that hold one of its keys, and is an
\* IntegrityError if one of them committed it.
Insert(r) ==
    LET keys == KeysOf(NewRows(r)) IN
    /\ pc[r] \in Stages
    /\ NobodyHolds(r, keys)
    /\ \/ KeyTaken(keys) /\ Respond(r, "500")
       \/ /\ ~KeyTaken(keys)
          /\ pending' = [pending EXCEPT ![r] = @ \cup NewRows(r)]
          /\ Goto(r, After(pc[r]))
    /\ UNCHANGED <<rows, loaded>>

\* The UPDATE takes the row lock; no column changed, no UPDATE.
Changes(r) ==
    \E row \in loaded[r] :
        row.shares # body[r].shares \/ row.multiplier # body[r].multiplier

HoldsRow(q, r) ==
    At(q, "Commit") /\ loaded[q] # {} /\ Changes(q) /\ body[q].keys = body[r].keys

Update(r) ==
    /\ At(r, "Update")
    /\ Changes(r) => \A q \in Requests \ {r} : ~HoldsRow(q, r)
    /\ Goto(r, "Commit")
    /\ UNCHANGED <<rows, pending, loaded>>

-----------------------------------------------------------------------------
(* Commit and failure.                                                     *)

\* Faulty variant: only the share count is assigned.
SharesOnly(row, r) == [row EXCEPT !.shares = body[r].shares]

\* The columns whose assigned value differs from the loaded one.
Updated(row, r) ==
    LET old == CHOOSE o \in loaded[r] : o.id = row.id IN
    [row EXCEPT
        !.shares = IF body[r].shares # old.shares THEN body[r].shares ELSE @,
        !.multiplier = IF body[r].multiplier # old.multiplier
                       THEN body[r].multiplier ELSE @]

\* The row as the commit of r leaves it.
Written(row, r) ==
    CASE body[r].op = "leave" /\ row \in Existing("users", body[r].user) ->
            [row EXCEPT !.active = FALSE]
      [] \E old \in loaded[r] : old.id = row.id /\ old.keys = row.keys -> Updated(row, r)
      [] OTHER -> row

Store(r) ==
    /\ At(r, "Commit")
    /\ rows' = {Written(row, r) : row \in rows} \cup pending[r]

Commit(r) == Store(r) /\ Respond(r, "200") /\ UNCHANGED loaded

\* The connection dies: rolled back, or committed without saying so.
Fail(r) ==
    /\ r \in InFlight /\ Cardinality(failed) < MaxFaults
    /\ failed' = failed \cup {r}
    /\ pc' = [pc EXCEPT ![r] = "done"]
    /\ reply' = [reply EXCEPT ![r] = "500"]
    /\ pending' = [pending EXCEPT ![r] = {}]
    /\ UNCHANGED rows \/ Store(r)
    /\ UNCHANGED <<body, loaded>>

\* The server waits for the next request.
Wait == InFlight = {} /\ UNCHANGED vars

Init ==
    /\ rows = InitialRows /\ failed = {}
    /\ pc = [r \in Requests |-> "idle"]
    /\ body = [r \in Requests |-> NoBody]
    /\ pending = [r \in Requests |-> {}]
    /\ loaded = [r \in Requests |-> {}]
    /\ reply = [r \in Requests |-> ""]

Step(r) ==
    \/ CheckKey(r)
    \/ GetUser(r) \/ GetEntity(r) \/ ReadOwnership(r)
    \/ Insert(r) \/ Update(r) \/ Commit(r)

Next == (\E r \in Requests : Receive(r) \/ Step(r) \/ Fail(r)) \/ Wait

Spec == Init /\ [][Next]_vars

-----------------------------------------------------------------------------
(* Properties.                                                             *)

Labels == Stages \cup {"idle", "CheckKey", "GetUser", "GetEntity", "ReadOwnership",
                       "Update", "Commit", "done"}

\* Types of the requests and of what they hold.
TypeOK ==
    /\ pc \in [Requests -> Labels]
    /\ \A r \in Requests : body[r] \in Bodies \/ (At(r, "idle") /\ body[r] = NoBody)
    /\ reply \in [Requests -> {"", "200", "404", "409", "422", "500"}]
    /\ failed \subseteq Requests

\* Every handler looks and inserts in two steps, and no handler looks for the LEI:
\* no external id, ticker, LEI, (user, entity) pair or proposal is ever stored twice.
UniqueKeys ==
    \A a, b \in rows : a.keys \cap b.keys # {} => a = b

\* The seed flushes four times and commits once: whatever runs or fails beside it, the
\* demo data is there completely or not at all, and completely when it said so.
SeedAllOrNothing ==
    \A r \in Requests : body[r].op = "seed" =>
        LET its == {row \in rows : row.id = r} IN
        /\ its = {} \/ \A row \in RowsOf(r) : \E i \in its : i.keys = row.keys
        /\ reply[r] = "200" => its # {}

\* A client refused with 409 or 500 whose own connection held was in conflict with a row
\* that is stored, never with one that was rolled back while it waited.
RefusalsAreJustified ==
    \A r \in Requests \ failed : reply[r] \in {"409", "500"} =>
        \E row \in rows :
            row.id # r /\ row.keys \cap (IF body[r].op = "seed" THEN KeysOf(RowsOf(r))
                                                               ELSE body[r].keys) # {}

\* What was there before, and what the requests of the run ask for, for one pair.
Asked(key) ==
    LET sources == {r \in Requests : body[r].op \in {"put", "seed"}} IN
    {<<row.shares, row.multiplier>> :
        row \in {i \in InitialRows \cup UNION {RowsOf(r) : r \in sources} : key \in i.keys}}

\* Values that never agree in one column only.
Apart(values) == \A v, w \in values : v[1] = w[1] <=> v[2] = w[2]

\* A stored ownership is what one PUT asked for, not the shares of one and the
\* multiplier of another - provided the requests differ in both columns: an UPDATE names
\* only the columns its session saw change.
PutsAreWhole ==
    \A row \in rows : row.table = "ownership" =>
        \A key \in row.keys :
            Apart(Asked(key)) => <<row.shares, row.multiplier>> \in Asked(key)

=============================================================================
