----------------------------- MODULE Management -----------------------------
(***************************************************************************)
(* The management API (managementapi/handler.go, rules.go, flows.go) and   *)
(* its backend (app/management.go, management_rules.go,                    *)
(* management_flows.go) on the policy controller: requests of several      *)
(* clients with If-Match tokens, write-only secrets, rule mutations and    *)
(* temporary overlays, while other programs edit the file and the process  *)
(* shuts down.                                                             *)
(*                                                                         *)
(* A token is a keyed digest of a revision, so a document also stands for  *)
(* its token; which tokens clients hold, and which the process can turn    *)
(* back into a revision, is state.                                         *)
(***************************************************************************)
EXTENDS PolicyController, Sequences

CONSTANTS
    Clients,        \* HTTP connections with at most one request at a time
    Requests,       \* what they may send, apart from the token
    Redacted,       \* the write-only placeholder
    Forged,         \* a token this process did not issue
    Foreign,        \* what other programs may write to the file
    MaxKnown,       \* maximumKnownManagementRevisions
    MaxRequests,    \* bound on requests
    MaxEdits        \* bound on writes of other programs

\* The table of tokens holds at least one.
ASSUME MaxKnownAssumption == MaxKnown \in Nat \ {0}

\* Nobody is no client.
ASSUME ClientsAssumption == None \notin Clients

VARIABLES
    running,    \* ready is set and the management context is not cancelled
    client,     \* progress of the request of each client
    holder,     \* the client whose request holds Controller.mu
    known,      \* the codec's table, oldest first
    issued,     \* history: tokens clients have been given
    requests, edits,
    wanted,     \* history: the overlay acknowledged requests asked for
    survivor    \* history: who held Controller.mu when the context was cancelled

controllerVars == <<world, file, outcomes, locked, snap, pc, op, drift, acked>>

countVars == <<requests, edits>>

managementVars ==
    <<controllerVars, running, client, holder, known, issued, requests, edits,
      wanted, survivor>>

Full == {"update", "stage"}
RuleKinds == {"create", "replaceAll", "replaceOne", "delete", "reorder"}
OverlayKinds == {"mute", "solo"}

NoClient ==
    [stage |-> "idle", request |-> None, token |-> None, active |-> None,
     base |-> None, expected |-> None, candidate |-> None, code |-> None,
     document |-> None, wrote |-> FALSE]

ManagementInit ==
    /\ Init
    /\ running = TRUE
    /\ client = [c \in Clients |-> NoClient]
    /\ holder = None
    /\ known = <<>> /\ issued = {}
    /\ requests = 0 /\ edits = 0
    /\ wanted = NoOverlay /\ survivor = None

-----------------------------------------------------------------------------
(***************************************************************************)
(* Tokens (managementRevisionCodec)                                        *)
(***************************************************************************)

Known(d) == \E i \in DOMAIN known : known[i] = d

\* issue: the table forgets the token that was entered first.
Issue(table, d) ==
    IF \E i \in DOMAIN table : table[i] = d THEN table
    ELSE Append(IF Len(table) = MaxKnown THEN Tail(table) ELSE table, d)

\* Mutant: an unknown token is taken for the active revision.
ResolveOrActive(token, active) == IF Known(token) THEN token ELSE active

\* resolve: the active revision is always recognised, others while in the table.
Resolve(token, active) ==
    IF token = active THEN active ELSE IF Known(token) THEN token ELSE None

\* A response carries the tokens of one or two documents.
Tell(docs) ==
    /\ known' = IF Len(docs) = 1 THEN Issue(known, docs[1])
                ELSE Issue(Issue(known, docs[1]), docs[2])
    /\ issued' = issued \cup {docs[i] : i \in DOMAIN docs}

-----------------------------------------------------------------------------
(***************************************************************************)
(* Secrets (config/secrets.go); one field stands for seed, URL and token   *)
(***************************************************************************)

\* ResolveRedacted succeeds: a secret that is set must be given as the
\* placeholder, and the placeholder only for a secret that is set.
Resolvable(c, base) == (c.cold.secret = Redacted) <=> (base.cold.secret # "")

\* What it returns then.
ResolveRedacted(c, base) ==
    IF c.cold.secret = Redacted THEN [c EXCEPT !.cold.secret = base.cold.secret]
                                ELSE c

-----------------------------------------------------------------------------
(***************************************************************************)
(* Rule mutations (management_rules.go)                                    *)
(***************************************************************************)

Accept(rules) == [code |-> "ok", rules |-> rules]

Refuse(code) == [code |-> code, rules |-> <<>>]

Has(rules, id) == \E i \in DOMAIN rules : rules[i].id = id

At(rules, id) == CHOOSE i \in DOMAIN rules : rules[i].id = id

\* validateManagementRules: rule identities are unique.
Validated(rules) ==
    IF \A i, j \in DOMAIN rules : rules[i].id = rules[j].id => i = j
    THEN Accept(rules) ELSE Refuse("invalid")

\* CreateRule
CreateRule(rules, rule) ==
    IF Has(rules, rule.id) THEN Refuse("rule_exists") ELSE Validated(Append(rules, rule))

\* ReplaceRule: in place.
ReplaceRule(rules, id, rule) ==
    IF rule.id # id THEN Refuse("rule_id_mismatch")
    ELSE IF ~Has(rules, id) THEN Refuse("rule_not_found")
    ELSE Validated([rules EXCEPT ![At(rules, id)] = rule])

\* DeleteRule: the others move up.
DeleteRule(rules, id) ==
    IF ~Has(rules, id) THEN Refuse("rule_not_found")
    ELSE Validated(SubSeq(rules, 1, At(rules, id) - 1)
                   \o SubSeq(rules, At(rules, id) + 1, Len(rules)))

\* ReorderRules: a complete permutation of the identities.
ReorderRules(rules, order) ==
    IF /\ Len(order) = Len(rules)
       /\ \A i, j \in DOMAIN order : order[i] = order[j] => i = j
       /\ \A i \in DOMAIN order : Has(rules, order[i])
    THEN Validated([i \in DOMAIN order |-> rules[At(rules, order[i])]])
    ELSE Refuse("invalid")

\* The mutation a request asks for.
Mutation(r, rules) ==
    CASE r.kind = "create" -> CreateRule(rules, r.rule)
      [] r.kind = "replaceAll" -> Validated(r.rules)
      [] r.kind = "replaceOne" -> ReplaceRule(rules, r.id, r.rule)
      [] r.kind = "delete" -> DeleteRule(rules, r.id)
      [] r.kind = "reorder" -> ReorderRules(rules, r.order)

\* config.Validate: the rules of a configuration are a list without two of one
\* identity.
ASSUME RulesAssumption ==
    /\ \A c \in Configs : c.rules \in Rules
    /\ \A rules \in Rules :
          /\ rules \in Seq({rules[i] : i \in DOMAIN rules})
          /\ \A i, j \in DOMAIN rules : rules[i].id = rules[j].id => i = j

\* What a client sends was decoded: a document with a secret field and otherwise
\* valid, a list of identities, sets of flows; and a mutation that is accepted
\* makes valid rules of valid rules.
ASSUME RequestsAssumption ==
    \A r \in Requests :
        /\ r.kind \in Full \cup RuleKinds \cup OverlayKinds \cup {"cancel"}
        /\ r.kind \in Full =>
              /\ "cold" \in DOMAIN r.config /\ "secret" \in DOMAIN r.config.cold
              /\ r.config = [r.config EXCEPT !.cold.secret = r.config.cold.secret]
              /\ \A c \in Configs :
                    Resolvable(r.config, c) => ResolveRedacted(r.config, c) \in Configs
        /\ r.kind \in RuleKinds =>
              \A rules \in Rules :
                  Mutation(r, rules).code = "ok" => Mutation(r, rules).rules \in Rules
        /\ r.kind = "reorder" => r.order \in Seq({r.order[i] : i \in DOMAIN r.order})
        /\ r.kind \in OverlayKinds =>
              \A o \in Overlays : /\ [o EXCEPT !.muted = r.flows] \in Overlays
                                  /\ [o EXCEPT !.soloed = r.flows] \in Overlays

-----------------------------------------------------------------------------
(***************************************************************************)
(* Requests that only read                                                 *)
(***************************************************************************)

\* Controller.Pending returns a configuration.
HasPending == snap.state = "restart_pending" /\ snap.pending # None

OnlyTell(docs) ==
    /\ Tell(docs)
    /\ UNCHANGED <<controllerVars, running, client, holder, requests, edits, wanted,
                   survivor>>

\* Config and Rules
GetConfig == OnlyTell(<<snap.revision>>)

\* PendingConfig
GetPending == HasPending /\ OnlyTell(<<snap.pending>>)

\* Status
GetStatus ==
    OnlyTell(IF HasPending THEN <<snap.revision, snap.pending>> ELSE <<snap.revision>>)

\* ValidateConfig takes Controller.mu and names the revision that an edit of
\* the configuration would have to name.
ValidateConfig ==
    /\ pc = "idle"
    /\ OnlyTell(<<IF HasPending THEN snap.pending ELSE snap.revision>>)

-----------------------------------------------------------------------------
(***************************************************************************)
(* Requests that write                                                     *)
(***************************************************************************)

\* The operation returns; what it worked on is gone.
Answer(c, code, doc) ==
    client' = [client EXCEPT ![c] = [NoClient EXCEPT
        !.stage = "answering", !.code = code, !.document = doc, !.wrote = client[c].wrote]]

\* A request arrives; overlays carry no token.  The operation tests that the
\* runtime is ready and loads the active policy; an overlay needs a healthy one.
Load(c) ==
    /\ client[c].stage = "idle" /\ requests < MaxRequests
    /\ requests' = requests + 1
    /\ \E r \in Requests :
         \E t \in IF r.kind \in OverlayKinds THEN {None} ELSE issued \cup {Forged} :
            IF \/ ~running
               \/ /\ r.kind \in OverlayKinds
                  /\ snap.state \notin {"ready", "restart_pending"}
            THEN Answer(c, "unavailable", None)
            ELSE client' = [client EXCEPT
                    ![c].stage = "loaded", ![c].request = r, ![c].token = t,
                    ![c].active = snap.revision, ![c].base = snap.config]
    /\ UNCHANGED <<controllerVars, running, holder, known, issued, edits, wanted,
                   survivor>>

\* StageConfig then asks for the pending configuration; the token and the
\* placeholders are resolved.  All this is before Controller.mu is taken.
Prepare(c) ==
    /\ client[c].stage = "loaded"
    /\ LET r == client[c].request
           base == IF r.kind = "stage" /\ HasPending THEN snap.pending.config
                                                     ELSE client[c].base
       IN  IF r.kind \in Full /\ ~Resolvable(r.config, base)
           THEN Answer(c, "invalid", None)
           ELSE client' = [client EXCEPT
                  ![c].stage = "locking", ![c].active = None, ![c].base = None,
                  ![c].expected = IF r.kind \in OverlayKinds THEN None
                                  ELSE Resolve(client[c].token, client[c].active),
                  ![c].candidate = IF r.kind \in Full THEN ResolveRedacted(r.config, base)
                                                      ELSE None]
    /\ UNCHANGED <<controllerVars, running, holder, known, issued, countVars, wanted,
                   survivor>>

\* The rules a mutation starts from: those of the file when reconciling, which
\* then is the document the client named.
BaseRules(c) ==
    IF snap.state = "out_of_sync" /\ client[c].expected # None
    THEN client[c].expected.config.rules ELSE snap.config.rules

Stale(doc) == [code |-> "revision_conflict", document |-> doc]

Problem(code) == [code |-> code, document |-> None]

\* The reason the controller refuses a request for, or "ok".  A refused
\* mutation is found after the file was read and compared.
Verdict(c) ==
    LET r == client[c].request
        e == client[c].expected
    IN  CASE r.kind = "update" /\ snap.state = "restart_pending" -> Problem("restart_pending")
          [] r.kind = "update" /\ snap.state \in {"ready", "durability_uncertain"} ->
                IF e # snap.revision THEN Stale(snap.revision)
                ELSE Problem(IF HotOnly(client[c].candidate) THEN "ok" ELSE "restart_required")
          [] r.kind = "update" /\ snap.state = "out_of_sync" -> Problem("ok")
          [] r.kind \in RuleKinds /\ snap.state = "restart_pending" -> Problem("restart_pending")
          [] r.kind \in RuleKinds /\ snap.state \in {"ready", "durability_uncertain"} ->
                IF e # snap.revision THEN Stale(snap.revision)
                ELSE Problem(Mutation(r, BaseRules(c)).code)
          [] r.kind \in RuleKinds /\ snap.state = "out_of_sync" ->
                IF Mutation(r, BaseRules(c)).code = "ok" THEN Problem("ok")
                ELSE IF file \notin Documents THEN Problem("unavailable")
                ELSE IF file # e THEN Stale(file)
                ELSE Problem(Mutation(r, BaseRules(c)).code)
          [] r.kind = "stage" ->
                IF snap.state \notin {"ready", "restart_pending"} THEN Problem("unavailable")
                ELSE IF e # Durable THEN Stale(Durable)
                ELSE Problem(IF HotOnly(client[c].candidate) THEN "restart_not_required"
                                                             ELSE "ok")
          [] r.kind = "cancel" ->
                IF ~HasPending THEN Problem("pending_config_not_found")
                ELSE IF e # snap.pending THEN Stale(snap.pending) ELSE Problem("ok")
          [] r.kind \in OverlayKinds ->
                Problem(IF snap.state \in {"ready", "restart_pending"} THEN "ok"
                                                                      ELSE "unavailable")

\* The controller's operation for a request.
Begin(c) ==
    LET r == client[c].request
        e == client[c].expected
    IN  \/ r.kind = "update" /\ BeginUpdate(e, client[c].candidate)
        \/ r.kind \in RuleKinds /\ BeginMutate(e, Mutation(r, BaseRules(c)).rules)
        \/ r.kind = "stage" /\ BeginStage(e, client[c].candidate)
        \/ r.kind = "cancel" /\ BeginCancel(e)

\* Mutant: the context is not tested once the lock is held.
AliveAnyway == TRUE

\* The context of the transaction, a child of the runtime's, is not cancelled.
Alive == running

\* Controller.mu is taken and the request refused, because the client has gone,
\* the runtime ends, or the controller says so.
EnterRefused(c) ==
    /\ client[c].stage = "locking" /\ pc = "idle"
    /\ \/ Answer(c, "unavailable", None)
       \/ /\ Alive /\ Verdict(c).code # "ok"
          /\ Answer(c, Verdict(c).code, Verdict(c).document)
    /\ UNCHANGED <<controllerVars, running, holder, known, issued, countVars, wanted,
                   survivor>>

\* Controller.mu is taken and the transaction starts.
EnterAdmitted(c) ==
    /\ client[c].stage = "locking" /\ Alive
    /\ client[c].request.kind \notin OverlayKinds
    /\ Verdict(c).code = "ok" /\ Begin(c)
    /\ holder' = c
    /\ client' = [client EXCEPT ![c].stage = "inside"]
    /\ UNCHANGED <<running, known, issued, countVars, wanted, survivor>>

\* ReplaceMuteContext and ReplaceSoloContext: one set is replaced.
OverlayFor(r) ==
    IF r.kind = "mute" THEN [snap.overlay EXCEPT !.muted = r.flows]
                       ELSE [snap.overlay EXCEPT !.soloed = r.flows]

\* setFlowOverlay
EnterOverlay(c) ==
    /\ client[c].stage = "locking" /\ Alive
    /\ client[c].request.kind \in OverlayKinds
    /\ Verdict(c).code = "ok"
    /\ ReplaceOverlay(OverlayFor(client[c].request))
    /\ Answer(c, "ok", None)
    /\ wanted' = IF client[c].request.kind = "mute"
                 THEN [wanted EXCEPT !.muted = client[c].request.flows]
                 ELSE [wanted EXCEPT !.soloed = client[c].request.flows]
    /\ UNCHANGED <<running, holder, known, issued, countVars, survivor>>

\* Mutant: a durability warning is answered like a failure.
OutcomesWarned ==
    CASE pc = "publish" -> {IF snap'.state = "ready" THEN "ok" ELSE "unavailable"}
      [] pc \in {"replace", "recheck"} ->
            {IF file = op.expected THEN "ok" ELSE "revision_conflict"}
      [] OTHER -> {"unavailable"}

\* What a transaction that returns with this step may be answered
\* (managementUpdateError).
Outcomes ==
    CASE pc = "publish" -> {"ok"}
      [] pc \in {"replace", "recheck"} ->
            {IF file = op.expected THEN "ok" ELSE "revision_conflict"}
      [] pc = "reconcile" ->
            {"unavailable"} \cup
            (IF file \notin Documents THEN {}
             ELSE IF file # op.expected THEN {"revision_conflict"}
             ELSE IF HotOnly(Rebased) THEN {} ELSE {"restart_required"})
      [] OTHER -> {"unavailable"}

\* The document of an answer: the one committed, or the one found.
Subject(code) ==
    CASE code = "ok" -> (IF op.kind = "stage" THEN snap'.pending ELSE snap'.revision)
      [] code = "revision_conflict" -> file
      [] OTHER -> None

\* One step of the transaction that holds the lock.
Transact ==
    /\ holder # None
    /\ \/ Reconcile \/ Replace \/ WriteTemporary \/ Recheck \/ Rename
       \/ SyncAndPublish \/ Verify
    /\ IF pc' = "idle"
       THEN holder' = None /\ \E code \in Outcomes : Answer(holder, code, Subject(code))
       ELSE /\ client' = [client EXCEPT ![holder].wrote = @ \/ pc' = "publish"]
            /\ UNCHANGED holder
    /\ UNCHANGED <<running, known, issued, countVars, wanted, survivor>>

\* The response is written; its ETag is issued.
Respond(c) ==
    /\ client[c].stage = "answering"
    /\ IF client[c].document = None THEN UNCHANGED <<known, issued>>
                                    ELSE Tell(<<client[c].document>>)
    /\ client' = [client EXCEPT ![c] = NoClient]
    /\ UNCHANGED <<controllerVars, running, holder, countVars, wanted, survivor>>

-----------------------------------------------------------------------------
(***************************************************************************)
(* Environment                                                             *)
(***************************************************************************)

\* Another program edits the file.
Edit ==
    /\ edits < MaxEdits /\ edits' = edits + 1
    /\ ForeignWrite /\ file' \in Foreign
    /\ UNCHANGED <<running, client, holder, known, issued, requests, wanted, survivor>>

\* supervise clears ready and cancels the management context.
Stop ==
    /\ running /\ running' = FALSE
    /\ survivor' = holder
    /\ UNCHANGED <<controllerVars, client, holder, known, issued, countVars, wanted>>

ManagementNext ==
    \/ GetConfig \/ GetPending \/ GetStatus \/ ValidateConfig
    \/ \E c \in Clients :
          \/ Load(c) \/ Prepare(c)
          \/ EnterRefused(c) \/ EnterAdmitted(c) \/ EnterOverlay(c) \/ Respond(c)
    \/ Transact \/ Edit \/ Stop

\* Handlers run, the mutex is handed over, and file operations return.
ManagementFairness ==
    /\ WF_managementVars(Transact)
    /\ \A c \in Clients :
          /\ WF_managementVars(Prepare(c) \/ Respond(c))
          /\ WF_managementVars(EnterRefused(c) \/ EnterAdmitted(c) \/ EnterOverlay(c))

ManagementSpec ==
    ManagementInit /\ [][ManagementNext]_managementVars /\ ManagementFairness

-----------------------------------------------------------------------------
(***************************************************************************)
(* Properties                                                              *)
(***************************************************************************)

\* Every variable holds a value of the Go state it stands for; the placeholder
\* and duplicate rule identities reach neither the file nor the policy.
ManagementTypeOK ==
    /\ TypeOK
    /\ running \in BOOLEAN /\ survivor \in Clients \cup {None}
    /\ holder \in Clients \cup {None} /\ (holder # None <=> pc # "idle")
    /\ Len(known) <= MaxKnown /\ \A i \in DOMAIN known : known[i] \in issued
    /\ issued \subseteq Documents
    /\ \A c \in Clients :
          /\ client[c].stage \in {"idle", "loaded", "locking", "inside", "answering"}
          /\ client[c].stage = "inside" <=> holder = c

Commit == pc = "rename" /\ pc' = "publish"

\* "Sending an unchanged placeholder back preserves the active value": no
\* sequence of requests changes a secret that the running configuration has
\* set, neither in a hot update nor in what is staged for the next start.
SecretsFixed ==
    [][Commit /\ snap.config.cold.secret # "" =>
          file'.config.cold.secret = snap.config.cold.secret]_managementVars

\* No write is blind: what a request replaces is the very document whose token
\* it carried, although tokens are forgotten, revisions change between the
\* resolution of the token and the lock, and the file is edited by others.
NoBlindWrite == [][Commit => file = client[holder].token]_managementVars

\* after is what r asks for of before.
RulesAsAsked(r, before, after) ==
    CASE r.kind = "create" -> /\ Len(after) = Len(before) + 1
                              /\ \A i \in DOMAIN before : after[i] = before[i]
                              /\ after[Len(after)] = r.rule
      [] r.kind = "replaceAll" -> after = r.rules
      [] r.kind = "replaceOne" ->
            /\ Len(after) = Len(before)
            /\ \A i \in DOMAIN before :
                  after[i] = IF before[i].id = r.id THEN r.rule ELSE before[i]
      [] r.kind = "delete" ->
            /\ Len(after) = Len(before) - 1
            /\ \E gone \in DOMAIN before :
                  /\ before[gone].id = r.id
                  /\ \A i \in DOMAIN before \ {gone} :
                        after[IF i < gone THEN i ELSE i - 1] = before[i]
      [] r.kind = "reorder" -> /\ {after[i] : i \in DOMAIN after}
                                    = {before[i] : i \in DOMAIN before}
                               /\ \A i \in DOMAIN after : after[i].id = r.order[i]

\* A committed rule mutation does to the rules the client named by its token
\* exactly what was asked, and nothing to any other field; a committed document
\* is the one that was sent, up to its secret.
CommitsAsAsked ==
    [][Commit =>
        LET r == client[holder].request
        IN  /\ r.kind \in RuleKinds =>
                  /\ file'.config = [file.config EXCEPT !.rules = file'.config.rules]
                  /\ RulesAsAsked(r, client[holder].token.config.rules, file'.config.rules)
            /\ r.kind \in Full =>
                  file'.config = [r.config EXCEPT !.cold.secret = file'.config.cold.secret]
      ]_managementVars

\* A request that is answered with a problem has not changed the file, wherever
\* its transaction failed.
ProblemChangesNothing ==
    \A c \in Clients :
        client[c].stage = "answering" /\ client[c].code # "ok" => ~client[c].wrote

\* "Mute and solo changes are serialized with config swaps and preserve one
\* another": the overlay is what the acknowledged requests left, through hot
\* updates, staging, cancellation and drift.
OverlayKept == snap.overlay = wanted

\* "Shutdown cancellation [is] synchronous all the way": once the context is
\* cancelled only the transaction that already holds the lock can commit.
NoLateStart == [][Commit /\ ~running => holder = survivor]_managementVars

\* Every request is answered.
Answered == \A c \in Clients : client[c].stage = "loaded" ~> client[c].stage = "idle"

\* What a request commits replaces the document it named, does what was asked
\* and no more, and leaves secrets alone.
CommitsSound == SecretsFixed /\ NoBlindWrite /\ CommitsAsAsked

\* What clients are told is so: types hold, a problem means that the file was not
\* changed, and the overlay is the acknowledged one.
AnswersTrue == ManagementTypeOK /\ ProblemChangesNothing /\ OverlayKept

\* Shutdown admits no new transaction, and every request is answered.
ShutdownClean == NoLateStart /\ Answered

=============================================================================
