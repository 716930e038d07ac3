-------------------------- MODULE PolicyController --------------------------
(***************************************************************************)
(* The runtime policy controller (app/policy.go) on its configuration file *)
(* (config/repository.go): hot updates, rule mutations, staged restarts and *)
(* their cancellation, as compare-and-swap transactions on one file that   *)
(* other programs write too, with failing steps, kills and power loss.     *)
(*                                                                         *)
(* A document is the content of the file.  Its revision is the digest of   *)
(* its bytes, so a document stands for its own revision.                   *)
(***************************************************************************)
EXTENDS Naturals, FiniteSets

CONSTANTS
    Rules,          \* values of the rules, a hot field
    Configs,        \* configurations: rules, mapping defaults (the other hot
                    \* fields), and all the fields that need a restart
    Canonical,      \* the bytes Encode writes for a configuration
    Handwritten,    \* any other bytes that decode to it
    Edited,         \* the configurations that are also found handwritten
    Bad,            \* a file that Decode rejects, or a missing one
    Torn,           \* a file whose bytes did not all reach the disk
    None,           \* no document, and the empty revision of an unknown token
    Overlays,       \* temporary mute and solo sets
    NoOverlay,      \* the empty ones
    Worlds          \* the environments considered

Documents ==
    [config : Configs, form : {Canonical}] \cup [config : Edited, form : {Handwritten}]

\* The rules of a configuration may be any.
ASSUME ConfigsAssumption ==
    \A c \in Configs : /\ DOMAIN c = {"rules", "defaults", "cold"}
                       /\ \A r \in Rules : [c EXCEPT !.rules = r] \in Configs

\* The two forms differ, and there is an empty overlay.
ASSUME FormsAssumption ==
    Canonical # Handwritten /\ Edited \subseteq Configs /\ NoOverlay \in Overlays

\* An environment: programs that ignore the advisory lock write the file or not,
\* publishing a policy may fail or not (it never does in production), and
\* which of "kill" and "power" happen.
ASSUME WorldsAssumption ==
    Worlds \subseteq [rogue : BOOLEAN, applyMayFail : BOOLEAN,
                      failures : SUBSET {"kill", "power"}]

\* The special values are no documents, and a file is torn or rejected.
ASSUME SpecialAssumption == {Bad, Torn, None} \cap Documents = {} /\ Bad # Torn

VARIABLES
    world,      \* the environment, fixed in the initial state
    file,       \* what a read of the configuration file returns
    outcomes,   \* what the file may hold after a power loss
    locked,     \* this process holds the advisory lock
    snap,       \* the published policySnapshot
    pc,         \* progress of the operation that holds Controller.mu
    op,         \* that operation
    drift,      \* history: the file was written since the controller looked at it
    acked       \* history: the last change acknowledged without a warning

vars == <<world, file, outcomes, locked, snap, pc, op, drift, acked>>

States == {"ready", "restart_pending", "out_of_sync", "durability_uncertain",
           "degraded"}

\* Encode followed by digest: the document a configuration is written as.
Encode(c) == [config |-> c, form |-> Canonical]

NoOp == [kind |-> "none", expected |-> None, candidate |-> None, synced |-> FALSE]

\* newController: the file is authoritative.
Loaded(doc) ==
    [revision |-> doc, config |-> doc.config, selector |-> doc.config,
     pending |-> None, overlay |-> NoOverlay, state |-> "ready"]

Init ==
    /\ world \in Worlds
    /\ file \in Documents
    /\ outcomes = {file}
    /\ locked = FALSE
    /\ snap = Loaded(file)
    /\ pc = "idle" /\ op = NoOp
    /\ drift = FALSE /\ acked = None

-----------------------------------------------------------------------------
(***************************************************************************)
(* Admission of an operation.  Whatever is refused here changes nothing.   *)
(***************************************************************************)

\* The revision the controller believes the file has.
Durable == IF snap.state = "restart_pending" THEN snap.pending ELSE snap.revision

\* Mutant: classifyChanges overlooks the restart-required fields.
HotOnlyAlways(c) == TRUE

\* classifyChanges finds no restart-required field.
HotOnly(c) == c.cold = snap.config.cold

Start(kind, expected, candidate, next) ==
    /\ pc = "idle"
    /\ op' = [kind |-> kind, expected |-> expected, candidate |-> candidate,
              synced |-> FALSE]
    /\ pc' = next
    /\ UNCHANGED <<world, file, outcomes, locked, snap, drift, acked>>

\* UpdateContext: the caller supplies a complete configuration.
BeginUpdate(expected, c) ==
    \/ /\ snap.state \in {"ready", "durability_uncertain"}
       /\ expected = snap.revision /\ HotOnly(c)
       /\ Start("update", expected, c, "replace")
    \/ /\ snap.state = "out_of_sync"
       /\ Start("update", expected, c, "reconcile")

\* MutateContext: a rule mutation of the configuration the transaction reads.
BeginMutate(expected, r) ==
    \/ /\ snap.state \in {"ready", "durability_uncertain"}
       /\ expected = snap.revision
       /\ Start("mutate", expected, [snap.config EXCEPT !.rules = r], "replace")
    \/ /\ snap.state = "out_of_sync"
       /\ Start("mutate", expected, [snap.config EXCEPT !.rules = r], "reconcile")

\* StageRestartContext: a complete configuration for the next start.
BeginStage(expected, c) ==
    /\ snap.state \in {"ready", "restart_pending"}
    /\ expected = Durable /\ ~HotOnly(c)
    /\ Start("stage", expected, c, "replace")

\* CancelRestartContext: the active configuration becomes the next one again.
BeginCancel(expected) ==
    /\ snap.state = "restart_pending" /\ snap.pending # None
    /\ expected = snap.pending
    /\ Start("cancel", expected, snap.config, "replace")

\* replaceOverlay: temporary mutes and solos.
ReplaceOverlay(o) ==
    /\ pc = "idle" /\ snap.state \in {"ready", "restart_pending"}
    /\ snap' = [snap EXCEPT !.overlay = o]
    /\ UNCHANGED <<world, file, outcomes, locked, pc, op, drift, acked>>

-----------------------------------------------------------------------------
(***************************************************************************)
(* Ends of a transaction                                                   *)
(***************************************************************************)

Publish(s) == snap' = s

\* The operation is over and Controller.mu is free again.
End == pc' = "idle" /\ op' = NoOp /\ locked' = FALSE

\* snapshotWithStatus
WithState(s) == [snap EXCEPT !.state = s]

\* Mutant: the compiled selector of the candidate is not installed.
UpdatedStaleSelector(doc, state) ==
    [revision |-> doc, config |-> doc.config, selector |-> snap.selector,
     pending |-> None, overlay |-> snap.overlay, state |-> state]

\* The snapshot a committed update or mutation publishes.
Updated(doc, state) ==
    [revision |-> doc, config |-> doc.config, selector |-> op.candidate,
     pending |-> None, overlay |-> snap.overlay, state |-> state]

\* The snapshot a committed staging publishes: the active policy stays.
Staged(doc) == [snap EXCEPT !.pending = doc, !.state = "restart_pending"]

\* The snapshot a committed cancellation publishes.
Unstaged(doc, state) ==
    [snap EXCEPT !.revision = doc, !.pending = None, !.state = state]

\* Replace committed doc, or found it in place.  state is ready or
\* durability_uncertain.
Committed(doc, state) ==
    CASE op.kind \in {"update", "mutate"} -> Updated(doc, state)
      [] op.kind = "stage" -> Staged(doc)
      [] op.kind = "cancel" -> Unstaged(doc, state)

\* Mutant: a conflict found while persisting is only reported to the caller.
ConflictUnpublished == Publish(snap) /\ drift' = FALSE /\ End

\* Replace returned a ConflictError: another revision than the caller named.
Conflict ==
    /\ Publish(IF file # (IF op.kind \in {"update", "mutate"}
                          THEN snap.revision ELSE op.expected)
               THEN WithState("out_of_sync") ELSE snap)
    /\ drift' = FALSE
    /\ End

\* Any other error of Replace: cancellation, lock, size, mode, input and output.
Failed == pc' = "verify" /\ locked' = FALSE /\ UNCHANGED <<snap, op, drift>>

-----------------------------------------------------------------------------
(***************************************************************************)
(* Steps of a transaction                                                  *)
(***************************************************************************)

\* Mutant: a mutation starts from the active configuration, not from the file.
RebasedOnActive == op.candidate

\* The candidate built from the file: a mutation changes what the file holds, an
\* update ignores it.
Rebased ==
    IF op.kind = "mutate" THEN [file.config EXCEPT !.rules = op.candidate.rules]
                          ELSE op.candidate

\* transactContext while out of sync: the caller must name the revision the
\* file has now, and a mutation starts from the file.
Reconcile ==
    /\ pc = "reconcile"
    /\ \/ \* the read fails, the mutation is refused, or the caller gave up
          pc' = "idle" /\ op' = NoOp /\ UNCHANGED drift
       \/ \* a conflict, or a field that needs a restart
          /\ file \in Documents
          /\ file # op.expected \/ ~HotOnly(Rebased)
          /\ pc' = "idle" /\ op' = NoOp /\ drift' = FALSE
       \/ /\ file \in Documents /\ file = op.expected /\ HotOnly(Rebased)
          /\ pc' = "replace" /\ op' = [op EXCEPT !.candidate = Rebased]
          /\ UNCHANGED drift
    /\ UNCHANGED <<world, file, outcomes, locked, snap, acked>>

\* Mutant: the advisory lock is released after the first read.
ProceedUnlocked ==
    /\ pc' = "temporary" /\ locked' = FALSE
    /\ UNCHANGED <<snap, op, drift>>

\* The file has the revision named and has to be written: the lock is held.
Proceed ==
    /\ pc' = "temporary" /\ locked' = TRUE
    /\ UNCHANGED <<snap, op, drift>>

\* ReplaceContext: lock, read, compare, and return early when the file already
\* holds the configuration.  A no-op reports the revision it found; when that
\* is the active one nothing is published, except to leave out_of_sync.
Replace ==
    /\ pc = "replace"
    /\ \/ Failed
       \/ file \in Documents /\ file # op.expected /\ Conflict
       \/ /\ file \in Documents /\ file = op.expected
          /\ file.config = op.candidate
          /\ IF op.kind \in {"update", "mutate"} /\ file = snap.revision
                  /\ file.config = snap.config /\ snap.state # "out_of_sync"
             THEN Publish(snap)
             ELSE \/ Publish(Committed(file, "ready"))
                  \/ /\ world.applyMayFail /\ op.kind \in {"update", "mutate"}
                     /\ Publish(IF file # snap.revision \/ file.config # snap.config
                                THEN WithState("out_of_sync") ELSE snap)
          /\ drift' = FALSE
          /\ End
       \/ /\ file \in Documents /\ file = op.expected
          /\ file.config # op.candidate
          /\ Proceed
    /\ UNCHANGED <<world, file, outcomes, acked>>

\* commit: the new document is written to a temporary file and synced.
WriteTemporary ==
    /\ pc = "temporary"
    /\ \/ Failed
       \/ /\ pc' = "recheck" /\ op' = [op EXCEPT !.synced = TRUE]
          /\ UNCHANGED <<snap, locked, drift>>
    /\ UNCHANGED <<world, file, outcomes, acked>>

\* commit: the file is read once more.
Recheck ==
    /\ pc = "recheck"
    /\ \/ Failed
       \/ file \in Documents /\ file # op.expected /\ Conflict
       \/ /\ file = op.expected
          /\ pc' = "rename"
          /\ UNCHANGED <<snap, op, locked, drift>>
    /\ UNCHANGED <<world, file, outcomes, acked>>

\* commit: the temporary file takes the place of the configuration file.
Rename ==
    /\ pc = "rename"
    /\ \/ Failed /\ UNCHANGED <<file, outcomes, acked>>
       \/ /\ file' = Encode(op.candidate)
          /\ outcomes' = outcomes \cup
                {IF op.synced THEN Encode(op.candidate) ELSE Torn}
          /\ drift' = FALSE /\ acked' = None
          /\ pc' = "publish"
          /\ UNCHANGED <<snap, op, locked>>
    /\ UNCHANGED world

\* Mutant: the directory is not synced.
SyncDirectoryNever(doc) == outcomes

\* syncDirectory: the rename that put doc in place is on disk.
SyncDirectory(doc) == IF file = doc THEN {doc} ELSE outcomes

\* The directory is synced, the lock released, and the policy published.  A
\* failing sync or release is a warning; the change is committed.
SyncAndPublish ==
    /\ pc = "publish"
    /\ LET doc == Encode(op.candidate)
       IN  \/ \* success
              /\ Publish(Committed(doc, "ready"))
              /\ outcomes' = SyncDirectory(doc)
              /\ acked' = IF file = doc THEN doc ELSE None
              /\ End
           \/ \* the directory was synced or not, and a warning is reported
              /\ Publish(Committed(doc, "durability_uncertain"))
              /\ outcomes' \in {outcomes, SyncDirectory(doc)}
              /\ UNCHANGED acked
              /\ End
           \/ /\ world.applyMayFail /\ op.kind \in {"update", "mutate"}
              /\ pc' = "rollback" /\ locked' = FALSE
              /\ outcomes' \in {outcomes, SyncDirectory(doc)}
              /\ UNCHANGED <<snap, op, acked>>
    /\ UNCHANGED <<world, file, drift>>

\* markPersistenceUncertainty: does the file still have the revision the
\* controller believes in?
Verify ==
    /\ pc = "verify"
    /\ \/ /\ file = Durable /\ Publish(snap) /\ drift' = FALSE
       \/ /\ file # Durable /\ Publish(WithState("out_of_sync")) /\ drift' = FALSE
       \/ \* the read fails
          Publish(WithState("out_of_sync")) /\ UNCHANGED drift
    /\ End
    /\ UNCHANGED <<world, file, outcomes, acked>>

\* Mutant: rollback does not compare revisions.
RollbackCheckAnyRevision ==
    /\ pc = "rollback"
    /\ \/ /\ Publish(WithState("degraded")) /\ End
       \/ /\ file \in Documents
          /\ pc' = "restore" /\ locked' = TRUE
          /\ UNCHANGED <<snap, op>>
    /\ UNCHANGED <<world, file, outcomes, drift, acked>>

\* applyFailed: RollbackContext restores the replaced document if the file is
\* still the one this transaction wrote, otherwise the controller is degraded.
RollbackCheck ==
    /\ pc = "rollback"
    /\ \/ /\ Publish(WithState("degraded")) /\ End
       \/ /\ file = Encode(op.candidate)
          /\ pc' = "restore" /\ locked' = TRUE
          /\ UNCHANGED <<snap, op>>
    /\ UNCHANGED <<world, file, outcomes, drift, acked>>

\* commit of the rollback: the replaced document comes back.
RollbackRename ==
    /\ pc = "restore"
    /\ \/ /\ Publish(WithState("degraded"))
          /\ UNCHANGED <<file, outcomes, drift>>
       \/ /\ file' = op.expected
          /\ drift' = FALSE
          /\ \/ outcomes' = {op.expected} /\ Publish(WithState("ready"))
             \/ /\ outcomes' \in {{op.expected}, outcomes \cup {op.expected}}
                /\ Publish(WithState("durability_uncertain"))
    /\ End
    /\ UNCHANGED <<world, acked>>

-----------------------------------------------------------------------------
(***************************************************************************)
(* Environment                                                             *)
(***************************************************************************)

\* Another program replaces the file, durably: one that takes the lock, or one
\* that does not.
ForeignWrite ==
    /\ world.rogue \/ ~locked
    /\ \E f \in Documents \cup {Bad} : f # file /\ file' = f /\ outcomes' = {f}
    /\ drift' = TRUE /\ acked' = None
    /\ UNCHANGED <<world, locked, snap, pc, op>>

\* The process dies; the kernel drops its lock.
Kill ==
    /\ "kill" \in world.failures /\ pc # "down"
    /\ pc' = "down" /\ op' = NoOp /\ locked' = FALSE
    /\ UNCHANGED <<world, file, outcomes, snap, drift, acked>>

\* The machine loses power.
PowerLoss ==
    /\ "power" \in world.failures /\ pc # "down"
    /\ pc' = "down" /\ op' = NoOp /\ locked' = FALSE
    /\ file' \in outcomes /\ outcomes' = {file'}
    /\ UNCHANGED <<world, snap, drift, acked>>

\* newController; a file that cannot be read keeps the process from starting.
Restart ==
    /\ pc = "down" /\ file \in Documents
    /\ snap' = Loaded(file)
    /\ pc' = "idle" /\ drift' = FALSE
    /\ UNCHANGED <<world, file, outcomes, locked, op, acked>>

Next ==
    \/ \E d \in Documents \cup {None}, c \in Configs : BeginUpdate(d, c)
    \/ \E d \in Documents \cup {None}, r \in Rules : BeginMutate(d, r)
    \/ \E d \in Documents, c \in Configs : BeginStage(d, c)
    \/ \E d \in Documents : BeginCancel(d)
    \/ \E o \in Overlays : ReplaceOverlay(o)
    \/ Reconcile \/ Replace \/ WriteTemporary \/ Recheck \/ Rename
    \/ SyncAndPublish \/ Verify \/ RollbackCheck \/ RollbackRename
    \/ ForeignWrite \/ Kill \/ PowerLoss \/ Restart

Spec == Init /\ [][Next]_vars

-----------------------------------------------------------------------------
(***************************************************************************)
(* Properties                                                              *)
(***************************************************************************)

Snapshots ==
    [revision : Documents, config : Configs, selector : Configs,
     pending : Documents \cup {None}, overlay : Overlays, state : States]

Operations ==
    [kind : {"none", "update", "mutate", "stage", "cancel"},
     expected : Documents \cup {None}, candidate : Configs \cup {None},
     synced : BOOLEAN]

\* Every variable holds a value of the Go state it stands for.
TypeOK ==
    /\ world \in Worlds
    /\ file \in Documents \cup {Bad, Torn}
    /\ outcomes \subseteq Documents \cup {Bad, Torn}
    /\ locked \in BOOLEAN /\ drift \in BOOLEAN
    /\ snap \in Snapshots
    /\ pc \in {"idle", "reconcile", "replace", "temporary", "recheck", "rename",
               "publish", "verify", "rollback", "restore", "down"}
    /\ op \in Operations
    /\ acked \in Documents \cup {None}

\* "ControllerState describes whether the in-memory policy and durable file are
\* known to agree": as of the controller's last look at the file, ready and
\* durability_uncertain mean that it holds the active revision, and
\* restart_pending that it holds the pending one.  Production's publication
\* never fails; if it did, the rollback of a reconciliation would report ready.
InSync ==
    pc = "idle" /\ ~drift /\ ~world.applyMayFail =>
        /\ snap.state \in {"ready", "durability_uncertain"} => file = snap.revision
        /\ snap.state = "restart_pending" => file = snap.pending

\* Configuration, selector and revision of a published snapshot are of one
\* generation, through hot updates, no-ops, reconciliation, staging,
\* cancellation and rollback.
OneGeneration ==
    pc # "down" => snap.config = snap.revision.config /\ snap.selector = snap.config

\* No sequence of updates, foreign edits and reconciliations changes a
\* restart-required field of the running policy.
ColdFieldsFixed ==
    [][pc # "down" => snap'.config.cold = snap.config.cold]_vars

\* As long as writers take the lock, a commit replaces only the revision its
\* caller named: no update is lost.
NoLostUpdate ==
    [][~world.rogue /\ pc = "rename" /\ pc' = "publish" => file = op.expected]_vars

\* "Unrelated external edits are not overwritten": a rule mutation leaves all
\* other fields of the file as it finds them, also when it reconciles.
MutationKeepsEdits ==
    [][~world.rogue /\ op.kind = "mutate" /\ pc = "rename" /\ pc' = "publish" =>
          file'.config = [file.config EXCEPT !.rules = file'.config.rules]]_vars

\* A power loss at any moment leaves a complete document.
CrashLeavesDocument == Torn \notin outcomes /\ file # Torn

\* A change acknowledged without a warning survives a power loss.
AckedSurvives == acked # None => outcomes = {acked}

\* "So a rollback cannot overwrite a later update": undoing a change whose
\* publication failed replaces only the document this transaction wrote, and
\* puts back exactly the one it replaced.
RollbackIsExact ==
    [][~world.rogue /\ pc = "restore" /\ file' # file /\ pc' = "idle" =>
          file = Encode(op.candidate) /\ file' = op.expected]_vars

\* Published snapshots have their types and are of one generation.
SnapshotsSound == TypeOK /\ OneGeneration

\* A power loss leaves a complete document, and the acknowledged one.
SurvivesPowerLoss == CrashLeavesDocument /\ AckedSurvives

=============================================================================
