--------------------------- MODULE ManagementProof --------------------------
(***************************************************************************)
(* Proofs about PolicyController and, on top of it, Management.            *)
(***************************************************************************)
EXTENDS Management, SequenceTheorems, FiniteSetTheorems, TLAPS

-----------------------------------------------------------------------------
(***************************************************************************)
(* PolicyController, for any configurations, rules, overlays and           *)
(* environments: foreign writers with and without the lock, failing        *)
(* publications, kills and power losses.                                   *)
(***************************************************************************)

Writing == {"replace", "temporary", "recheck", "rename", "publish"}
Hot == {"update", "mutate"}

\* A transaction knows what it replaces and what it writes; only hot operations
\* reconcile and are rolled back; what is renamed was synced; the lock is held
\* from the first comparison to the publication.
OpTyped ==
    /\ pc \notin {"idle", "down"} =>
          op.kind # "none" /\ op.candidate \in Configs
    /\ pc \notin {"idle", "down", "reconcile"} => op.expected \in Documents
    /\ pc = "reconcile" =>
          /\ op.kind \in Hot /\ snap.state = "out_of_sync"
          /\ op.kind = "mutate" => op.candidate.rules \in Rules
    /\ pc \in {"rollback", "restore"} => op.kind \in Hot /\ world.applyMayFail
    /\ pc \in {"recheck", "rename"} => op.synced
    /\ pc \in {"temporary", "recheck", "rename", "publish", "restore"} => locked

\* What a transaction writes is what its admission allowed: no cold field moves
\* in a hot operation, a mutation changes the rules of the document it replaces
\* and nothing else, and a cancellation restores the active configuration.
OpSound ==
    pc \in Writing =>
        /\ op.kind \in Hot =>
              /\ op.candidate.cold = snap.config.cold
              /\ snap.state \in {"ready", "durability_uncertain", "out_of_sync"}
        /\ op.kind = "mutate" =>
              op.candidate = [op.expected.config EXCEPT !.rules = op.candidate.rules]
        /\ op.kind = "cancel" => op.candidate = snap.config

\* Among writers that take the lock the file stays what it was when compared.
FileHeld ==
    ~world.rogue =>
        /\ pc \in {"temporary", "recheck", "rename"} => file = op.expected
        /\ pc = "restore" => file = Encode(op.candidate)

\* The snapshot s says of the file f what its state means.
Agrees(s, f) ==
    /\ s.state \in {"ready", "durability_uncertain"} => f = s.revision
    /\ s.state = "restart_pending" => f = s.pending

\* Between two foreign writes the controller is right about the file throughout
\* a transaction, except between the rename and the publication, when the file
\* is ahead of it.
LastLook ==
    ~drift /\ ~world.applyMayFail =>
        /\ pc = "publish" => file = Encode(op.candidate)
        /\ pc \notin {"publish", "down"} => Agrees(snap, file)

\* The acknowledgement of an earlier change ends with the rename.
Unacked == pc \in {"publish", "rollback", "restore"} => acked = None

Inv ==
    /\ TypeOK /\ OpTyped /\ OneGeneration /\ OpSound
    /\ FileHeld /\ LastLook /\ SurvivesPowerLoss /\ Unacked

-----------------------------------------------------------------------------
(***************************************************************************)
(* Documents and configurations                                            *)
(***************************************************************************)

\* Encode followed by Decode gives the configuration back.
LEMMA EncodeDocument ==
    ASSUME NEW c \in Configs
    PROVE  Encode(c) \in Documents /\ Encode(c).config = c
BY DEF Encode, Documents

\* A document decodes to a configuration.
LEMMA DocumentConfig ==
    ASSUME NEW d \in Documents
    PROVE  d.config \in Configs
BY FormsAssumption DEF Documents

\* None of the special values is a document.
LEMMA NotDocuments ==
    Bad \notin Documents /\ Torn \notin Documents /\ None \notin Documents /\ Bad # Torn
BY SpecialAssumption

\* Replacing the rules leaves a configuration, with its other fields.
LEMMA RulesReplaced ==
    ASSUME NEW c \in Configs, NEW r \in Rules
    PROVE  /\ [c EXCEPT !.rules = r] \in Configs
           /\ [c EXCEPT !.rules = r].cold = c.cold
           /\ [c EXCEPT !.rules = r].rules = r
BY ConfigsAssumption

\* No operation is a well-typed one.
LEMMA NoOpTyped == NoOp \in Operations
BY DEF NoOp, Operations

\* What a fresh controller publishes.
LEMMA LoadedSnapshot ==
    ASSUME NEW d \in Documents
    PROVE  /\ Loaded(d) \in Snapshots
           /\ Loaded(d).config = Loaded(d).revision.config
           /\ Loaded(d).selector = Loaded(d).config
           /\ Agrees(Loaded(d), d)
BY DocumentConfig, FormsAssumption DEF Loaded, Snapshots, States, Agrees

\* A change of state changes nothing else of a snapshot.
LEMMA WithStateSnapshot ==
    ASSUME snap \in Snapshots, NEW s \in States
    PROVE  /\ WithState(s) \in Snapshots
           /\ WithState(s).config = snap.config /\ WithState(s).revision = snap.revision
           /\ WithState(s).selector = snap.selector /\ WithState(s).state = s
BY DEF WithState, Snapshots

\* What a transaction publishes when doc, which holds its candidate, is in place.
LEMMA CommittedSnapshot ==
    ASSUME snap \in Snapshots, op.kind \in {"update", "mutate", "stage", "cancel"},
           op.candidate \in Configs,
           NEW doc \in Documents, doc.config = op.candidate,
           NEW s \in {"ready", "durability_uncertain"}
    PROVE  /\ Committed(doc, s) \in Snapshots
           /\ op.kind \in Hot => Committed(doc, s) = Updated(doc, s)
           /\ op.kind \notin Hot => Committed(doc, s).config = snap.config
           /\ Agrees(Committed(doc, s), doc)
           /\ (/\ snap.config = snap.revision.config /\ snap.selector = snap.config
               /\ op.kind = "cancel" => op.candidate = snap.config) =>
                 /\ Committed(doc, s).config = Committed(doc, s).revision.config
                 /\ Committed(doc, s).selector = Committed(doc, s).config
<1>1. CASE op.kind \in {"update", "mutate"}
  <2>1. Committed(doc, s) = Updated(doc, s)
    BY <1>1 DEF Committed
  <2> QED BY <1>1, <2>1 DEF Updated, Snapshots, States, Agrees, Hot
<1>2. CASE op.kind = "stage"
  <2>1. Committed(doc, s) = Staged(doc)
    BY <1>2 DEF Committed
  <2> QED BY <1>2, <2>1 DEF Staged, Snapshots, States, Agrees, Hot
<1>3. CASE op.kind = "cancel"
  <2>1. Committed(doc, s) = Unstaged(doc, s)
    BY <1>3 DEF Committed
  <2> QED BY <1>3, <2>1 DEF Unstaged, Snapshots, States, Agrees, Hot
<1> QED BY <1>1, <1>2, <1>3

-----------------------------------------------------------------------------
(***************************************************************************)
(* The inductive invariant                                                 *)
(***************************************************************************)

LEMMA InvInit == Init => Inv
<1> SUFFICES ASSUME Init PROVE Inv
  OBVIOUS
<1>1. file \in Documents /\ snap = Loaded(file) /\ pc = "idle" /\ acked = None
      /\ outcomes = {file} /\ op = NoOp
  BY DEF Init
<1>2. TypeOK
  <2>1. snap \in Snapshots /\ op \in Operations
    BY <1>1, LoadedSnapshot, NoOpTyped
  <2> QED BY <1>1, <2>1 DEF Init, TypeOK
<1>3. OneGeneration /\ LastLook
  BY <1>1, LoadedSnapshot DEF OneGeneration, LastLook
<1>4. SurvivesPowerLoss
  BY <1>1, NotDocuments DEF SurvivesPowerLoss, CrashLeavesDocument, AckedSurvives
<1> QED BY <1>1, <1>2, <1>3, <1>4 DEF Inv, OpTyped, OpSound, FileHeld, Unacked, Writing

\* Admitting an operation: what the caller names and sends becomes the operation.
LEMMA StartStep ==
    ASSUME Inv,
           NEW kind \in {"update", "mutate", "stage", "cancel"},
           NEW d \in Documents \cup {None}, NEW c \in Configs,
           NEW next \in {"replace", "reconcile"},
           Start(kind, d, c, next),
           next = "reconcile" => /\ kind \in Hot /\ snap.state = "out_of_sync"
                                 /\ kind = "mutate" => c.rules \in Rules,
           next = "replace" =>
              /\ d \in Documents
              /\ kind \in Hot =>
                    /\ c.cold = snap.config.cold
                    /\ snap.state \in {"ready", "durability_uncertain"}
              /\ kind = "mutate" => c = [d.config EXCEPT !.rules = c.rules]
              /\ kind = "cancel" => c = snap.config
    PROVE  Inv'
<1>1. /\ pc = "idle" /\ pc' = next
      /\ op' = [kind |-> kind, expected |-> d, candidate |-> c, synced |-> FALSE]
      /\ UNCHANGED <<world, file, outcomes, locked, snap, drift, acked>>
  BY DEF Start
<1>2. op'.kind = kind /\ op'.expected = d /\ op'.candidate = c /\ op' \in Operations
  BY <1>1 DEF Operations
<1>3. TypeOK'
  BY <1>1, <1>2 DEF Inv, TypeOK
<1>4. OpTyped' /\ OpSound'
  BY <1>1, <1>2 DEF OpTyped, OpSound, Writing, Hot
<1>5. OneGeneration' /\ FileHeld' /\ LastLook' /\ SurvivesPowerLoss' /\ Unacked'
  BY <1>1 DEF Inv, OneGeneration, FileHeld, LastLook, Agrees, SurvivesPowerLoss,
              CrashLeavesDocument, AckedSurvives, Unacked
<1> QED BY <1>3, <1>4, <1>5 DEF Inv

LEMMA BeginUpdateStep ==
    ASSUME Inv, NEW d \in Documents \cup {None}, NEW c \in Configs, BeginUpdate(d, c)
    PROVE  Inv'
<1>1. CASE Start("update", d, c, "replace") /\ HotOnly(c) /\ d = snap.revision
           /\ snap.state \in {"ready", "durability_uncertain"}
  <2>1. d \in Documents
    BY <1>1 DEF Inv, TypeOK, Snapshots
  <2> QED BY <1>1, <2>1, StartStep DEF HotOnly
<1>2. CASE Start("update", d, c, "reconcile") /\ snap.state = "out_of_sync"
  BY <1>2, StartStep DEF Hot
<1> QED BY <1>1, <1>2 DEF BeginUpdate

LEMMA BeginMutateStep ==
    ASSUME Inv, NEW d \in Documents \cup {None}, NEW r \in Rules, BeginMutate(d, r)
    PROVE  Inv'
<1> DEFINE c == [snap.config EXCEPT !.rules = r]
<1>1. snap.config \in Configs
  BY DEF Inv, TypeOK, Snapshots
<1>2. c \in Configs /\ c.cold = snap.config.cold /\ c.rules = r
  BY <1>1, RulesReplaced
<1>3. CASE Start("mutate", d, c, "replace") /\ d = snap.revision
           /\ snap.state \in {"ready", "durability_uncertain"}
  <2>1. d.config = snap.config /\ d \in Documents
    BY <1>3 DEF Inv, TypeOK, Snapshots, OneGeneration, Start
  <2>2. c = [d.config EXCEPT !.rules = c.rules]
    BY <2>1, <1>2
  <2> HIDE DEF c
  <2> QED BY <1>2, <1>3, <2>1, <2>2, StartStep
<1>4. CASE Start("mutate", d, c, "reconcile") /\ snap.state = "out_of_sync"
  <2> HIDE DEF c
  <2> QED BY <1>2, <1>4, StartStep DEF Hot
<1> QED BY <1>3, <1>4 DEF BeginMutate

LEMMA BeginStageStep ==
    ASSUME Inv, NEW d \in Documents, NEW c \in Configs, BeginStage(d, c)
    PROVE  Inv'
BY StartStep DEF BeginStage, Hot

LEMMA BeginCancelStep ==
    ASSUME Inv, NEW d \in Documents, BeginCancel(d)
    PROVE  Inv'
<1>1. snap.config \in Configs
  BY DEF Inv, TypeOK, Snapshots
<1> QED BY <1>1, StartStep DEF BeginCancel, Hot

LEMMA ReplaceOverlayStep ==
    ASSUME Inv, NEW o \in Overlays, ReplaceOverlay(o)
    PROVE  Inv'
<1>1. /\ pc = "idle" /\ snap' = [snap EXCEPT !.overlay = o]
      /\ UNCHANGED <<world, file, outcomes, locked, pc, op, drift, acked>>
  BY DEF ReplaceOverlay
<1>2. /\ snap' \in Snapshots /\ snap'.config = snap.config
      /\ snap'.revision = snap.revision /\ snap'.selector = snap.selector
      /\ snap'.state = snap.state /\ snap'.pending = snap.pending
  BY <1>1 DEF Inv, TypeOK, Snapshots
<1> QED BY <1>1, <1>2 DEF Inv, TypeOK, OpTyped, OpSound, OneGeneration, FileHeld, LastLook,
              Agrees, SurvivesPowerLoss, CrashLeavesDocument, AckedSurvives, Unacked, Writing

\* However a transaction ends, the invariant is about the snapshot it leaves.
LEMMA EndStep ==
    ASSUME Inv, End, world' = world, snap' \in Snapshots,
           file' \in Documents \cup {Bad}, outcomes' \subseteq Documents \cup {Bad},
           drift' \in BOOLEAN, acked' \in Documents \cup {None},
           snap'.config = snap'.revision.config, snap'.selector = snap'.config,
           ~drift' /\ ~world.applyMayFail => Agrees(snap', file'),
           acked' # None => outcomes' = {acked'}
    PROVE  Inv'
<1>1. pc' = "idle" /\ op' = NoOp /\ locked' = FALSE
  BY DEF End
<1>2. op' \in Operations
  BY <1>1, NoOpTyped
<1>3. TypeOK'
  BY <1>1, <1>2 DEF Inv, TypeOK
<1>4. OpTyped' /\ OpSound' /\ FileHeld' /\ Unacked'
  BY <1>1 DEF OpTyped, OpSound, FileHeld, Unacked, Writing
<1>5. OneGeneration' /\ LastLook'
  BY <1>1 DEF OneGeneration, LastLook, Agrees
<1>6. SurvivesPowerLoss'
  BY NotDocuments DEF SurvivesPowerLoss, CrashLeavesDocument, AckedSurvives
<1> QED BY <1>3, <1>4, <1>5, <1>6 DEF Inv

\* What every state of a running controller offers to those who end a
\* transaction.
LEMMA RunningFacts ==
    ASSUME Inv, pc # "down"
    PROVE  /\ snap \in Snapshots /\ snap.config = snap.revision.config
           /\ snap.selector = snap.config
           /\ file \in Documents \cup {Bad} /\ outcomes \subseteq Documents \cup {Bad}
           /\ drift \in BOOLEAN /\ acked \in Documents \cup {None}
           /\ acked # None => outcomes = {acked}
           /\ pc # "publish" /\ ~drift /\ ~world.applyMayFail => Agrees(snap, file)
BY DEF Inv, TypeOK, OneGeneration, SurvivesPowerLoss, CrashLeavesDocument, AckedSurvives,
       LastLook

\* A transaction is one of four kinds.
LEMMA KindFacts ==
    ASSUME Inv, pc \notin {"idle", "down"}
    PROVE  /\ op.kind \in {"update", "mutate", "stage", "cancel"}
           /\ op.candidate \in Configs
BY DEF Inv, TypeOK, Operations, OpTyped

LEMMA FailedStep ==
    ASSUME Inv, pc \in {"replace", "temporary", "recheck", "rename"}, Failed,
           UNCHANGED <<world, file, outcomes, acked>>
    PROVE  Inv'
BY DEF Failed, Inv, TypeOK, OpTyped, OpSound, OneGeneration, FileHeld, LastLook, Agrees,
       SurvivesPowerLoss, CrashLeavesDocument, AckedSurvives, Unacked, Writing

LEMMA ConflictStep ==
    ASSUME Inv, pc \in {"replace", "recheck"}, file \in Documents, file # op.expected,
           Conflict, UNCHANGED <<world, file, outcomes, acked>>
    PROVE  Inv'
<1>1. /\ snap' = IF file # (IF op.kind \in {"update", "mutate"}
                            THEN snap.revision ELSE op.expected)
                 THEN WithState("out_of_sync") ELSE snap
      /\ drift' = FALSE /\ End
  BY DEF Conflict, Publish
<1>2. WithState("out_of_sync") \in Snapshots
      /\ WithState("out_of_sync").config = snap.config
      /\ WithState("out_of_sync").revision = snap.revision
      /\ WithState("out_of_sync").selector = snap.selector
      /\ WithState("out_of_sync").state = "out_of_sync"
  BY RunningFacts, WithStateSnapshot DEF States
<1>3. CASE snap' = WithState("out_of_sync")
  <2>1. Agrees(snap', file')
    BY <1>2, <1>3 DEF Agrees
  <2> QED BY <1>1, <1>2, <1>3, <2>1, RunningFacts, EndStep
<1>4. CASE snap' = snap /\ op.kind \in {"update", "mutate"} /\ file = snap.revision
  <2>1. Agrees(snap', file')
    BY <1>4 DEF Agrees, Inv, OpSound, Writing, Hot
  <2> QED BY <1>1, <1>4, <2>1, RunningFacts, EndStep
<1> QED BY <1>1, <1>3, <1>4

LEMMA ReconcileStep ==
    ASSUME Inv, Reconcile
    PROVE  Inv'
<1>1. /\ pc = "reconcile" /\ UNCHANGED <<world, file, outcomes, locked, snap, acked>>
      /\ snap.state = "out_of_sync"
  BY DEF Reconcile, Inv, OpTyped
<1>2. CASE pc' = "idle" /\ op' = NoOp /\ drift' \in {drift, FALSE}
  <2>1. op' \in Operations
    BY <1>2, NoOpTyped
  <2>2. drift' \in BOOLEAN
    BY <1>2 DEF Inv, TypeOK
  <2> QED
    BY <1>1, <1>2, <2>1, <2>2 DEF Inv, TypeOK, OpTyped, OpSound, OneGeneration, FileHeld,
       LastLook, Agrees, SurvivesPowerLoss, CrashLeavesDocument, AckedSurvives, Unacked,
       Writing
<1>3. CASE /\ file \in Documents /\ file = op.expected /\ HotOnly(Rebased)
           /\ pc' = "replace" /\ op' = [op EXCEPT !.candidate = Rebased]
           /\ UNCHANGED drift
  <2>1. /\ op.kind \in Hot /\ op.candidate \in Configs
        /\ op.kind = "mutate" => op.candidate.rules \in Rules
    BY <1>1 DEF Inv, OpTyped
  <2>2. /\ Rebased \in Configs
        /\ op.kind = "mutate" => Rebased = [op.expected.config EXCEPT !.rules = Rebased.rules]
    <3>1. CASE op.kind = "mutate"
      BY <1>3, <2>1, <3>1, DocumentConfig, RulesReplaced DEF Rebased
    <3>2. CASE op.kind # "mutate"
      BY <2>1, <3>2 DEF Rebased
    <3> QED BY <3>1, <3>2
  <2>3. /\ op' \in Operations /\ op'.candidate = Rebased /\ op'.kind = op.kind
        /\ op'.expected = op.expected
    BY <1>3, <2>2 DEF Inv, TypeOK, Operations
  <2>4. TypeOK'
    BY <1>1, <1>3, <2>3 DEF Inv, TypeOK
  <2>5. OpTyped'
    BY <1>1, <1>3, <2>2, <2>3 DEF Inv, OpTyped
  <2>6. OpSound'
    BY <1>1, <1>3, <2>1, <2>2, <2>3 DEF OpSound, HotOnly, Hot
  <2>7. OneGeneration' /\ FileHeld' /\ LastLook' /\ SurvivesPowerLoss' /\ Unacked'
    BY <1>1, <1>3 DEF Inv, OneGeneration, FileHeld, LastLook, Agrees, SurvivesPowerLoss,
                CrashLeavesDocument, AckedSurvives, Unacked
  <2> QED BY <2>4, <2>5, <2>6, <2>7 DEF Inv
<1> QED BY <1>2, <1>3 DEF Reconcile

\* Replace finds the document it was to write, or one it does not expect, fails,
\* or goes on with the lock held.
LEMMA ReplaceStep ==
    ASSUME Inv, Replace
    PROVE  Inv'
<1>1. pc = "replace" /\ UNCHANGED <<world, file, outcomes, acked>>
  BY DEF Replace
<1>2. CASE Failed
  BY <1>1, <1>2, FailedStep
<1>3. CASE file \in Documents /\ file # op.expected /\ Conflict
  BY <1>1, <1>3, ConflictStep
<1>4. CASE /\ file \in Documents /\ file.config = op.candidate /\ drift' = FALSE /\ End
           /\ IF op.kind \in {"update", "mutate"} /\ file = snap.revision
                    /\ file.config = snap.config /\ snap.state # "out_of_sync"
              THEN Publish(snap)
              ELSE \/ Publish(Committed(file, "ready"))
                   \/ /\ world.applyMayFail /\ op.kind \in {"update", "mutate"}
                      /\ Publish(IF file # snap.revision \/ file.config # snap.config
                                 THEN WithState("out_of_sync") ELSE snap)
  <2>1. CASE snap' = snap /\ op.kind \in {"update", "mutate"} /\ file = snap.revision
    <3>1. Agrees(snap', file')
      BY <1>1, <2>1 DEF Agrees, Inv, OpSound, Writing, Hot
    <3> QED BY <1>1, <1>4, <2>1, <3>1, RunningFacts, EndStep
  <2>2. CASE snap' = Committed(file, "ready")
    <3>1. op.kind = "cancel" => op.candidate = snap.config
      BY <1>1 DEF Inv, OpSound, Writing
    <3>2. /\ snap' \in Snapshots /\ snap'.config = snap'.revision.config
          /\ snap'.selector = snap'.config /\ Agrees(snap', file')
      BY <1>1, <1>4, <2>2, <3>1, RunningFacts, KindFacts, CommittedSnapshot
    <3> QED BY <1>1, <1>4, <3>2, RunningFacts, EndStep
  <2>3. CASE snap' = WithState("out_of_sync")
    <3>1. /\ snap' \in Snapshots /\ snap'.config = snap.config
          /\ snap'.revision = snap.revision /\ snap'.selector = snap.selector
          /\ snap'.state = "out_of_sync"
      BY <1>1, <2>3, RunningFacts, WithStateSnapshot DEF States
    <3>2. Agrees(snap', file')
      BY <3>1 DEF Agrees
    <3> QED BY <1>1, <1>4, <3>1, <3>2, RunningFacts, EndStep
  <2> QED BY <1>4, <2>1, <2>2, <2>3 DEF Publish
<1>5. CASE file \in Documents /\ file = op.expected /\ Proceed
  BY <1>1, <1>5 DEF Proceed, Inv, TypeOK, OpTyped, OpSound, OneGeneration, FileHeld,
     LastLook, Agrees, SurvivesPowerLoss, CrashLeavesDocument, AckedSurvives, Unacked, Writing
<1> QED BY <1>2, <1>3, <1>4, <1>5 DEF Replace

LEMMA WriteTemporaryStep ==
    ASSUME Inv, WriteTemporary
    PROVE  Inv'
<1>1. pc = "temporary" /\ UNCHANGED <<world, file, outcomes, acked>>
  BY DEF WriteTemporary
<1>2. CASE Failed
  BY <1>1, <1>2, FailedStep
<1>3. CASE /\ pc' = "recheck" /\ op' = [op EXCEPT !.synced = TRUE]
           /\ UNCHANGED <<snap, locked, drift>>
  <2>1. /\ op' \in Operations /\ op'.synced /\ op'.kind = op.kind
        /\ op'.expected = op.expected /\ op'.candidate = op.candidate
    BY <1>3 DEF Inv, TypeOK, Operations
  <2> QED BY <1>1, <1>3, <2>1 DEF Inv, TypeOK, OpTyped, OpSound, OneGeneration, FileHeld, LastLook, Agrees,
     SurvivesPowerLoss, CrashLeavesDocument, AckedSurvives, Unacked, Writing
<1> QED BY <1>2, <1>3 DEF WriteTemporary

LEMMA RecheckStep ==
    ASSUME Inv, Recheck
    PROVE  Inv'
<1>1. pc = "recheck" /\ UNCHANGED <<world, file, outcomes, acked>>
  BY DEF Recheck
<1>2. CASE Failed
  BY <1>1, <1>2, FailedStep
<1>3. CASE file \in Documents /\ file # op.expected /\ Conflict
  BY <1>1, <1>3, ConflictStep
<1>4. CASE file = op.expected /\ pc' = "rename" /\ UNCHANGED <<snap, op, locked, drift>>
  BY <1>1, <1>4 DEF Inv, TypeOK, OpTyped, OpSound, OneGeneration, FileHeld, LastLook, Agrees,
     SurvivesPowerLoss, CrashLeavesDocument, AckedSurvives, Unacked, Writing
<1> QED BY <1>2, <1>3, <1>4 DEF Recheck

\* The rename: the only step that puts the candidate in place, and that leaves a
\* power loss two documents to choose from.
LEMMA RenameStep ==
    ASSUME Inv, Rename
    PROVE  Inv'
<1>1. pc = "rename" /\ world' = world
  BY DEF Rename
<1>2. CASE Failed /\ UNCHANGED <<file, outcomes, acked>>
  BY <1>1, <1>2, FailedStep
<1>3. CASE /\ file' = Encode(op.candidate)
           /\ outcomes' = outcomes \cup {IF op.synced THEN Encode(op.candidate) ELSE Torn}
           /\ drift' = FALSE /\ acked' = None /\ pc' = "publish"
           /\ UNCHANGED <<snap, op, locked>>
  <2>1. Encode(op.candidate) \in Documents /\ op.synced
    BY <1>1, KindFacts, EncodeDocument DEF Inv, OpTyped
  <2>2. file' \in Documents /\ outcomes' = outcomes \cup {file'}
    BY <1>3, <2>1
  <2>3. SurvivesPowerLoss'
    BY <1>3, <2>2, NotDocuments
       DEF Inv, SurvivesPowerLoss, CrashLeavesDocument, AckedSurvives
  <2>4. TypeOK'
    BY <1>1, <1>3, <2>2 DEF Inv, TypeOK
  <2>5. OpTyped' /\ OpSound' /\ OneGeneration'
    BY <1>1, <1>3 DEF Inv, OpTyped, OpSound, OneGeneration, Writing
  <2>6. FileHeld' /\ LastLook' /\ Unacked'
    BY <1>1, <1>3 DEF Inv, FileHeld, LastLook, Unacked, Encode
  <2> QED BY <2>3, <2>4, <2>5, <2>6 DEF Inv
<1> QED BY <1>2, <1>3 DEF Rename

\* The end of a commit, with and without a warning, or its rollback.
LEMMA SyncAndPublishStep ==
    ASSUME Inv, SyncAndPublish
    PROVE  Inv'
<1> DEFINE doc == Encode(op.candidate)
<1>1. pc = "publish" /\ UNCHANGED <<world, file, drift>>
  BY DEF SyncAndPublish
<1>2. doc \in Documents /\ doc.config = op.candidate
  BY <1>1, KindFacts, EncodeDocument
<1>3. acked = None /\ (op.kind = "cancel" => op.candidate = snap.config)
  BY <1>1 DEF Inv, Unacked, OpSound, Writing
<1>4. SyncDirectory(doc) \subseteq Documents \cup {Bad}
  BY <1>1, <1>2, RunningFacts DEF SyncDirectory
<1>5. ~drift /\ ~world.applyMayFail => file = doc
  BY <1>1 DEF Inv, LastLook
<1>6. ASSUME NEW s \in {"ready", "durability_uncertain"}
      PROVE  /\ Committed(doc, s) \in Snapshots
             /\ Committed(doc, s).config = Committed(doc, s).revision.config
             /\ Committed(doc, s).selector = Committed(doc, s).config
             /\ Agrees(Committed(doc, s), doc)
  <2> HIDE DEF doc
  <2> QED BY <1>1, <1>2, <1>3, RunningFacts, KindFacts, CommittedSnapshot
<1>7. CASE /\ Publish(Committed(doc, "ready")) /\ outcomes' = SyncDirectory(doc)
           /\ acked' = (IF file = doc THEN doc ELSE None) /\ End
  <2>1. acked' # None => outcomes' = {acked'}
    BY <1>7 DEF SyncDirectory
  <2>2. acked' \in Documents \cup {None}
    BY <1>2, <1>7
  <2>3. snap' = Committed(doc, "ready")
    BY <1>7 DEF Publish
  <2> HIDE DEF doc
  <2> QED BY <1>1, <1>4, <1>5, <1>6, <1>7, <2>1, <2>2, <2>3, RunningFacts, EndStep
<1>8. CASE /\ Publish(Committed(doc, "durability_uncertain"))
           /\ outcomes' \in {outcomes, SyncDirectory(doc)} /\ UNCHANGED acked /\ End
  <2>1. snap' = Committed(doc, "durability_uncertain")
    BY <1>8 DEF Publish
  <2> HIDE DEF doc
  <2> QED BY <1>1, <1>3, <1>4, <1>5, <1>6, <1>8, <2>1, RunningFacts, EndStep
<1>9. CASE /\ world.applyMayFail /\ op.kind \in {"update", "mutate"}
           /\ pc' = "rollback" /\ locked' = FALSE
           /\ outcomes' \in {outcomes, SyncDirectory(doc)}
           /\ UNCHANGED <<snap, op, acked>>
  <2>1. outcomes' \subseteq Documents \cup {Bad}
    BY <1>1, <1>4, <1>9, RunningFacts
  <2>2. SurvivesPowerLoss'
    BY <1>1, <1>3, <1>9, <2>1, NotDocuments
       DEF Inv, SurvivesPowerLoss, CrashLeavesDocument, AckedSurvives
  <2>3. TypeOK'
    BY <1>1, <1>9, <2>1 DEF Inv, TypeOK
  <2>4. OpTyped' /\ OpSound' /\ OneGeneration' /\ FileHeld' /\ LastLook' /\ Unacked'
    BY <1>1, <1>3, <1>9 DEF Inv, OpTyped, OpSound, OneGeneration, FileHeld, LastLook, Unacked,
                   Writing, Hot
  <2> QED BY <2>2, <2>3, <2>4 DEF Inv
<1> QED BY <1>7, <1>8, <1>9 DEF SyncAndPublish

LEMMA VerifyStep ==
    ASSUME Inv, Verify
    PROVE  Inv'
<1>1. pc = "verify" /\ End /\ UNCHANGED <<world, file, outcomes, acked>>
  BY DEF Verify
<1>2. CASE file = Durable /\ snap' = snap /\ drift' = FALSE
  <2>1. Agrees(snap', file')
    BY <1>1, <1>2 DEF Agrees, Durable
  <2> QED BY <1>1, <1>2, <2>1, RunningFacts, EndStep
<1>3. CASE snap' = WithState("out_of_sync") /\ drift' \in {drift, FALSE}
  <2>1. /\ snap' \in Snapshots /\ snap'.config = snap.config
        /\ snap'.revision = snap.revision /\ snap'.selector = snap.selector
        /\ snap'.state = "out_of_sync"
    BY <1>1, <1>3, RunningFacts, WithStateSnapshot DEF States
  <2>2. Agrees(snap', file')
    BY <2>1 DEF Agrees
  <2> QED BY <1>1, <1>3, <2>1, <2>2, RunningFacts, EndStep
<1> QED BY <1>2, <1>3 DEF Verify, Publish

LEMMA RollbackCheckStep ==
    ASSUME Inv, RollbackCheck
    PROVE  Inv'
<1>1. pc = "rollback" /\ UNCHANGED <<world, file, outcomes, drift, acked>>
  BY DEF RollbackCheck
<1>2. CASE Publish(WithState("degraded")) /\ End
  <2>1. /\ snap' \in Snapshots /\ snap'.config = snap.config
        /\ snap'.revision = snap.revision /\ snap'.selector = snap.selector
        /\ snap'.state = "degraded"
    BY <1>1, <1>2, RunningFacts, WithStateSnapshot DEF States, Publish
  <2>2. Agrees(snap', file')
    BY <2>1 DEF Agrees
  <2> QED BY <1>1, <1>2, <2>1, <2>2, RunningFacts, EndStep
<1>3. CASE /\ file = Encode(op.candidate) /\ pc' = "restore" /\ locked' = TRUE
           /\ UNCHANGED <<snap, op>>
  BY <1>1, <1>3 DEF Encode, Inv, TypeOK, OpTyped, OpSound, OneGeneration, FileHeld, LastLook, Agrees,
     SurvivesPowerLoss, CrashLeavesDocument, AckedSurvives, Unacked, Writing
<1> QED BY <1>2, <1>3 DEF RollbackCheck

\* A rollback happens only where publication may fail, so it owes InSync nothing.
LEMMA RollbackRenameStep ==
    ASSUME Inv, RollbackRename
    PROVE  Inv'
<1>1. /\ pc = "restore" /\ End /\ UNCHANGED <<world, acked>>
      /\ world.applyMayFail /\ acked = None /\ op.expected \in Documents
  BY DEF RollbackRename, Inv, OpTyped, Unacked
<1>2. PICK s \in {"degraded", "ready", "durability_uncertain"} : snap' = WithState(s)
  BY DEF RollbackRename, Publish
<1>3. /\ snap' \in Snapshots /\ snap'.config = snap.config
      /\ snap'.revision = snap.revision /\ snap'.selector = snap.selector
  BY <1>1, <1>2, RunningFacts, WithStateSnapshot DEF States
<1>4. /\ file' \in Documents \cup {Bad} /\ outcomes' \subseteq Documents \cup {Bad}
      /\ drift' \in BOOLEAN
  BY <1>1, RunningFacts DEF RollbackRename
<1> QED BY <1>1, <1>3, <1>4, RunningFacts, EndStep

LEMMA ForeignWriteStep ==
    ASSUME Inv, ForeignWrite
    PROVE  Inv'
<1>1. PICK f \in Documents \cup {Bad} : file' = f /\ outcomes' = {f}
  BY DEF ForeignWrite
<1>2. /\ world.rogue \/ ~locked
      /\ drift' = TRUE /\ acked' = None /\ UNCHANGED <<world, locked, snap, pc, op>>
  BY DEF ForeignWrite
<1>3. SurvivesPowerLoss'
  BY <1>1, <1>2, NotDocuments DEF SurvivesPowerLoss, CrashLeavesDocument, AckedSurvives
<1>4. FileHeld'
  BY <1>2 DEF Inv, OpTyped, FileHeld
<1>5. TypeOK'
  BY <1>1, <1>2 DEF Inv, TypeOK
<1> QED BY <1>2, <1>3, <1>4, <1>5 DEF Inv, OpTyped, OpSound, OneGeneration, LastLook, Unacked,
              Writing

LEMMA KillStep ==
    ASSUME Inv, Kill
    PROVE  Inv'
<1>1. op' \in Operations
  BY NoOpTyped DEF Kill
<1> QED BY <1>1 DEF Kill, Inv, TypeOK, OpTyped, OpSound, OneGeneration, FileHeld, LastLook, Agrees,
     SurvivesPowerLoss, CrashLeavesDocument, AckedSurvives, Unacked, Writing

LEMMA PowerLossStep ==
    ASSUME Inv, PowerLoss
    PROVE  Inv'
<1>1. /\ pc' = "down" /\ op' = NoOp /\ locked' = FALSE
      /\ file' \in outcomes /\ outcomes' = {file'} /\ UNCHANGED <<world, snap, drift, acked>>
  BY DEF PowerLoss
<1>2. op' \in Operations
  BY <1>1, NoOpTyped
<1>3. SurvivesPowerLoss'
  BY <1>1 DEF Inv, SurvivesPowerLoss, CrashLeavesDocument, AckedSurvives
<1>4. TypeOK'
  BY <1>1, <1>2 DEF Inv, TypeOK
<1> QED BY <1>1, <1>3, <1>4 DEF Inv, OpTyped, OpSound, OneGeneration, FileHeld, LastLook, Unacked,
              Writing

LEMMA RestartStep ==
    ASSUME Inv, Restart
    PROVE  Inv'
<1>1. /\ pc = "down" /\ file \in Documents /\ snap' = Loaded(file) /\ pc' = "idle"
      /\ drift' = FALSE /\ UNCHANGED <<world, file, outcomes, locked, op, acked>>
  BY DEF Restart
<1>2. snap' \in Snapshots /\ OneGeneration' /\ LastLook'
  BY <1>1, LoadedSnapshot DEF OneGeneration, LastLook
<1>3. TypeOK'
  BY <1>1, <1>2 DEF Inv, TypeOK
<1> QED BY <1>1, <1>2, <1>3 DEF Inv, OpTyped, OpSound, FileHeld, SurvivesPowerLoss,
              CrashLeavesDocument, AckedSurvives, Unacked, Writing

\* Every step of the controller and of its environment keeps the invariant.
LEMMA InvNext == Inv /\ [Next]_vars => Inv'
<1> SUFFICES ASSUME Inv, [Next]_vars PROVE Inv'
  OBVIOUS
<1>1. CASE UNCHANGED vars
  BY <1>1 DEF vars, Inv, TypeOK, OpTyped, OpSound, OneGeneration, FileHeld, LastLook, Agrees,
     SurvivesPowerLoss, CrashLeavesDocument, AckedSurvives, Unacked, Writing
<1> QED BY <1>1, BeginUpdateStep, BeginMutateStep, BeginStageStep, BeginCancelStep,
           ReplaceOverlayStep, ReconcileStep, ReplaceStep, WriteTemporaryStep, RecheckStep,
           RenameStep, SyncAndPublishStep, VerifyStep, RollbackCheckStep,
           RollbackRenameStep, ForeignWriteStep, KillStep, PowerLossStep, RestartStep
        DEF Next

LEMMA InvAlways == Spec => []Inv
BY InvInit, InvNext, PTL DEF Spec

-----------------------------------------------------------------------------
(***************************************************************************)
(* The properties                                                          *)
(***************************************************************************)

\* What the controller publishes has its type, and configuration, selector and
\* revision of one generation, whatever policies, edits, failing publications
\* and restarts there are.
THEOREM PublishesOneGeneration == Spec => []SnapshotsSound
<1>1. Inv => SnapshotsSound
  BY DEF Inv, SnapshotsSound
<1> QED BY <1>1, InvAlways, PTL

\* The published ControllerState tells the truth about the file as of the
\* controller's last look at it, whichever writers ignore the lock.
THEOREM StateMatchesFile == Spec => []InSync
<1>1. Inv => InSync
  BY DEF Inv, LastLook, Agrees, InSync
<1> QED BY <1>1, InvAlways, PTL

\* At no moment can a power loss leave a torn file, or undo a change that was
\* acknowledged without a warning.
THEOREM PowerLossSafe == Spec => []SurvivesPowerLoss
<1>1. Inv => SurvivesPowerLoss
  BY DEF Inv
<1> QED BY <1>1, InvAlways, PTL

\* The snapshot that a step of a transaction publishes has the cold fields of
\* the one before.
LEMMA TransactionKeepsCold ==
    ASSUME Inv, pc \in Writing,
           NEW doc \in Documents, doc.config = op.candidate,
           NEW s \in {"ready", "durability_uncertain"}
    PROVE  Committed(doc, s).config.cold = snap.config.cold
<1>1. pc \notin {"idle", "down"}
  BY DEF Writing
<1>2. CASE op.kind \in Hot
  <2>1. Committed(doc, s) = Updated(doc, s)
    BY <1>1, <1>2, KindFacts, RunningFacts, CommittedSnapshot
  <2>2. Updated(doc, s).config = op.candidate
    BY DEF Updated
  <2> QED BY <1>2, <2>1, <2>2 DEF Inv, OpSound
<1>3. CASE op.kind \notin Hot
  BY <1>1, <1>3, KindFacts, RunningFacts, CommittedSnapshot
<1> QED BY <1>2, <1>3

\* No step of a running controller moves a restart-required field.
LEMMA ColdKept ==
    ASSUME Inv, Next, pc # "down"
    PROVE  snap'.config.cold = snap.config.cold
<1> DEFINE Kept == snap'.config.cold = snap.config.cold
<1> SUFFICES Kept
  OBVIOUS
<1>1. snap \in Snapshots
  BY RunningFacts
<1>2. ASSUME NEW s \in States, snap' = WithState(s)
      PROVE  Kept
  BY <1>1, <1>2, WithStateSnapshot
<1>3. ASSUME NEW o \in Overlays, ReplaceOverlay(o)
      PROVE  Kept
  BY <1>1, <1>3 DEF ReplaceOverlay, Snapshots
<1>4. CASE Conflict
  BY <1>2, <1>4 DEF Conflict, Publish, States
<1>5. CASE Replace
  <2>1. CASE snap' = Committed(file, "ready") /\ file \in Documents
             /\ file.config = op.candidate
    BY <1>5, <2>1, TransactionKeepsCold DEF Replace, Writing
  <2> QED BY <1>2, <1>4, <1>5, <2>1 DEF Replace, Failed, Proceed, Publish, States
<1>6. CASE SyncAndPublish
  <2>1. pc = "publish"
    BY <1>6 DEF SyncAndPublish
  <2>2. /\ Encode(op.candidate) \in Documents
        /\ Encode(op.candidate).config = op.candidate
    BY <2>1, KindFacts, EncodeDocument
  <2>3. ASSUME NEW s \in {"ready", "durability_uncertain"},
               snap' = Committed(Encode(op.candidate), s)
        PROVE  Kept
    BY <2>1, <2>2, <2>3, TransactionKeepsCold DEF Writing
  <2> QED BY <1>6, <2>3 DEF SyncAndPublish, Publish
<1>7. CASE Verify
  BY <1>2, <1>7 DEF Verify, Publish, States
<1>8. CASE RollbackCheck \/ RollbackRename
  BY <1>2, <1>8 DEF RollbackCheck, RollbackRename, Publish, States
<1>9. CASE Recheck
  BY <1>4, <1>9 DEF Recheck, Failed
<1>10. CASE Reconcile \/ WriteTemporary \/ Rename \/ ForeignWrite \/ Kill \/ PowerLoss
  BY <1>10 DEF Reconcile, WriteTemporary, Rename, ForeignWrite, Kill, PowerLoss, Failed
<1>11. ASSUME NEW d \in Documents \cup {None}, NEW c \in Configs,
              BeginUpdate(d, c) \/ BeginStage(d, c)
       PROVE  Kept
  BY <1>11 DEF BeginUpdate, BeginStage, Start
<1>12. ASSUME NEW d \in Documents \cup {None}, NEW r \in Rules, BeginMutate(d, r)
       PROVE  Kept
  BY <1>12 DEF BeginMutate, Start
<1>13. ASSUME NEW d \in Documents, BeginCancel(d)
       PROVE  Kept
  BY <1>13 DEF BeginCancel, Start
<1>14. CASE Restart
  BY <1>14 DEF Restart
<1> QED BY <1>3, <1>5, <1>6, <1>7, <1>8, <1>9, <1>10, <1>11, <1>12, <1>13, <1>14 DEF Next

\* classifyChanges guards every way into the running policy: while the process
\* runs, no restart-required field of the active configuration changes.
THEOREM ColdFieldsNeverMove == Spec => ColdFieldsFixed
<1>1. Inv /\ [Next]_vars => [pc # "down" => snap'.config.cold = snap.config.cold]_vars
  BY ColdKept
<1> QED BY <1>1, InvAlways, PTL DEF Spec, ColdFieldsFixed

\* Among writers that take the advisory lock, a commit replaces the revision its
\* caller named and no other.
THEOREM CommitReplacesNamed == Spec => NoLostUpdate
<1>1. Inv /\ [Next]_vars =>
        [~world.rogue /\ pc = "rename" /\ pc' = "publish" => file = op.expected]_vars
  BY DEF Inv, FileHeld
<1> QED BY <1>1, InvAlways, PTL DEF Spec, NoLostUpdate

\* A rule mutation that is committed changes the rules of the file and keeps all
\* else of it, edits made by hand included.
THEOREM MutationChangesRulesOnly == Spec => MutationKeepsEdits
<1>1. Inv /\ [Next]_vars =>
        [~world.rogue /\ op.kind = "mutate" /\ pc = "rename" /\ pc' = "publish" =>
            file'.config = [file.config EXCEPT !.rules = file'.config.rules]]_vars
  <2> SUFFICES ASSUME Inv, Next, ~world.rogue, op.kind = "mutate",
                      pc = "rename", pc' = "publish"
               PROVE  file'.config = [file.config EXCEPT !.rules = file'.config.rules]
    OBVIOUS
  <2>1. Rename
    <3>1. pc # "idle" /\ pc # "publish" /\ pc # pc'
      OBVIOUS
    <3> QED BY <3>1
      DEF Next, BeginUpdate, BeginMutate, BeginStage, BeginCancel, Start, ReplaceOverlay,
          Reconcile, Replace, WriteTemporary, Recheck, SyncAndPublish, Verify,
          RollbackCheck, RollbackRename, ForeignWrite, Kill, PowerLoss, Restart
  <2>2. file' = Encode(op.candidate)
    BY <2>1 DEF Rename, Failed
  <2>3. file'.config = op.candidate
    BY <2>2, KindFacts, EncodeDocument
  <2>4. /\ file = op.expected
        /\ op.candidate = [op.expected.config EXCEPT !.rules = op.candidate.rules]
    BY DEF Inv, FileHeld, OpSound, Writing
  <2> QED BY <2>3, <2>4
<1> QED BY <1>1, InvAlways, PTL DEF Spec, MutationKeepsEdits

\* A rollback whose publication failed replaces the very document its
\* transaction wrote, by the one that was there before.
THEOREM RollbackUndoesOwnWrite == Spec => RollbackIsExact
<1>1. Inv /\ [Next]_vars =>
        [~world.rogue /\ pc = "restore" /\ file' # file /\ pc' = "idle" =>
            file = Encode(op.candidate) /\ file' = op.expected]_vars
  <2> SUFFICES ASSUME Inv, Next, ~world.rogue, pc = "restore", file' # file, pc' = "idle"
               PROVE  file = Encode(op.candidate) /\ file' = op.expected
    OBVIOUS
  <2>1. RollbackRename
    BY DEF Next, BeginUpdate, BeginMutate, BeginStage, BeginCancel, Start, ReplaceOverlay,
           Reconcile, Replace, WriteTemporary, Recheck, Rename, SyncAndPublish, Verify,
           RollbackCheck, ForeignWrite, Kill, PowerLoss, Restart
  <2> QED BY <2>1 DEF RollbackRename, Inv, FileHeld
<1> QED BY <1>1, InvAlways, PTL DEF Spec, RollbackIsExact

-----------------------------------------------------------------------------
(***************************************************************************)
(* Management, for any clients, requests, edits of the file and sizes of   *)
(* the token table: the API drives the controller only as PolicyController *)
(* allows, so what is proved above carries over, and what requests commit  *)
(* and are answered is what their senders asked for.                       *)
(***************************************************************************)

Stages == {"idle", "loaded", "locking", "inside", "answering"}

Codes ==
    {"ok", "unavailable", "invalid", "revision_conflict", "restart_pending",
     "restart_required", "restart_not_required", "pending_config_not_found",
     "rule_exists", "rule_id_mismatch", "rule_not_found"}

ClientRecords ==
    [stage : Stages, request : Requests \cup {None},
     token : Documents \cup {Forged, None}, active : Documents \cup {None},
     base : Configs \cup {None}, expected : Documents \cup {None},
     candidate : Configs \cup {None}, code : Codes \cup {None},
     document : Documents \cup {None}, wrote : BOOLEAN]

\* The token table holds tokens clients were given, all of them of documents.
TokensInv ==
    /\ known \in Seq(issued) /\ Len(known) <= MaxKnown
    /\ issued \subseteq Documents

\* The request inside the controller is the one that holds its lock, and after
\* the cancellation it is the one that held it then.
LockInv ==
    /\ running \in BOOLEAN /\ survivor \in Clients \cup {None}
    /\ holder \in Clients \cup {None} /\ (holder # None <=> pc # "idle")
    /\ pc # "down"
    /\ \A c \in Clients : client[c].stage = "inside" <=> holder = c
    /\ ~running /\ holder # None => holder = survivor

\* A configuration c has the secret s, if s is set.
KeepsSecret(c, s) == s # "" => c.cold.secret = s

\* The request k is being worked on with the document its token names, if any,
\* and with what was sent, in which secrets that are set have their value.
RequestSound(k, s) ==
    /\ k.stage \in {"loaded", "locking", "inside"} => k.request \in Requests
    /\ k.stage = "loaded" =>
          k.active \in Documents /\ k.base \in Configs /\ KeepsSecret(k.base, s)
    /\ k.stage \in {"locking", "inside"} =>
          /\ k.expected \in {k.token, None}
          /\ k.request.kind \in Full =>
                /\ k.candidate \in Configs /\ KeepsSecret(k.candidate, s)
                /\ k.candidate = [k.request.config EXCEPT !.cold.secret = k.candidate.cold.secret]

RequestsInv ==
    /\ client \in [Clients -> ClientRecords]
    /\ \A c \in Clients : RequestSound(client[c], snap.config.cold.secret)

\* A request that changed the file is about to be answered ok.
WroteInv ==
    \A c \in Clients : client[c].wrote =>
        \/ client[c].stage = "answering" /\ client[c].code = "ok"
        \/ client[c].stage = "inside" /\ pc \in {"publish", "rollback"}

\* What is staged is a document with the secret of the active configuration.
PendingInv ==
    /\ snap.state # "degraded"
    /\ snap.state = "restart_pending" =>
          /\ snap.pending \in Documents
          /\ KeepsSecret(snap.pending.config, snap.config.cold.secret)

KindOf(r) == IF r.kind \in RuleKinds THEN "mutate" ELSE r.kind

\* The operation o is the one the request k asks for.
Performs(o, k) ==
    /\ k.request.kind \notin OverlayKinds
    /\ o.kind = KindOf(k.request) /\ o.expected = k.expected
    /\ k.request.kind \in Full => o.candidate = k.candidate
    /\ k.request.kind \in RuleKinds /\ k.expected # None =>
          /\ Mutation(k.request, k.expected.config.rules).code = "ok"
          /\ o.candidate.rules = Mutation(k.request, k.expected.config.rules).rules

HolderInv == holder # None => Performs(op, client[holder])

ManagementInv ==
    /\ TokensInv /\ LockInv /\ RequestsInv /\ WroteInv /\ PendingInv /\ HolderInv
    /\ OverlayKept

-----------------------------------------------------------------------------
(***************************************************************************)
(* Rule mutations                                                          *)
(***************************************************************************)

\* A rule that is there is found.
LEMMA AtFinds ==
    ASSUME NEW rules, NEW id, Has(rules, id)
    PROVE  At(rules, id) \in DOMAIN rules /\ rules[At(rules, id)].id = id
BY DEF Has, At

\* What validation accepts it leaves alone.
LEMMA ValidatedKeeps ==
    ASSUME NEW rules
    PROVE  /\ Validated(rules).code \in {"ok", "invalid"}
           /\ Validated(rules).code = "ok" => Validated(rules).rules = rules
BY DEF Validated, Accept, Refuse

\* What is refused is not accepted.
LEMMA RefuseCode ==
    ASSUME NEW code
    PROVE  Refuse(code).code = code
BY DEF Refuse

\* The rules of a configuration are a sequence, without repeated identities.
LEMMA RulesAreSequences ==
    ASSUME NEW rules \in Rules
    PROVE  /\ Len(rules) \in Nat /\ DOMAIN rules = 1 .. Len(rules)
           /\ rules = [i \in 1 .. Len(rules) |-> rules[i]]
           /\ \A i, j \in DOMAIN rules : rules[i].id = rules[j].id => i = j
<1> DEFINE S == {rules[i] : i \in DOMAIN rules}
<1>1. rules \in Seq(S)
  BY RulesAssumption
<1>2. Len(rules) \in Nat /\ DOMAIN rules = 1 .. Len(rules) /\ rules \in [1 .. Len(rules) -> S]
  <2> HIDE DEF S
  <2> QED BY <1>1
<1>3. rules = [i \in 1 .. Len(rules) |-> rules[i]]
  <2> HIDE DEF S
  <2> QED BY <1>2
<1> QED BY <1>2, <1>3, RulesAssumption

LEMMA CreateAsAsked ==
    ASSUME NEW rules \in Rules, NEW rule, CreateRule(rules, rule).code = "ok"
    PROVE  LET after == CreateRule(rules, rule).rules
           IN  /\ Len(after) = Len(rules) + 1
               /\ \A i \in DOMAIN rules : after[i] = rules[i]
               /\ after[Len(after)] = rule
<1>1. CreateRule(rules, rule).rules = Append(rules, rule)
  BY ValidatedKeeps, RefuseCode DEF CreateRule
<1>2. PICK S : rules \in Seq(S) /\ rule \in S
  <2> DEFINE S == {rules[i] : i \in DOMAIN rules} \cup {rule}
  <2>1. rules \in [1 .. Len(rules) -> S] /\ Len(rules) \in Nat
    BY RulesAreSequences
  <2>2. rules \in Seq(S)
    <3> HIDE DEF S
    <3> QED BY <2>1
  <2> QED BY <2>2
<1> QED BY <1>1, <1>2

LEMMA ReplaceAsAsked ==
    ASSUME NEW rules \in Rules, NEW id, NEW rule, ReplaceRule(rules, id, rule).code = "ok"
    PROVE  LET after == ReplaceRule(rules, id, rule).rules
           IN  /\ Len(after) = Len(rules)
               /\ \A i \in DOMAIN rules :
                     after[i] = IF rules[i].id = id THEN rule ELSE rules[i]
<1> DEFINE after == [rules EXCEPT ![At(rules, id)] = rule]
<1>1. ReplaceRule(rules, id, rule).rules = after /\ Has(rules, id)
  BY ValidatedKeeps, RefuseCode DEF ReplaceRule
<1>2. /\ Len(rules) \in Nat /\ DOMAIN rules = 1 .. Len(rules)
      /\ \A i, j \in DOMAIN rules : rules[i].id = rules[j].id => i = j
  BY RulesAreSequences
<1>3. At(rules, id) \in DOMAIN rules /\ rules[At(rules, id)].id = id
  BY <1>1, AtFinds
<1>4. \A i \in DOMAIN rules : after[i] = IF rules[i].id = id THEN rule ELSE rules[i]
  BY <1>2, <1>3
<1>5. Len(after) = Len(rules)
  <2>1. after = [i \in 1 .. Len(rules) |-> after[i]]
    BY <1>2
  <2> HIDE DEF after
  <2> QED BY <1>2, <2>1
<1> QED BY <1>1, <1>4, <1>5

\* The elements of a concatenation.
LEMMA Joined ==
    ASSUME NEW S, NEW a \in Seq(S), NEW b \in Seq(S)
    PROVE  /\ Len(a \o b) = Len(a) + Len(b)
           /\ \A i \in 1 .. Len(a) : (a \o b)[i] = a[i]
           /\ \A i \in 1 .. Len(b) : (a \o b)[Len(a) + i] = b[i]
OBVIOUS

LEMMA DeleteAsAsked ==
    ASSUME NEW rules \in Rules, NEW id, DeleteRule(rules, id).code = "ok"
    PROVE  LET after == DeleteRule(rules, id).rules
           IN  /\ Len(after) = Len(rules) - 1
               /\ \E gone \in DOMAIN rules :
                     /\ rules[gone].id = id
                     /\ \A i \in DOMAIN rules \ {gone} :
                           after[IF i < gone THEN i ELSE i - 1] = rules[i]
<1> DEFINE gone == At(rules, id)
           front == SubSeq(rules, 1, gone - 1)
           back == SubSeq(rules, gone + 1, Len(rules))
<1>1. DeleteRule(rules, id).rules = front \o back /\ Has(rules, id)
  BY ValidatedKeeps, RefuseCode DEF DeleteRule
<1>2. gone \in DOMAIN rules /\ rules[gone].id = id
  BY <1>1, AtFinds
<1>3. PICK S : rules \in Seq(S)
  BY RulesAssumption
<1> HIDE DEF gone
<1>4. /\ Len(rules) \in Nat /\ gone \in 1 .. Len(rules)
      /\ front \in Seq(S) /\ Len(front) = gone - 1
      /\ \A i \in 1 .. gone - 1 : front[i] = rules[i]
      /\ back \in Seq(S) /\ Len(back) = Len(rules) - gone
      /\ \A i \in 1 .. Len(rules) - gone : back[i] = rules[i + gone]
  BY <1>2, <1>3
<1> HIDE DEF front, back
<1>5. /\ Len(front \o back) = Len(rules) - 1
      /\ \A i \in 1 .. gone - 1 : (front \o back)[i] = rules[i]
      /\ \A i \in 1 .. Len(rules) - gone : (front \o back)[gone - 1 + i] = rules[i + gone]
  <2>1. /\ Len(front \o back) = Len(front) + Len(back)
        /\ \A i \in 1 .. Len(front) : (front \o back)[i] = front[i]
        /\ \A i \in 1 .. Len(back) : (front \o back)[Len(front) + i] = back[i]
    <3>1. front \in Seq(S) /\ back \in Seq(S)
      BY <1>4
    <3> QED BY <3>1, Joined, SMTT(20)
  <2> QED BY <1>4, <2>1
<1>6. ASSUME NEW i \in DOMAIN rules \ {gone}
      PROVE  (front \o back)[IF i < gone THEN i ELSE i - 1] = rules[i]
  <2>1. i \in 1 .. Len(rules) /\ i # gone
    BY <1>3
  <2>2. CASE i < gone
    BY <1>4, <1>5, <2>1, <2>2
  <2>3. CASE ~(i < gone)
    <3>1. i - gone \in 1 .. Len(rules) - gone /\ gone - 1 + (i - gone) = i - 1
          /\ (i - gone) + gone = i
      BY <1>4, <2>1, <2>3
    <3> QED BY <1>5, <2>3, <3>1
  <2> QED BY <2>2, <2>3
<1> QED BY <1>1, <1>2, <1>5, <1>6

Reordered(before, order, after) ==
    /\ {after[i] : i \in DOMAIN after} = {before[i] : i \in DOMAIN before}
    /\ \A i \in DOMAIN after : after[i].id = order[i]

\* A complete list of identities without repetitions names every rule.
LEMMA ReorderAsAsked ==
    ASSUME NEW rules \in Rules, NEW S, NEW order \in Seq(S),
           ReorderRules(rules, order).code = "ok",
           NEW after, after = ReorderRules(rules, order).rules
    PROVE  Reordered(rules, order, after)
<1> DEFINE n == Len(rules)
           place == [i \in 1 .. n |-> At(rules, order[i])]
<1>1. /\ after = [i \in DOMAIN order |-> rules[At(rules, order[i])]]
      /\ Len(order) = n
      /\ \A i, j \in DOMAIN order : order[i] = order[j] => i = j
      /\ \A i \in DOMAIN order : Has(rules, order[i])
  BY ValidatedKeeps, RefuseCode DEF ReorderRules
<1>2. n \in Nat /\ DOMAIN rules = 1 .. n
  BY RulesAreSequences
<1>3. DOMAIN order = 1 .. n
  BY <1>1
<1>4. \A i \in 1 .. n : place[i] \in 1 .. n /\ rules[place[i]].id = order[i]
  BY <1>1, <1>2, <1>3, AtFinds
<1>5. place \in Injection(1 .. n, 1 .. n)
  <2>1. \A i, j \in 1 .. n : place[i] = place[j] => i = j
    <3> SUFFICES ASSUME NEW i \in 1 .. n, NEW j \in 1 .. n, place[i] = place[j] PROVE i = j
      OBVIOUS
    <3>1. order[i] = order[j]
      <4> HIDE DEF place
      <4> QED BY <1>4
    <3> QED BY <1>1, <1>3, <3>1
  <2>2. place \in [1 .. n -> 1 .. n]
    <3>1. \A i \in 1 .. n : At(rules, order[i]) \in 1 .. n
      BY <1>4
    <3> QED BY <3>1
  <2> HIDE DEF place, n
  <2> QED BY <2>1, <2>2, Zenon DEF Injection, IsInjective
<1>6. place \in Surjection(1 .. n, 1 .. n)
  <2>1. IsFiniteSet(1 .. n)
    BY <1>2, FS_Interval
  <2> HIDE DEF place, n
  <2> QED BY <1>5, <2>1, FS_Injection
<1>7. \A k \in 1 .. n : \E i \in 1 .. n : place[i] = k
  <2> HIDE DEF place, n
  <2> QED BY <1>6 DEF Surjection
<1>8. \A i \in 1 .. n : after[i] = rules[place[i]]
  BY <1>1, <1>3
<1>9. DOMAIN after = 1 .. n
  BY <1>1, <1>3
<1> HIDE DEF place, n
<1>10. ASSUME NEW k \in 1 .. n
       PROVE  \E i \in 1 .. n : rules[k] = after[i]
  BY <1>7, <1>8
<1>11. ASSUME NEW i \in 1 .. n
       PROVE  \E k \in 1 .. n : after[i] = rules[k]
  BY <1>4, <1>8
<1>12. {after[i] : i \in 1 .. n} = {rules[i] : i \in 1 .. n}
  <2> DEFINE A == {after[i] : i \in 1 .. n}
             B == {rules[i] : i \in 1 .. n}
  <2>1. \A x \in A : x \in B
    BY <1>11
  <2>2. \A x \in B : x \in A
    BY <1>10
  <2> HIDE DEF A, B
  <2>3. A = B
    BY <2>1, <2>2
  <2> QED BY <2>3 DEF A, B
<1>13. \A i \in 1 .. n : after[i].id = order[i]
  BY <1>4, <1>8
<1>14. {after[i] : i \in DOMAIN after} = {rules[i] : i \in DOMAIN rules}
  BY <1>2, <1>9, <1>12, Zenon
<1>15. \A i \in DOMAIN after : after[i].id = order[i]
  BY <1>9, <1>13
<1> QED BY <1>14, <1>15 DEF Reordered

\* An accepted mutation does what was asked, and any other has its reason.
LEMMA MutationAsAsked ==
    ASSUME NEW r \in Requests, r.kind \in RuleKinds, NEW rules \in Rules
    PROVE  /\ Mutation(r, rules).code \in Codes
           /\ Mutation(r, rules).code = "ok" =>
                 /\ Mutation(r, rules).rules \in Rules
                 /\ RulesAsAsked(r, rules, Mutation(r, rules).rules)
<1>1. Mutation(r, rules).code = "ok" => Mutation(r, rules).rules \in Rules
  BY RequestsAssumption
<1>2. CASE r.kind = "create"
  <2>1. Mutation(r, rules) = CreateRule(rules, r.rule)
    BY <1>2 DEF Mutation
  <2>2. CreateRule(rules, r.rule).code \in Codes
    BY ValidatedKeeps, RefuseCode DEF CreateRule, Codes
  <2> QED BY <1>1, <1>2, <2>1, <2>2, CreateAsAsked DEF RulesAsAsked
<1>3. CASE r.kind = "replaceAll"
  <2>1. Mutation(r, rules) = Validated(r.rules)
    BY <1>3 DEF Mutation
  <2> QED BY <1>1, <1>3, <2>1, ValidatedKeeps DEF RulesAsAsked, Codes
<1>4. CASE r.kind = "replaceOne"
  <2>1. Mutation(r, rules) = ReplaceRule(rules, r.id, r.rule)
    BY <1>4 DEF Mutation
  <2>2. ReplaceRule(rules, r.id, r.rule).code \in Codes
    BY ValidatedKeeps, RefuseCode DEF ReplaceRule, Codes
  <2> QED BY <1>1, <1>4, <2>1, <2>2, ReplaceAsAsked DEF RulesAsAsked
<1>5. CASE r.kind = "delete"
  <2>1. Mutation(r, rules) = DeleteRule(rules, r.id)
    BY <1>5 DEF Mutation
  <2>2. DeleteRule(rules, r.id).code \in Codes
    BY ValidatedKeeps, RefuseCode DEF DeleteRule, Codes
  <2> QED BY <1>1, <1>5, <2>1, <2>2, DeleteAsAsked DEF RulesAsAsked
<1>6. CASE r.kind = "reorder"
  <2>1. Mutation(r, rules) = ReorderRules(rules, r.order)
    BY <1>6 DEF Mutation
  <2>2. ReorderRules(rules, r.order).code \in Codes
    BY ValidatedKeeps, RefuseCode DEF ReorderRules, Codes
  <2>3. r.order \in Seq({r.order[i] : i \in DOMAIN r.order})
    BY <1>6, RequestsAssumption
  <2> DEFINE after == Mutation(r, rules).rules
  <2>4. ASSUME Mutation(r, rules).code = "ok"
        PROVE  Reordered(rules, r.order, after)
    <3>1. after = ReorderRules(rules, r.order).rules /\ ReorderRules(rules, r.order).code = "ok"
      BY <2>1, <2>4
    <3> HIDE DEF after
    <3>2. PICK S : r.order \in Seq(S)
      BY <2>3
    <3> QED BY <3>1, <3>2, ReorderAsAsked
  <2> HIDE DEF after
  <2>5. Mutation(r, rules).code = "ok" => RulesAsAsked(r, rules, after)
    BY <1>6, <2>4 DEF RulesAsAsked, Reordered
  <2> QED BY <1>1, <2>1, <2>2, <2>5 DEF after
<1> QED BY <1>2, <1>3, <1>4, <1>5, <1>6 DEF RuleKinds

-----------------------------------------------------------------------------
(***************************************************************************)
(* The controller's steps, as the API takes them                           *)
(***************************************************************************)

\* A step of the transaction that holds the lock.
Progress ==
    \/ Reconcile \/ Replace \/ WriteTemporary \/ Recheck \/ Rename
    \/ SyncAndPublish \/ Verify

\* The kinds of requests.
LEMMA RequestKinds ==
    ASSUME NEW r \in Requests
    PROVE  /\ r.kind \in {"update", "stage", "cancel", "mute", "solo"} \cup RuleKinds
           /\ r.kind \in RuleKinds =>
                 r.kind \notin {"update", "stage", "cancel"} /\ r.kind \notin OverlayKinds
BY RequestsAssumption DEF Full, RuleKinds, OverlayKinds

\* What the controller believes the file to be is a document.
LEMMA DurableIsDocument ==
    ASSUME Inv, PendingInv
    PROVE  Durable \in Documents
BY DEF Inv, TypeOK, Snapshots, PendingInv, Durable

\* A request that waits for the lock.
LEMMA LockingFacts ==
    ASSUME RequestsInv, NEW c \in Clients, client[c].stage \in {"locking", "inside"}
    PROVE  /\ client[c] \in ClientRecords /\ client[c].request \in Requests
           /\ client[c].expected \in Documents \cup {None}
           /\ client[c].expected \in {client[c].token, None}
           /\ client[c].request.kind \in Full =>
                 /\ client[c].candidate \in Configs
                 /\ KeepsSecret(client[c].candidate, snap.config.cold.secret)
                 /\ client[c].candidate = [client[c].request.config EXCEPT
                                              !.cold.secret = client[c].candidate.cold.secret]
BY DEF RequestsInv, RequestSound, ClientRecords

\* The rules a mutation starts from are those of a configuration.
LEMMA BaseRulesTyped ==
    ASSUME Inv, RequestsInv, NEW c \in Clients, client[c].stage = "locking"
    PROVE  BaseRules(c) \in Rules
<1>1. snap.config \in Configs
  BY DEF Inv, TypeOK, Snapshots
<1>2. client[c].expected # None => client[c].expected.config \in Configs
  BY LockingFacts, DocumentConfig
<1> QED BY <1>1, <1>2, RulesAssumption DEF BaseRules

\* A rule mutation is admitted only if it is accepted.
LEMMA AdmittedMutation ==
    ASSUME Inv, ManagementInv, NEW c \in Clients, client[c].stage = "locking",
           client[c].request.kind \in RuleKinds, Verdict(c).code = "ok"
    PROVE  Mutation(client[c].request, BaseRules(c)).code = "ok"
<1>1. client[c].request \in Requests
  BY LockingFacts DEF ManagementInv
<1>2. snap.state \in States /\ snap.state # "degraded"
  BY DEF Inv, TypeOK, Snapshots, ManagementInv, PendingInv
<1>3. client[c].request.kind \notin {"update", "stage", "cancel"}
      /\ client[c].request.kind \notin OverlayKinds
  BY <1>1, RequestKinds
<1> QED BY <1>2, <1>3 DEF Verdict, Problem, Stale, States

\* What a request starts is an operation the controller offers.
LEMMA BeginIsNext ==
    ASSUME Inv, ManagementInv, NEW c \in Clients, client[c].stage = "locking",
           Verdict(c).code = "ok", Begin(c)
    PROVE  Next
<1> DEFINE r == client[c].request
           e == client[c].expected
<1>1. r \in Requests /\ e \in Documents \cup {None}
      /\ (r.kind \in Full => client[c].candidate \in Configs)
  BY LockingFacts DEF ManagementInv
<1>2. CASE r.kind = "update" /\ BeginUpdate(e, client[c].candidate)
  BY <1>1, <1>2 DEF Next, Full
<1>3. CASE r.kind \in RuleKinds /\ BeginMutate(e, Mutation(r, BaseRules(c)).rules)
  <2>1. BaseRules(c) \in Rules
    BY BaseRulesTyped DEF ManagementInv
  <2>2. Mutation(r, BaseRules(c)).rules \in Rules
    BY <1>1, <1>3, <2>1, AdmittedMutation, MutationAsAsked
  <2> QED BY <1>1, <1>3, <2>2 DEF Next
<1>4. CASE r.kind = "stage" /\ BeginStage(e, client[c].candidate)
  <2>1. e \in Documents
    BY <1>4, DurableIsDocument DEF BeginStage, ManagementInv
  <2> QED BY <1>1, <1>4, <2>1 DEF Next, Full
<1>5. CASE r.kind = "cancel" /\ BeginCancel(e)
  <2>1. e \in Documents
    BY <1>1, <1>5 DEF BeginCancel
  <2> QED BY <1>5, <2>1 DEF Next
<1> QED BY <1>2, <1>3, <1>4, <1>5 DEF Begin

\* The overlay a request asks for.
LEMMA OverlayForTyped ==
    ASSUME Inv, NEW r \in Requests, r.kind \in OverlayKinds
    PROVE  OverlayFor(r) \in Overlays
<1>1. snap.overlay \in Overlays
  BY DEF Inv, TypeOK, Snapshots
<1> QED BY <1>1, RequestsAssumption DEF OverlayFor, OverlayKinds

\* Every step of the API is a step of the controller or leaves it alone.
LEMMA StepsAreNext ==
    ASSUME Inv, ManagementInv, ManagementNext
    PROVE  Next \/ UNCHANGED vars
<1>1. CASE GetConfig \/ GetPending \/ GetStatus \/ ValidateConfig
  BY <1>1 DEF GetConfig, GetPending, GetStatus, ValidateConfig, OnlyTell, controllerVars, vars
<1>2. ASSUME NEW c \in Clients, Load(c) \/ Prepare(c) \/ EnterRefused(c) \/ Respond(c)
      PROVE  UNCHANGED vars
  BY <1>2 DEF Load, Prepare, EnterRefused, Respond, controllerVars, vars
<1>3. ASSUME NEW c \in Clients, EnterAdmitted(c)
      PROVE  Next
  BY <1>3, BeginIsNext DEF EnterAdmitted
<1>4. ASSUME NEW c \in Clients, EnterOverlay(c)
      PROVE  Next
  <2>1. client[c].request \in Requests
    BY <1>4, LockingFacts DEF EnterOverlay, ManagementInv
  <2> QED BY <1>4, <2>1, OverlayForTyped DEF EnterOverlay, Next
<1>5. CASE Transact
  BY <1>5 DEF Transact, Next
<1>6. CASE Edit
  BY <1>6 DEF Edit, Next
<1>7. CASE Stop
  BY <1>7 DEF Stop, controllerVars, vars
<1> QED BY <1>1, <1>2, <1>3, <1>4, <1>5, <1>6, <1>7 DEF ManagementNext

\* A commit, or a file found as wanted, publishes an overlay that is unchanged
\* and, when staging, the document as the pending one.
LEMMA CommittedKeeps ==
    ASSUME snap \in Snapshots, op.kind \in {"update", "mutate", "stage", "cancel"},
           NEW doc \in Documents, NEW s \in {"ready", "durability_uncertain"}
    PROVE  /\ Committed(doc, s).overlay = snap.overlay
           /\ op.kind = "stage" => /\ Committed(doc, s).state = "restart_pending"
                                   /\ Committed(doc, s).pending = doc
                                   /\ Committed(doc, s).config = snap.config
           /\ op.kind # "stage" => Committed(doc, s).state = s
<1>1. CASE op.kind \in {"update", "mutate"}
  BY <1>1 DEF Committed, Updated
<1>2. CASE op.kind = "stage"
  BY <1>2 DEF Committed, Staged, Snapshots
<1>3. CASE op.kind = "cancel"
  BY <1>3 DEF Committed, Unstaged, Snapshots
<1> QED BY <1>1, <1>2, <1>3

\* What a step of a transaction may publish.
LEMMA ProgressPublishes ==
    ASSUME Inv, Progress
    PROVE  \/ snap' = snap
           \/ snap' = WithState("out_of_sync")
           \/ \E doc \in Documents, s \in {"ready", "durability_uncertain"} :
                 /\ pc \in Writing /\ pc' = "idle" /\ doc.config = op.candidate
                 /\ snap' = Committed(doc, s)
<1>1. CASE Reconcile \/ WriteTemporary \/ Rename
  BY <1>1 DEF Reconcile, WriteTemporary, Rename, Failed
<1>2. CASE Replace
  BY <1>2 DEF Replace, Failed, Conflict, Publish, Proceed, End, Writing
<1>3. CASE Recheck
  BY <1>3 DEF Recheck, Failed, Conflict, Publish
<1>4. CASE SyncAndPublish
  <2>1. pc = "publish"
    BY <1>4 DEF SyncAndPublish
  <2>2. /\ Encode(op.candidate) \in Documents
        /\ Encode(op.candidate).config = op.candidate
    BY <2>1, KindFacts, EncodeDocument
  <2> QED BY <1>4, <2>1, <2>2 DEF SyncAndPublish, Publish, End, Writing
<1>5. CASE Verify
  BY <1>5 DEF Verify, Publish
<1> QED BY <1>1, <1>2, <1>3, <1>4, <1>5 DEF Progress

-----------------------------------------------------------------------------
(***************************************************************************)
(* Tokens and clients                                                      *)
(***************************************************************************)

LEMMA IssueTyped ==
    ASSUME NEW S, NEW table \in Seq(S), Len(table) <= MaxKnown, NEW d \in S
    PROVE  Issue(table, d) \in Seq(S) /\ Len(Issue(table, d)) <= MaxKnown
<1>1. MaxKnown \in Nat \ {0} /\ Len(table) \in Nat
  BY MaxKnownAssumption
<1>2. CASE Len(table) = MaxKnown
  <2>1. table # <<>>
    BY <1>1, <1>2
  <2>2. Tail(table) \in Seq(S) /\ Len(Tail(table)) = MaxKnown - 1
    BY <1>2, <2>1
  <2> QED BY <1>1, <1>2, <2>2 DEF Issue
<1>3. CASE Len(table) # MaxKnown
  BY <1>1, <1>3 DEF Issue
<1> QED BY <1>2, <1>3

\* A response with the tokens of documents keeps the table sound.
LEMMA TellKeeps ==
    ASSUME TokensInv, NEW a \in Documents, NEW b \in Documents,
           Tell(<<a>>) \/ Tell(<<a, b>>)
    PROVE  TokensInv'
<1>1. CASE Tell(<<a>>)
  <2>1. issued' = issued \cup {a} /\ known' = Issue(known, a)
    BY <1>1 DEF Tell
  <2>2. known \in Seq(issued') /\ Len(known) <= MaxKnown /\ a \in issued'
    BY <2>1 DEF TokensInv
  <2>3. known' \in Seq(issued') /\ Len(known') <= MaxKnown
    BY <2>1, <2>2, IssueTyped
  <2> QED BY <2>1, <2>3 DEF TokensInv
<1>2. CASE Tell(<<a, b>>)
  <2>1. issued' = issued \cup {a, b} /\ known' = Issue(Issue(known, a), b)
    BY <1>2 DEF Tell
  <2>2. known \in Seq(issued') /\ Len(known) <= MaxKnown /\ a \in issued' /\ b \in issued'
    BY <2>1 DEF TokensInv
  <2>3. Issue(known, a) \in Seq(issued') /\ Len(Issue(known, a)) <= MaxKnown
    BY <2>2, IssueTyped
  <2>4. known' \in Seq(issued') /\ Len(known') <= MaxKnown
    BY <2>1, <2>2, <2>3, IssueTyped
  <2> QED BY <2>1, <2>4 DEF TokensInv
<1> QED BY <1>1, <1>2

LEMMA NoClientTyped ==
    NoClient \in ClientRecords /\ NoClient.stage = "idle" /\ NoClient.wrote = FALSE
BY DEF NoClient, ClientRecords, Stages

\* A step of a client outside the controller.
LEMMA OutsideStep ==
    ASSUME ManagementInv, NEW c \in Clients, client[c].stage # "inside",
           NEW k \in ClientRecords, client' = [client EXCEPT ![c] = k],
           k.stage # "inside", RequestSound(k, snap.config.cold.secret),
           k.wrote => k.stage = "answering" /\ k.code = "ok",
           UNCHANGED <<running, survivor, holder, pc, op>>, snap'.config = snap.config
    PROVE  LockInv' /\ RequestsInv' /\ WroteInv' /\ HolderInv'
<1>1. client \in [Clients -> ClientRecords] /\ holder # c
  BY DEF ManagementInv, RequestsInv, LockInv
<1>2. client' \in [Clients -> ClientRecords]
      /\ client'[c] = k /\ \A d \in Clients \ {c} : client'[d] = client[d]
  BY <1>1
<1>3. LockInv'
  BY <1>1, <1>2 DEF ManagementInv, LockInv
<1>4. RequestsInv'
  BY <1>1, <1>2 DEF ManagementInv, RequestsInv
<1>5. WroteInv'
  BY <1>1, <1>2 DEF ManagementInv, WroteInv
<1>6. HolderInv'
  BY <1>1, <1>2 DEF ManagementInv, LockInv, HolderInv
<1> QED BY <1>3, <1>4, <1>5, <1>6

\* An operation that returns before its transaction has written anything.
LEMMA AnswerStep ==
    ASSUME ManagementInv, NEW c \in Clients,
           client[c].stage \in {"idle", "loaded", "locking"},
           NEW code \in Codes, NEW doc \in Documents \cup {None}, Answer(c, code, doc),
           UNCHANGED <<running, survivor, holder, pc, op>>, snap'.config = snap.config
    PROVE  LockInv' /\ RequestsInv' /\ WroteInv' /\ HolderInv'
<1> DEFINE k == [NoClient EXCEPT !.stage = "answering", !.code = code, !.document = doc,
                                 !.wrote = client[c].wrote]
<1>1. client[c].wrote = FALSE
  BY DEF ManagementInv, WroteInv, RequestsInv, ClientRecords
<1>2. k \in ClientRecords /\ k.stage = "answering" /\ k.wrote = FALSE
  BY <1>1 DEF NoClient, ClientRecords, Stages
<1>3. client' = [client EXCEPT ![c] = k]
  BY DEF Answer
<1> HIDE DEF k
<1>4. RequestSound(k, snap.config.cold.secret)
  BY <1>2 DEF RequestSound
<1> QED BY <1>2, <1>3, <1>4, OutsideStep

-----------------------------------------------------------------------------
(***************************************************************************)
(* The inductive invariant                                                 *)
(***************************************************************************)

LEMMA ManagementInvInit == ManagementInit => ManagementInv
<1> SUFFICES ASSUME ManagementInit PROVE ManagementInv
  OBVIOUS
<1>1. /\ client = [c \in Clients |-> NoClient] /\ holder = None /\ pc = "idle"
      /\ known = <<>> /\ issued = {} /\ running = TRUE /\ survivor = None
      /\ wanted = NoOverlay /\ snap = Loaded(file)
  BY DEF ManagementInit, Init
<1>2. client \in [Clients -> ClientRecords] /\ \A c \in Clients : client[c] = NoClient
  BY <1>1, NoClientTyped
<1>3. TokensInv
  BY <1>1, MaxKnownAssumption DEF TokensInv
<1>4. LockInv
  BY <1>1, <1>2, NoClientTyped, ClientsAssumption DEF LockInv
<1>5. RequestsInv /\ WroteInv
  BY <1>2, NoClientTyped DEF RequestsInv, RequestSound, WroteInv
<1>6. PendingInv /\ OverlayKept
  BY <1>1 DEF PendingInv, OverlayKept, Loaded
<1> QED BY <1>1, <1>3, <1>4, <1>5, <1>6 DEF ManagementInv, HolderInv

\* Requests that only read.
LEMMA ReadStep ==
    ASSUME Inv, ManagementInv, GetConfig \/ GetPending \/ GetStatus \/ ValidateConfig
    PROVE  ManagementInv'
<1>1. snap.revision \in Documents /\ (HasPending => snap.pending \in Documents)
  BY DEF Inv, TypeOK, Snapshots, HasPending
<1>2. PICK a \in Documents, b \in Documents : OnlyTell(<<a>>) \/ OnlyTell(<<a, b>>)
  BY <1>1 DEF GetConfig, GetPending, GetStatus, ValidateConfig
<1>3. TokensInv'
  BY <1>2, TellKeeps DEF OnlyTell, ManagementInv
<1>4. UNCHANGED <<controllerVars, running, client, holder, wanted, survivor>>
  BY <1>2 DEF OnlyTell
<1> QED BY <1>3, <1>4
        DEF ManagementInv, LockInv, RequestsInv, WroteInv, PendingInv, HolderInv,
            OverlayKept, controllerVars

\* Steps that leave the controller and the table of tokens alone.
LEMMA AloneStep ==
    ASSUME ManagementInv, UNCHANGED <<controllerVars, known, issued, wanted>>
    PROVE  TokensInv' /\ PendingInv' /\ OverlayKept'
BY DEF ManagementInv, TokensInv, PendingInv, OverlayKept, controllerVars

LEMMA LoadStep ==
    ASSUME Inv, ManagementInv, NEW c \in Clients, Load(c)
    PROVE  ManagementInv'
<1>1. /\ client[c].stage = "idle"
      /\ UNCHANGED <<controllerVars, running, holder, known, issued, wanted, survivor>>
  BY DEF Load
<1>2. UNCHANGED <<running, survivor, holder, pc, op>> /\ snap'.config = snap.config
  BY <1>1 DEF controllerVars
<1>3. PICK r \in Requests : \E t \in IF r.kind \in OverlayKinds THEN {None} ELSE issued \cup {Forged} :
         \/ Answer(c, "unavailable", None)
         \/ client' = [client EXCEPT
                    ![c].stage = "loaded", ![c].request = r, ![c].token = t,
                    ![c].active = snap.revision, ![c].base = snap.config]
  BY DEF Load
<1>4. PICK t \in Documents \cup {Forged, None} :
         \/ Answer(c, "unavailable", None)
         \/ client' = [client EXCEPT
                    ![c].stage = "loaded", ![c].request = r, ![c].token = t,
                    ![c].active = snap.revision, ![c].base = snap.config]
  BY <1>3 DEF ManagementInv, TokensInv
<1>5. CASE Answer(c, "unavailable", None)
  BY <1>1, <1>2, <1>5, AnswerStep, AloneStep DEF ManagementInv, Codes
<1>6. CASE client' = [client EXCEPT
                    ![c].stage = "loaded", ![c].request = r, ![c].token = t,
                    ![c].active = snap.revision, ![c].base = snap.config]
  <2> DEFINE k == [client[c] EXCEPT !.stage = "loaded", !.request = r, !.token = t,
                                    !.active = snap.revision, !.base = snap.config]
  <2>1. client[c] \in ClientRecords /\ client[c].wrote = FALSE
    BY <1>1 DEF ManagementInv, RequestsInv, WroteInv, ClientRecords
  <2>2. snap.revision \in Documents /\ snap.config \in Configs
    BY DEF Inv, TypeOK, Snapshots
  <2>3. /\ k \in ClientRecords /\ k.stage = "loaded" /\ k.wrote = FALSE
        /\ k.request = r /\ k.active = snap.revision /\ k.base = snap.config
    BY <2>1, <2>2 DEF ClientRecords, Stages
  <2>4. client' = [client EXCEPT ![c] = k]
    BY <1>6
  <2> HIDE DEF k
  <2>5. RequestSound(k, snap.config.cold.secret)
    BY <2>2, <2>3 DEF RequestSound, KeepsSecret
  <2>6. LockInv' /\ RequestsInv' /\ WroteInv' /\ HolderInv'
    BY <1>1, <1>2, <2>3, <2>4, <2>5, OutsideStep
  <2> QED BY <1>1, <2>6, AloneStep DEF ManagementInv
<1> QED BY <1>4, <1>5, <1>6

\* A placeholder sent back has the value of the secret it stands for.
LEMMA ResolvedSecret ==
    ASSUME NEW r \in Requests, r.kind \in Full, NEW base \in Configs, NEW s,
           Resolvable(r.config, base), KeepsSecret(base, s)
    PROVE  LET candidate == ResolveRedacted(r.config, base)
           IN  /\ candidate \in Configs /\ KeepsSecret(candidate, s)
               /\ candidate = [r.config EXCEPT !.cold.secret = candidate.cold.secret]
<1>1. /\ ResolveRedacted(r.config, base) \in Configs
      /\ "cold" \in DOMAIN r.config /\ "secret" \in DOMAIN r.config.cold
      /\ r.config = [r.config EXCEPT !.cold.secret = r.config.cold.secret]
  BY RequestsAssumption
<1>2. CASE r.config.cold.secret = Redacted
  <2>1. /\ ResolveRedacted(r.config, base)
              = [r.config EXCEPT !.cold.secret = base.cold.secret]
        /\ base.cold.secret # ""
    BY <1>2 DEF Resolvable, ResolveRedacted
  <2>2. ResolveRedacted(r.config, base).cold.secret = base.cold.secret
    BY <1>1, <2>1
  <2> QED BY <1>1, <2>1, <2>2 DEF KeepsSecret
<1>3. CASE r.config.cold.secret # Redacted
  BY <1>1, <1>3 DEF Resolvable, ResolveRedacted, KeepsSecret
<1> QED BY <1>2, <1>3

\* A token resolves to the document it names, or to nothing.
LEMMA ResolveTyped ==
    ASSUME TokensInv, NEW token, NEW active \in Documents
    PROVE  /\ Resolve(token, active) \in {token, None}
           /\ Resolve(token, active) \in Documents \cup {None}
<1>1. Known(token) => token \in Documents
  BY DEF Known, TokensInv
<1> QED BY <1>1 DEF Resolve

LEMMA PrepareStep ==
    ASSUME Inv, ManagementInv, NEW c \in Clients, Prepare(c)
    PROVE  ManagementInv'
<1> DEFINE r == client[c].request
           s == snap.config.cold.secret
           base == IF r.kind = "stage" /\ HasPending THEN snap.pending.config
                                                     ELSE client[c].base
<1>1. /\ client[c].stage = "loaded"
      /\ UNCHANGED <<controllerVars, running, holder, known, issued, wanted, survivor>>
  BY DEF Prepare
<1>2. UNCHANGED <<running, survivor, holder, pc, op>> /\ snap'.config = snap.config
  BY <1>1 DEF controllerVars
<1>3. /\ client[c] \in ClientRecords /\ client[c].wrote = FALSE
      /\ r \in Requests /\ client[c].active \in Documents
      /\ client[c].base \in Configs /\ KeepsSecret(client[c].base, s)
  BY <1>1 DEF ManagementInv, RequestsInv, RequestSound, WroteInv, ClientRecords
<1>4. base \in Configs /\ KeepsSecret(base, s)
  <2>1. HasPending => /\ snap.pending.config \in Configs
                      /\ KeepsSecret(snap.pending.config, s)
    BY DocumentConfig DEF HasPending, ManagementInv, PendingInv
  <2> QED BY <1>3, <2>1
<1>5. CASE Answer(c, "invalid", None)
  BY <1>1, <1>2, <1>5, AnswerStep, AloneStep DEF ManagementInv, Codes
<1>6. CASE /\ r.kind \in Full => Resolvable(r.config, base)
           /\ client' = [client EXCEPT
                  ![c].stage = "locking", ![c].active = None, ![c].base = None,
                  ![c].expected = IF r.kind \in OverlayKinds THEN None
                                  ELSE Resolve(client[c].token, client[c].active),
                  ![c].candidate = IF r.kind \in Full THEN ResolveRedacted(r.config, base)
                                                      ELSE None]
  <2> DEFINE e == IF r.kind \in OverlayKinds THEN None
                  ELSE Resolve(client[c].token, client[c].active)
             f == IF r.kind \in Full THEN ResolveRedacted(r.config, base) ELSE None
             k == [client[c] EXCEPT !.stage = "locking", !.active = None, !.base = None,
                                    !.expected = e, !.candidate = f]
  <2>1. client' = [client EXCEPT ![c] = k]
    BY <1>6
  <2>2. e \in {client[c].token, None} /\ e \in Documents \cup {None}
    BY <1>3, ResolveTyped DEF ManagementInv
  <2>3. r.kind \in Full => /\ f \in Configs /\ KeepsSecret(f, s)
                           /\ f = [r.config EXCEPT !.cold.secret = f.cold.secret]
    <3> HIDE DEF base, s
    <3> QED BY <1>3, <1>4, <1>6, ResolvedSecret
  <2>4. f \in Configs \cup {None}
    BY <2>3
  <2> HIDE DEF e, f, base, s
  <2>5. /\ k \in ClientRecords /\ k.stage = "locking" /\ k.wrote = FALSE
        /\ k.request = r /\ k.expected = e /\ k.candidate = f /\ k.token = client[c].token
    BY <1>3, <2>2, <2>4 DEF ClientRecords, Stages
  <2> HIDE DEF k
  <2>6. RequestSound(k, s)
    BY <1>3, <2>2, <2>3, <2>5 DEF RequestSound
  <2>7. LockInv' /\ RequestsInv' /\ WroteInv' /\ HolderInv'
    BY <1>1, <1>2, <2>1, <2>5, <2>6, OutsideStep DEF s
  <2> QED BY <1>1, <2>7, AloneStep DEF ManagementInv
<1> QED BY <1>5, <1>6 DEF Prepare

\* The controller's reasons, and the documents it names with them.
LEMMA VerdictTyped ==
    ASSUME Inv, ManagementInv, NEW c \in Clients, client[c].stage = "locking"
    PROVE  Verdict(c).code \in Codes /\ Verdict(c).document \in Documents \cup {None}
<1> DEFINE r == client[c].request
<1>1. r \in Requests
  BY LockingFacts DEF ManagementInv
<1>2. snap.state \in {"ready", "restart_pending", "out_of_sync", "durability_uncertain"}
      /\ snap.revision \in Documents /\ snap.pending \in Documents \cup {None}
  BY DEF Inv, TypeOK, Snapshots, States, ManagementInv, PendingInv
<1>3. Durable \in Documents
  BY DurableIsDocument DEF ManagementInv
<1>4. r.kind \in RuleKinds => Mutation(r, BaseRules(c)).code \in Codes
  BY <1>1, BaseRulesTyped, MutationAsAsked DEF ManagementInv
<1>5. ASSUME NEW d PROVE Stale(d).code = "revision_conflict" /\ Stale(d).document = d
  BY DEF Stale
<1>6. ASSUME NEW d PROVE Problem(d).code = d /\ Problem(d).document = None
  BY DEF Problem
<1>7. CASE r.kind = "update"
  <2>1. r.kind \notin RuleKinds /\ r.kind \notin OverlayKinds
    BY <1>7 DEF RuleKinds, OverlayKinds
  <2>2. Verdict(c) \in {Problem("restart_pending"), Stale(snap.revision), Problem("ok"),
                        Problem("restart_required")}
    <3>1. CASE snap.state = "restart_pending"
      BY <1>7, <2>1, <3>1 DEF Verdict
    <3>2. CASE snap.state \in {"ready", "durability_uncertain"}
      BY <1>7, <2>1, <3>2 DEF Verdict
    <3>3. CASE snap.state = "out_of_sync"
      BY <1>7, <2>1, <3>3 DEF Verdict
    <3> QED BY <1>2, <3>1, <3>2, <3>3
  <2> QED BY <1>2, <1>5, <1>6, <2>2 DEF Codes
<1>8. CASE r.kind \in RuleKinds
  <2>1. r.kind \notin {"update", "stage", "cancel"} /\ r.kind \notin OverlayKinds
    BY <1>1, <1>8, RequestKinds
  <2> DEFINE m == Mutation(r, BaseRules(c))
  <2>2. CASE snap.state = "restart_pending"
    <3>1. Verdict(c) = Problem("restart_pending")
      BY <1>8, <2>1, <2>2 DEF Verdict
    <3> QED BY <1>6, <3>1 DEF Codes
  <2>3. CASE snap.state \in {"ready", "durability_uncertain"}
    <3>1. Verdict(c) \in {Stale(snap.revision), Problem(m.code)}
      BY <1>8, <2>1, <2>3 DEF Verdict
    <3> QED BY <1>2, <1>4, <1>5, <1>6, <1>8, <3>1 DEF Codes
  <2>4. CASE snap.state = "out_of_sync"
    <3>1. \/ Verdict(c) \in {Problem("ok"), Problem("unavailable"), Problem(m.code)}
          \/ file \in Documents /\ Verdict(c) = Stale(file)
      BY <1>8, <2>1, <2>4 DEF Verdict
    <3> QED BY <1>4, <1>5, <1>6, <1>8, <3>1 DEF Codes
  <2> QED BY <1>2, <2>2, <2>3, <2>4
<1>9. CASE r.kind = "stage"
  <2>1. r.kind \notin RuleKinds
    BY <1>9 DEF RuleKinds
  <2> QED BY <1>3, <1>5, <1>6, <1>9, <2>1 DEF Verdict, Codes
<1>10. CASE r.kind = "cancel"
  <2>1. r.kind \notin RuleKinds
    BY <1>10 DEF RuleKinds
  <2> QED BY <1>2, <1>5, <1>6, <1>10, <2>1 DEF Verdict, Codes
<1>11. CASE r.kind \in {"mute", "solo"}
  <2>1. r.kind \notin RuleKinds /\ r.kind \in OverlayKinds
    BY <1>11 DEF RuleKinds, OverlayKinds
  <2> QED BY <1>6, <1>11, <2>1 DEF Verdict, Codes
<1> QED BY <1>1, <1>7, <1>8, <1>9, <1>10, <1>11, RequestKinds

LEMMA EnterRefusedStep ==
    ASSUME Inv, ManagementInv, NEW c \in Clients, EnterRefused(c)
    PROVE  ManagementInv'
<1>1. /\ client[c].stage = "locking"
      /\ UNCHANGED <<controllerVars, running, holder, known, issued, wanted, survivor>>
  BY DEF EnterRefused
<1>2. UNCHANGED <<running, survivor, holder, pc, op>> /\ snap'.config = snap.config
  BY <1>1 DEF controllerVars
<1>3. PICK code \in Codes, doc \in Documents \cup {None} : Answer(c, code, doc)
  BY <1>1, VerdictTyped DEF EnterRefused, Codes
<1>4. LockInv' /\ RequestsInv' /\ WroteInv' /\ HolderInv'
  BY <1>1, <1>2, <1>3, AnswerStep
<1> QED BY <1>1, <1>4, AloneStep DEF ManagementInv

\* What a request starts is what it asks for.
LEMMA BeginPerforms ==
    ASSUME Inv, ManagementInv, NEW c \in Clients, client[c].stage = "locking",
           Verdict(c).code = "ok", Begin(c)
    PROVE  /\ pc = "idle" /\ pc' \in {"replace", "reconcile"}
           /\ UNCHANGED <<world, file, outcomes, locked, snap, drift, acked>>
           /\ Performs(op', client[c])
<1> DEFINE r == client[c].request
           e == client[c].expected
<1>1. r \in Requests /\ e \in Documents \cup {None}
  BY LockingFacts DEF ManagementInv
<1>2. CASE r.kind = "update" /\ BeginUpdate(e, client[c].candidate)
  BY <1>2 DEF BeginUpdate, Start, Performs, KindOf, RuleKinds, OverlayKinds, Full
<1>3. CASE r.kind = "stage" /\ BeginStage(e, client[c].candidate)
  BY <1>3 DEF BeginStage, Start, Performs, KindOf, RuleKinds, OverlayKinds, Full
<1>4. CASE r.kind = "cancel" /\ BeginCancel(e)
  BY <1>4 DEF BeginCancel, Start, Performs, KindOf, RuleKinds, OverlayKinds, Full
<1>5. CASE r.kind \in RuleKinds /\ BeginMutate(e, Mutation(r, BaseRules(c)).rules)
  <2> DEFINE m == Mutation(r, BaseRules(c))
             candidate == [snap.config EXCEPT !.rules = m.rules]
  <2>1. m.code = "ok"
    BY <1>5, AdmittedMutation
  <2>2. m.rules \in Rules
    BY <1>1, <1>5, <2>1, BaseRulesTyped, MutationAsAsked DEF ManagementInv
  <2>3. snap.config \in Configs
    BY DEF Inv, TypeOK, Snapshots
  <2>4. candidate.rules = m.rules
    BY <2>2, <2>3, RulesReplaced
  <2> HIDE DEF candidate
  <2>5. /\ pc = "idle" /\ pc' \in {"replace", "reconcile"}
        /\ UNCHANGED <<world, file, outcomes, locked, snap, drift, acked>>
        /\ op' = [kind |-> "mutate", expected |-> e, candidate |-> candidate, synced |-> FALSE]
        /\ \/ snap.state = "out_of_sync"
           \/ e = snap.revision /\ snap.state \in {"ready", "durability_uncertain"}
    BY <1>5 DEF BeginMutate, Start, candidate
  <2>6. e # None => BaseRules(c) = e.config.rules
    BY <2>5 DEF BaseRules, Inv, OneGeneration
  <2>7. r.kind \notin Full /\ r.kind \notin OverlayKinds
    BY <1>5 DEF RuleKinds, Full, OverlayKinds
  <2> QED BY <1>5, <2>1, <2>4, <2>5, <2>6, <2>7 DEF Performs, KindOf
<1> QED BY <1>2, <1>3, <1>4, <1>5 DEF Begin

LEMMA EnterAdmittedStep ==
    ASSUME Inv, ManagementInv, NEW c \in Clients, EnterAdmitted(c)
    PROVE  ManagementInv'
<1>1. /\ client[c].stage = "locking" /\ running
      /\ holder' = c /\ client' = [client EXCEPT ![c].stage = "inside"]
      /\ UNCHANGED <<running, known, issued, wanted, survivor>>
  BY DEF EnterAdmitted, Alive
<1>2. /\ pc = "idle" /\ pc' \in {"replace", "reconcile"}
      /\ UNCHANGED <<world, file, outcomes, locked, snap, drift, acked>>
      /\ Performs(op', client[c])
  BY <1>1, BeginPerforms DEF EnterAdmitted
<1>3. /\ client \in [Clients -> ClientRecords] /\ holder = None
      /\ client[c].wrote = FALSE
      /\ RequestSound(client[c], snap.config.cold.secret)
  BY <1>1, <1>2 DEF ManagementInv, RequestsInv, LockInv, WroteInv, ClientRecords
<1>4. /\ client' \in [Clients -> ClientRecords]
      /\ \A d \in Clients \ {c} : client'[d] = client[d]
      /\ client'[c] = [client[c] EXCEPT !.stage = "inside"]
  BY <1>1, <1>3 DEF ClientRecords, Stages
<1>5. /\ client'[c].stage = "inside" /\ client'[c].wrote = FALSE
      /\ client'[c].request = client[c].request /\ client'[c].token = client[c].token
      /\ client'[c].expected = client[c].expected
      /\ client'[c].candidate = client[c].candidate
  BY <1>3, <1>4 DEF ClientRecords
<1>6. LockInv'
  BY <1>1, <1>2, <1>3, <1>4, <1>5, ClientsAssumption DEF ManagementInv, LockInv
<1>7. RequestSound(client'[c], snap.config.cold.secret)
  BY <1>1, <1>3, <1>5 DEF RequestSound
<1>8. RequestsInv'
  BY <1>2, <1>4, <1>7 DEF ManagementInv, RequestsInv
<1>9. WroteInv'
  <2> SUFFICES ASSUME NEW d \in Clients, client'[d].wrote
               PROVE  client'[d].stage = "answering" /\ client'[d].code = "ok"
    BY DEF WroteInv
  <2>1. d # c /\ client'[d] = client[d]
    BY <1>4, <1>5
  <2> QED BY <1>2, <2>1 DEF ManagementInv, WroteInv
<1>10. HolderInv'
  BY <1>1, <1>2, <1>5 DEF HolderInv, Performs
<1>11. TokensInv' /\ PendingInv' /\ OverlayKept'
  BY <1>1, <1>2 DEF ManagementInv, TokensInv, PendingInv, OverlayKept
<1> QED BY <1>6, <1>8, <1>9, <1>10, <1>11 DEF ManagementInv

LEMMA EnterOverlayStep ==
    ASSUME Inv, ManagementInv, NEW c \in Clients, EnterOverlay(c)
    PROVE  ManagementInv'
<1> DEFINE r == client[c].request
<1>1. /\ client[c].stage = "locking" /\ r.kind \in OverlayKinds
      /\ ReplaceOverlay(OverlayFor(r)) /\ Answer(c, "ok", None)
      /\ UNCHANGED <<running, holder, known, issued, survivor>>
  BY DEF EnterOverlay
<1>2. /\ snap' = [snap EXCEPT !.overlay = OverlayFor(r)]
      /\ UNCHANGED <<world, file, outcomes, locked, pc, op, drift, acked>>
  BY <1>1 DEF ReplaceOverlay
<1>3. /\ snap'.overlay = OverlayFor(r) /\ snap'.config = snap.config
      /\ snap'.state = snap.state /\ snap'.pending = snap.pending
  BY <1>2 DEF Inv, TypeOK, Snapshots
<1>4. LockInv' /\ RequestsInv' /\ WroteInv' /\ HolderInv'
  BY <1>1, <1>2, <1>3, AnswerStep DEF Codes
<1>5. TokensInv' /\ PendingInv'
  BY <1>1, <1>3 DEF ManagementInv, TokensInv, PendingInv
<1>6. OverlayKept'
  BY <1>3 DEF EnterOverlay, OverlayFor, ManagementInv, OverlayKept
<1> QED BY <1>4, <1>5, <1>6 DEF ManagementInv

LEMMA RespondStep ==
    ASSUME Inv, ManagementInv, NEW c \in Clients, Respond(c)
    PROVE  ManagementInv'
<1>1. /\ client[c].stage = "answering" /\ client' = [client EXCEPT ![c] = NoClient]
      /\ UNCHANGED <<controllerVars, running, holder, wanted, survivor>>
  BY DEF Respond
<1>2. UNCHANGED <<running, survivor, holder, pc, op>> /\ snap'.config = snap.config
  BY <1>1 DEF controllerVars
<1>3. client[c].document \in Documents \cup {None}
  BY DEF ManagementInv, RequestsInv, ClientRecords
<1>4. TokensInv'
  <2>1. CASE UNCHANGED <<known, issued>>
    BY <2>1 DEF ManagementInv, TokensInv
  <2>2. CASE client[c].document \in Documents /\ Tell(<<client[c].document>>)
    BY <2>2, TellKeeps DEF ManagementInv
  <2> QED BY <1>3, <2>1, <2>2 DEF Respond
<1>5. RequestSound(NoClient, snap.config.cold.secret)
  BY NoClientTyped DEF RequestSound
<1>6. LockInv' /\ RequestsInv' /\ WroteInv' /\ HolderInv'
  BY <1>1, <1>2, <1>5, NoClientTyped, OutsideStep
<1>7. PendingInv' /\ OverlayKept'
  BY <1>1 DEF ManagementInv, PendingInv, OverlayKept, controllerVars
<1> QED BY <1>4, <1>6, <1>7 DEF ManagementInv

\* Edits of the file, and the shutdown.
LEMMA EnvironmentStep ==
    ASSUME Inv, ManagementInv, Edit \/ Stop
    PROVE  ManagementInv'
<1>1. CASE Edit
  BY <1>1 DEF Edit, ForeignWrite, ManagementInv, TokensInv, LockInv, RequestsInv, WroteInv,
     PendingInv, HolderInv, OverlayKept
<1>2. CASE Stop
  BY <1>2 DEF Stop, controllerVars, ManagementInv, TokensInv, LockInv, RequestsInv, WroteInv,
     PendingInv, HolderInv, OverlayKept
<1> QED BY <1>1, <1>2

\* A transaction that goes on works for the same request.
LEMMA ProgressKeepsOp ==
    ASSUME Inv, Progress, pc' # "idle"
    PROVE  /\ op'.kind = op.kind /\ op'.expected = op.expected
           /\ op.kind # "mutate" => op'.candidate = op.candidate
           /\ op'.candidate.rules = op.candidate.rules
           /\ pc' # "down"
           /\ pc = "publish" => pc' = "rollback"
<1>1. op \in Operations
  BY DEF Inv, TypeOK
<1>2. CASE Reconcile
  <2>1. /\ pc = "reconcile" /\ pc' = "replace" /\ file \in Documents
        /\ op' = [op EXCEPT !.candidate = Rebased]
    BY <1>2 DEF Reconcile
  <2>2. op.kind = "mutate" => op.candidate.rules \in Rules
    BY <2>1 DEF Inv, OpTyped
  <2>3. /\ op.kind = "mutate" => Rebased.rules = op.candidate.rules
        /\ op.kind # "mutate" => Rebased = op.candidate
    <3>1. CASE op.kind = "mutate"
      BY <2>1, <2>2, <3>1, DocumentConfig, RulesReplaced DEF Rebased
    <3>2. CASE op.kind # "mutate"
      BY <3>2 DEF Rebased
    <3> QED BY <3>1, <3>2
  <2>4. /\ op'.kind = op.kind /\ op'.expected = op.expected /\ op'.candidate = Rebased
    BY <1>1, <2>1 DEF Operations
  <2> QED BY <2>1, <2>3, <2>4
<1>3. CASE WriteTemporary
  BY <1>1, <1>3 DEF WriteTemporary, Failed, Operations
<1>4. CASE Replace \/ Recheck \/ Rename \/ SyncAndPublish \/ Verify
  BY <1>4 DEF Replace, Recheck, Rename, SyncAndPublish, Verify, Failed, Conflict, Proceed, End
<1> QED BY <1>2, <1>3, <1>4 DEF Progress

\* What a transaction that ends is answered has its type, and is ok if it wrote.
LEMMA OutcomeTyped ==
    ASSUME Inv, Inv', Progress, pc' = "idle", NEW code \in Outcomes
    PROVE  /\ code \in Codes /\ Subject(code) \in Documents \cup {None}
           /\ pc = "publish" => code = "ok"
<1>1. pc \in {"reconcile", "replace", "temporary", "recheck", "rename", "publish", "verify"}
  BY DEF Progress, Reconcile, Replace, WriteTemporary, Recheck, Rename, SyncAndPublish, Verify
<1>2. snap'.pending \in Documents \cup {None} /\ snap'.revision \in Documents
  BY DEF Inv, TypeOK, Snapshots
<1>3. pc \in {"replace", "recheck"} => file \in Documents
  BY DEF Progress, Reconcile, Replace, WriteTemporary, Recheck, Rename, SyncAndPublish, Verify,
         Failed
<1>4. /\ code \in {"ok", "unavailable", "revision_conflict", "restart_required"}
      /\ code = "revision_conflict" => file \in Documents
      /\ pc = "publish" => code = "ok"
  <2>1. CASE pc = "publish"
    BY <2>1 DEF Outcomes
  <2>2. CASE pc \in {"replace", "recheck"}
    BY <1>3, <2>2 DEF Outcomes
  <2>3. CASE pc = "reconcile"
    BY <2>3 DEF Outcomes
  <2>4. CASE pc \in {"temporary", "rename", "verify"}
    BY <2>4 DEF Outcomes
  <2> QED BY <1>1, <2>1, <2>2, <2>3, <2>4
<1>5. Subject(code) \in Documents \cup {None}
  BY <1>2, <1>4 DEF Subject
<1> QED BY <1>4, <1>5 DEF Codes

LEMMA TransactStep ==
    ASSUME Inv, Inv', ManagementInv, Transact
    PROVE  ManagementInv'
<1> DEFINE k == client[holder]
           s == snap.config.cold.secret
<1>1. /\ holder # None /\ Progress
      /\ UNCHANGED <<running, known, issued, wanted, survivor>>
  BY DEF Transact, Progress
<1>2. /\ holder \in Clients /\ k.stage = "inside" /\ pc \notin {"idle", "down"}
      /\ client \in [Clients -> ClientRecords] /\ k \in ClientRecords
      /\ RequestSound(k, s) /\ Performs(op, k)
  BY <1>1 DEF ManagementInv, LockInv, RequestsInv, HolderInv
<1>3. snap'.config.cold = snap.config.cold
  BY <1>1, <1>2, ColdKept DEF Progress, Next
<1>4. snap \in Snapshots
  BY <1>2, RunningFacts
<1>5. snap'.overlay = snap.overlay /\ PendingInv'
  <2>1. CASE snap' = snap
    BY <2>1 DEF ManagementInv, PendingInv
  <2>2. CASE snap' = WithState("out_of_sync")
    BY <1>4, <2>2 DEF WithState, Snapshots, PendingInv
  <2>3. ASSUME NEW doc \in Documents, NEW t \in {"ready", "durability_uncertain"},
               pc \in Writing, doc.config = op.candidate, snap' = Committed(doc, t)
        PROVE  snap'.overlay = snap.overlay /\ PendingInv'
    <3>1. op.kind \in {"update", "mutate", "stage", "cancel"}
      BY <1>2, KindFacts
    <3>2. op.kind = "stage" => KeepsSecret(op.candidate, s)
      BY <1>2 DEF RequestSound, Performs, KindOf, RuleKinds, Full
    <3> QED BY <1>4, <2>3, <3>1, <3>2, CommittedKeeps DEF PendingInv
  <2> QED BY <1>1, <2>1, <2>2, <2>3, ProgressPublishes
<1>6. TokensInv' /\ OverlayKept'
  BY <1>1, <1>5 DEF ManagementInv, TokensInv, OverlayKept
<1>7. ASSUME NEW n \in ClientRecords, client' = [client EXCEPT ![holder] = n],
             n.stage = "inside" \/ n.stage = "answering", RequestSound(n, s),
             n.wrote => \/ n.stage = "answering" /\ n.code = "ok"
                        \/ n.stage = "inside" /\ pc' \in {"publish", "rollback"},
             holder' = (IF n.stage = "inside" THEN holder ELSE None),
             n.stage = "inside" => pc' \notin {"idle", "down"} /\ Performs(op', n),
             n.stage = "answering" => pc' = "idle"
      PROVE  ManagementInv'
  <2>1. /\ client' \in [Clients -> ClientRecords] /\ client'[holder] = n
        /\ \A d \in Clients \ {holder} : client'[d] = client[d]
    BY <1>2, <1>7
  <2>2. LockInv'
    BY <1>1, <1>2, <1>7, <2>1, ClientsAssumption DEF ManagementInv, LockInv
  <2>3. RequestsInv'
    BY <1>2, <1>3, <1>7, <2>1 DEF ManagementInv, RequestsInv
  <2>4. WroteInv'
    <3> SUFFICES ASSUME NEW d \in Clients, client'[d].wrote, d # holder
                 PROVE  client'[d].stage = "answering" /\ client'[d].code = "ok"
      BY <1>7, <2>1 DEF WroteInv
    <3> QED BY <1>2, <2>1 DEF ManagementInv, WroteInv, LockInv
  <2>5. HolderInv'
    BY <1>7, <2>1 DEF HolderInv
  <2> QED BY <1>5, <1>6, <2>2, <2>3, <2>4, <2>5 DEF ManagementInv
<1>8. k.wrote => pc = "publish"
  <2>1. pc # "rollback"
    BY <1>1 DEF Progress, Reconcile, Replace, WriteTemporary, Recheck, Rename, SyncAndPublish,
                Verify
  <2> QED BY <1>2, <2>1 DEF ManagementInv, WroteInv
<1>9. CASE pc' = "idle"
  <2>1. PICK code \in Outcomes : Answer(holder, code, Subject(code))
    BY <1>9 DEF Transact
  <2>2. holder' = None
    BY <1>9 DEF Transact
  <2>3. /\ code \in Codes /\ Subject(code) \in Documents \cup {None}
        /\ pc = "publish" => code = "ok"
    BY <1>1, <1>9, OutcomeTyped
  <2> DEFINE n == [NoClient EXCEPT !.stage = "answering", !.code = code,
                                   !.document = Subject(code), !.wrote = client[holder].wrote]
  <2>4. n \in ClientRecords /\ n.stage = "answering" /\ n.code = code /\ n.wrote = k.wrote
    BY <1>2, <2>3 DEF NoClient, ClientRecords, Stages
  <2>5. client' = [client EXCEPT ![holder] = n]
    BY <2>1 DEF Answer
  <2> HIDE DEF n
  <2>6. RequestSound(n, s)
    BY <2>4 DEF RequestSound
  <2> QED BY <1>7, <1>8, <1>9, <2>2, <2>3, <2>4, <2>5, <2>6
<1>10. CASE pc' # "idle"
  <2> DEFINE n == [client[holder] EXCEPT !.wrote = @ \/ pc' = "publish"]
  <2>1. client' = [client EXCEPT ![holder] = n] /\ holder' = holder
    BY <1>2, <1>10 DEF Transact
  <2>2. /\ n \in ClientRecords /\ n.stage = "inside" /\ n.request = k.request
        /\ n.token = k.token /\ n.expected = k.expected /\ n.candidate = k.candidate
        /\ n.wrote = (k.wrote \/ pc' = "publish")
    <3>1. /\ n.stage = k.stage /\ n.request = k.request /\ n.token = k.token
          /\ n.expected = k.expected /\ n.candidate = k.candidate
          /\ n.wrote = (k.wrote \/ pc' = "publish")
      BY <1>2 DEF ClientRecords
    <3>2. n \in ClientRecords
      <4> DEFINE w == k.wrote \/ pc' = "publish"
      <4>1. w \in BOOLEAN /\ n = [k EXCEPT !.wrote = w]
        BY <1>2
      <4> HIDE DEF w, n
      <4> QED BY <1>2, <4>1 DEF ClientRecords
    <3> QED BY <1>2, <3>1, <3>2
  <2> HIDE DEF n
  <2>3. /\ op'.kind = op.kind /\ op'.expected = op.expected
        /\ op.kind # "mutate" => op'.candidate = op.candidate
        /\ op'.candidate.rules = op.candidate.rules
        /\ pc' # "down"
        /\ pc = "publish" => pc' = "rollback"
    BY <1>1, <1>10, ProgressKeepsOp
  <2>4. RequestSound(n, s)
    BY <1>2, <2>2 DEF RequestSound
  <2>5. Performs(op', n)
    BY <1>2, <2>2, <2>3 DEF Performs, KindOf, Full, RuleKinds
  <2>6. n.wrote => pc' \in {"publish", "rollback"}
    BY <1>8, <2>2, <2>3
  <2> QED BY <1>7, <1>10, <2>1, <2>2, <2>3, <2>4, <2>5, <2>6
<1> QED BY <1>9, <1>10

\* Every step of the API keeps both invariants.
LEMMA ManagementInvNext ==
    ASSUME Inv, ManagementInv, [ManagementNext]_managementVars
    PROVE  Inv' /\ ManagementInv' /\ [Next]_vars
<1>1. [Next]_vars
  <2>1. UNCHANGED managementVars => UNCHANGED vars
    BY DEF managementVars, controllerVars, vars
  <2> QED BY <2>1, StepsAreNext
<1>2. Inv'
  BY <1>1, InvNext
<1>3. ASSUME UNCHANGED managementVars PROVE ManagementInv'
  <2>1. /\ snap' = snap /\ pc' = pc /\ op' = op /\ running' = running /\ client' = client
        /\ holder' = holder /\ known' = known /\ issued' = issued /\ wanted' = wanted
        /\ survivor' = survivor
    BY <1>3 DEF managementVars, controllerVars
  <2>2. TokensInv'
    BY <2>1 DEF ManagementInv, TokensInv
  <2>3. LockInv'
    BY <2>1 DEF ManagementInv, LockInv
  <2>4. RequestsInv'
    BY <2>1 DEF ManagementInv, RequestsInv
  <2>5. WroteInv'
    BY <2>1 DEF ManagementInv, WroteInv
  <2>6. PendingInv' /\ OverlayKept'
    BY <2>1 DEF ManagementInv, PendingInv, OverlayKept
  <2>7. HolderInv'
    BY <2>1 DEF ManagementInv, HolderInv
  <2> QED BY <2>2, <2>3, <2>4, <2>5, <2>6, <2>7 DEF ManagementInv
<1>4. ASSUME ManagementNext PROVE ManagementInv'
  <2>1. CASE GetConfig \/ GetPending \/ GetStatus \/ ValidateConfig
    BY <2>1, ReadStep
  <2>2. ASSUME NEW c \in Clients, Load(c) PROVE ManagementInv'
    BY <2>2, LoadStep
  <2>3. ASSUME NEW c \in Clients, Prepare(c) PROVE ManagementInv'
    BY <2>3, PrepareStep
  <2>4. ASSUME NEW c \in Clients, EnterRefused(c) PROVE ManagementInv'
    BY <2>4, EnterRefusedStep
  <2>5. ASSUME NEW c \in Clients, EnterAdmitted(c) PROVE ManagementInv'
    BY <2>5, EnterAdmittedStep
  <2>6. ASSUME NEW c \in Clients, EnterOverlay(c) PROVE ManagementInv'
    BY <2>6, EnterOverlayStep
  <2>7. ASSUME NEW c \in Clients, Respond(c) PROVE ManagementInv'
    BY <2>7, RespondStep
  <2>8. CASE Transact
    BY <1>2, <2>8, TransactStep
  <2>9. CASE Edit \/ Stop
    BY <2>9, EnvironmentStep
  <2> QED BY <1>4, <2>1, <2>2, <2>3, <2>4, <2>5, <2>6, <2>7, <2>8, <2>9 DEF ManagementNext
<1> QED BY <1>1, <1>2, <1>3, <1>4

LEMMA ManagementInvAlways == ManagementSpec => [](Inv /\ ManagementInv)
<1>1. ManagementInit => Inv /\ ManagementInv
  BY InvInit, ManagementInvInit DEF ManagementInit
<1>2. Inv /\ ManagementInv /\ [ManagementNext]_managementVars => (Inv /\ ManagementInv)'
  BY ManagementInvNext
<1> QED BY <1>1, <1>2, PTL DEF ManagementSpec

-----------------------------------------------------------------------------
(***************************************************************************)
(* The properties                                                          *)
(***************************************************************************)

\* The API uses the controller only as PolicyController specifies it: whatever
\* clients send, each step is one of the controller's operations or none of its
\* business.  So every theorem about the controller holds behind the API.
THEOREM ManagementImplementsController == ManagementSpec => Spec
<1>1. ManagementInit => Init
  BY DEF ManagementInit
<1>2. Inv /\ ManagementInv /\ [ManagementNext]_managementVars => [Next]_vars
  BY ManagementInvNext
<1> QED BY <1>1, <1>2, ManagementInvAlways, PTL DEF ManagementSpec, Spec

\* For any clients, requests and edits: a problem response means that the file
\* was not changed, at whichever step up to the rename the transaction failed,
\* and the overlay is what the acknowledged requests left.
THEOREM ClientsAreToldTheTruth == ManagementSpec => []AnswersTrue
<1>1. Inv /\ ManagementInv => AnswersTrue
  <2> SUFFICES ASSUME Inv, ManagementInv PROVE AnswersTrue
    OBVIOUS
  <2>1. \A i \in DOMAIN known : known[i] \in issued
    BY DEF ManagementInv, TokensInv
  <2>2. \A c \in Clients : client[c].stage \in Stages
    BY DEF ManagementInv, RequestsInv, ClientRecords
  <2>3. ManagementTypeOK
    BY <2>1, <2>2 DEF Inv, ManagementInv, TokensInv, LockInv, ManagementTypeOK, Stages
  <2>4. ProblemChangesNothing
    BY DEF ManagementInv, WroteInv, ProblemChangesNothing
  <2> QED BY <2>3, <2>4 DEF AnswersTrue, ManagementInv
<1> QED BY <1>1, ManagementInvAlways, PTL

\* Once the lifecycle context is cancelled, the only transaction that can still
\* commit is the one that held Controller.mu at that moment.
THEOREM CancellationAdmitsNothing == ManagementSpec => NoLateStart
<1>1. Inv /\ ManagementInv /\ [ManagementNext]_managementVars =>
        [Commit /\ ~running => holder = survivor]_managementVars
  BY DEF ManagementInv, LockInv, Commit
<1> QED BY <1>1, ManagementInvAlways, PTL DEF ManagementSpec, NoLateStart

\* A commit is a rename of the transaction that works for the holder's request.
LEMMA CommitFacts ==
    ASSUME Inv, ManagementInv, ManagementNext, Commit
    PROVE  /\ holder \in Clients /\ client[holder].stage = "inside"
           /\ Performs(op, client[holder])
           /\ file'.config = op.candidate
           /\ op.kind \in {"update", "mutate", "stage", "cancel"}
           /\ op.expected \in Documents
           /\ ~world.rogue => file = op.expected
<1>1. pc = "rename" /\ pc' = "publish"
  BY DEF Commit
<1>2. Rename
  BY <1>1, StepsAreNext
     DEF vars, Next, BeginUpdate, BeginMutate, BeginStage, BeginCancel, Start, ReplaceOverlay,
         Reconcile, Replace, WriteTemporary, Recheck, SyncAndPublish, Verify,
         RollbackCheck, RollbackRename, ForeignWrite, Kill, PowerLoss, Restart
<1>3. op.candidate \in Configs /\ op.kind \in {"update", "mutate", "stage", "cancel"}
  BY <1>1, KindFacts
<1>4. file' = Encode(op.candidate)
  BY <1>1, <1>2 DEF Rename, Failed
<1>5. file'.config = op.candidate
  BY <1>3, <1>4, EncodeDocument
<1>6. holder \in Clients /\ client[holder].stage = "inside" /\ Performs(op, client[holder])
  BY <1>1 DEF ManagementInv, LockInv, HolderInv
<1> QED BY <1>1, <1>3, <1>5, <1>6 DEF Inv, OpTyped, FileHeld

\* "Sending an unchanged placeholder back preserves the active value": no request
\* commits another secret than the one the running configuration has set.
THEOREM SecretsStay == ManagementSpec => SecretsFixed
<1>1. Inv /\ ManagementInv /\ [ManagementNext]_managementVars =>
        [Commit /\ snap.config.cold.secret # "" =>
            file'.config.cold.secret = snap.config.cold.secret]_managementVars
  <2> SUFFICES ASSUME Inv, ManagementInv, ManagementNext, Commit,
                      snap.config.cold.secret # ""
               PROVE  file'.config.cold.secret = snap.config.cold.secret
    OBVIOUS
  <2>1. pc \in Writing
    BY DEF Commit, Writing
  <2>2. CASE op.kind \in {"update", "mutate", "cancel"}
    BY <2>1, <2>2, CommitFacts DEF Inv, OpSound, Hot
  <2>3. CASE op.kind = "stage"
    <3>1. client[holder].request.kind \in Full /\ op.candidate = client[holder].candidate
      BY <2>3, CommitFacts DEF Performs, KindOf, RuleKinds, Full
    <3>2. KeepsSecret(client[holder].candidate, snap.config.cold.secret)
      BY <3>1, CommitFacts, LockingFacts DEF ManagementInv
    <3> QED BY <3>1, <3>2, CommitFacts DEF KeepsSecret
  <2> QED BY <2>2, <2>3, CommitFacts
<1> QED BY <1>1, ManagementInvAlways, PTL DEF ManagementSpec, SecretsFixed

\* Where other programs take the advisory lock, nothing is lost and nothing is
\* done by halves: a commit replaces the very document whose token the client
\* sent, does to it what was asked and no more, and leaves set secrets alone.
THEOREM CommitsDoWhatWasAsked ==
    ASSUME \A w \in Worlds : ~w.rogue
    PROVE  ManagementSpec => CommitsSound
<1>1. ASSUME Inv, ManagementInv, ManagementNext, Commit
      PROVE  /\ file = client[holder].token
             /\ file = op.expected /\ file \in Documents
  <2>1. ~world.rogue
    BY <1>1 DEF Inv, TypeOK
  <2>2. file = client[holder].expected /\ file = op.expected /\ file \in Documents
    BY <1>1, <2>1, CommitFacts DEF Performs
  <2>3. client[holder].expected \in {client[holder].token, None}
    BY <1>1, CommitFacts, LockingFacts DEF ManagementInv
  <2> QED BY <2>2, <2>3, NotDocuments
<1>2. Inv /\ ManagementInv /\ [ManagementNext]_managementVars =>
        [Commit => file = client[holder].token]_managementVars
  BY <1>1
<1> DEFINE Asked ==
        LET r == client[holder].request
        IN  /\ r.kind \in RuleKinds =>
                  /\ file'.config = [file.config EXCEPT !.rules = file'.config.rules]
                  /\ RulesAsAsked(r, client[holder].token.config.rules, file'.config.rules)
            /\ r.kind \in Full =>
                  file'.config = [r.config EXCEPT !.cold.secret = file'.config.cold.secret]
<1>3. Inv /\ ManagementInv /\ [ManagementNext]_managementVars => [Commit => Asked]_managementVars
  <2> SUFFICES ASSUME Inv, ManagementInv, ManagementNext, Commit PROVE Asked
    OBVIOUS
  <2> DEFINE r == client[holder].request
  <2>1. /\ holder \in Clients /\ r \in Requests /\ Performs(op, client[holder])
        /\ file'.config = op.candidate /\ pc \in Writing
    BY CommitFacts, LockingFacts DEF ManagementInv, Commit, Writing
  <2>2. ASSUME r.kind \in RuleKinds
        PROVE  /\ file'.config = [file.config EXCEPT !.rules = file'.config.rules]
               /\ RulesAsAsked(r, client[holder].token.config.rules, file'.config.rules)
    <3>1. op.kind = "mutate"
      BY <2>1, <2>2 DEF Performs, KindOf
    <3>2. op.candidate = [op.expected.config EXCEPT !.rules = op.candidate.rules]
      BY <2>1, <3>1 DEF Inv, OpSound
    <3>3. /\ client[holder].expected = file /\ client[holder].token = file
          /\ file \in Documents /\ file = op.expected
      BY <1>1, <2>1 DEF Performs
    <3>4. /\ Mutation(r, file.config.rules).code = "ok"
          /\ op.candidate.rules = Mutation(r, file.config.rules).rules
      BY <2>1, <2>2, <3>3, NotDocuments DEF Performs
    <3>5. file.config.rules \in Rules
      BY <3>3, DocumentConfig, RulesAssumption
    <3>6. RulesAsAsked(r, file.config.rules, op.candidate.rules)
      BY <2>1, <2>2, <3>4, <3>5, MutationAsAsked
    <3> QED BY <2>1, <3>2, <3>3, <3>6
  <2>3. ASSUME r.kind \in Full
        PROVE  file'.config = [r.config EXCEPT !.cold.secret = file'.config.cold.secret]
    <3>1. op.candidate = client[holder].candidate
      BY <2>1, <2>3 DEF Performs
    <3>2. client[holder].candidate
            = [r.config EXCEPT !.cold.secret = client[holder].candidate.cold.secret]
      BY <2>1, <2>3, CommitFacts, LockingFacts DEF ManagementInv
    <3> QED BY <2>1, <3>1, <3>2
  <2> QED BY <2>2, <2>3
<1>4. ManagementSpec => NoBlindWrite
  BY <1>2, ManagementInvAlways, PTL DEF ManagementSpec, NoBlindWrite
<1>5. ManagementSpec => CommitsAsAsked
  BY <1>3, ManagementInvAlways, PTL DEF ManagementSpec, CommitsAsAsked
<1> QED BY <1>4, <1>5, SecretsStay, PTL DEF CommitsSound

=============================================================================
