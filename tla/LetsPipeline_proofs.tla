------------------------ MODULE LetsPipeline_proofs ------------------------
(***************************************************************************)
(* The LETS pipeline for any commands, any files and any number of runs of *)
(* the consolidation: type correctness, what a flag and a stamp of the     *)
(* inventory are worth, and what a load that ends without an error has     *)
(* done.                                                                   *)
(***************************************************************************)
EXTENDS LetsPipeline, TLAPS

(* A command that begins has the types of a command.                       *)
LEMMA RestTypes ==
    ASSUME batches \in Nat
    PROVE  /\ Rest \in Runs
           /\ \A step \in Steps : Begin(step) \in Runs /\ Begin(step).at = step
           /\ Rest.at = "idle"
  <1>1. Rest \in Runs
    BY DEF Rest, Runs, Steps
  <1>2. \A step \in Steps : Begin(step) \in Runs
    BY <1>1 DEF Runs, Begin
  <1>3. Rest.at = "idle"
    BY DEF Rest
  <1>4. \A step \in Steps : Begin(step).at = step
    BY <1>1 DEF Runs, Begin
  <1>5. QED
    BY <1>1, <1>2, <1>3, <1>4

(* What a step of a command leaves to the other commands: it is kept away  *)
(* from them, or they are marked as concerned by it.                       *)
LeavesOthers(c) ==
    \/ /\ run' = [run EXCEPT ![c] = run'[c]]
       /\ events \subseteq events'
       /\ \A f \in Files :
             flag[f] = "unprocessed" => flag'[f] = "unprocessed" \/ Indexed(f)'
    \/ \E dropped \in BOOLEAN :
          /\ Concerns(c, run'[c], dropped)
          /\ events \subseteq events' \/ dropped

(* The other commands as such a step leaves them.                          *)
LEMMA OthersLeft ==
    ASSUME run \in [Commands -> Runs], NEW c \in Commands, LeavesOthers(c),
           NEW x \in Commands \ {c}
    PROVE  \/ /\ run'[x] = run[x]
              /\ events \subseteq events'
              /\ \A f \in Files :
                    flag[f] = "unprocessed" => flag'[f] = "unprocessed" \/ Indexed(f)'
           \/ \E dropped \in BOOLEAN :
                 /\ run'[x] = [run[x] EXCEPT
                                 !.misled = run[x].misled \/ LoadsFiles(run[x]),
                                 !.tainted = run[x].tainted \/ (dropped /\ IsToMark(run[x]))]
                 /\ events \subseteq events' \/ dropped
  BY DEF LeavesOthers, Concerns

(* What a command has been told of changes nothing else of it.             *)
LEMMA OthersKeep ==
    ASSUME run \in [Commands -> Runs], NEW c \in Commands, LeavesOthers(c),
           NEW x \in Commands \ {c}
    PROVE  /\ run'[x] \in Runs
           /\ run'[x].at = run[x].at /\ run'[x].id = run[x].id
           /\ run'[x].queue = run[x].queue
           /\ run[x].tainted => run'[x].tainted
           /\ run'[x].at = "markAll" /\ ~run'[x].tainted => events \subseteq events'
  <1>1. CASE run'[x] = run[x] /\ events \subseteq events'
    BY <1>1
  <1>2. ASSUME NEW dropped \in BOOLEAN, events \subseteq events' \/ dropped,
               run'[x] = [run[x] EXCEPT
                            !.misled = run[x].misled \/ LoadsFiles(run[x]),
                            !.tainted = run[x].tainted \/ (dropped /\ IsToMark(run[x]))]
        PROVE  /\ run'[x] \in Runs
               /\ run'[x].at = run[x].at /\ run'[x].id = run[x].id
               /\ run'[x].queue = run[x].queue
               /\ run[x].tainted => run'[x].tainted
               /\ run'[x].at = "markAll" /\ ~run'[x].tainted => events \subseteq events'
    <2> DEFINE misled == run[x].misled \/ LoadsFiles(run[x])
               tainted == run[x].tainted \/ (dropped /\ IsToMark(run[x]))
    <2>1. run'[x] = [run[x] EXCEPT !.misled = misled, !.tainted = tainted]
      BY <1>2
    <2>2. misled \in BOOLEAN /\ tainted \in BOOLEAN /\ (run[x].tainted => tainted)
      BY DEF Runs
    <2>3. run[x].at = "markAll" /\ ~tainted => events \subseteq events'
      BY <1>2 DEF IsToMark
    <2> HIDE DEF misled, tainted
    <2>4. QED
      BY <2>1, <2>2, <2>3 DEF Runs
  <1>3. QED
    BY <1>1, <1>2, OthersLeft

(* A step that changes nothing but its command, or takes inventory         *)
(* documents, events and flags from where they are.                        *)
LEMMA TypesKept ==
    ASSUME TypeOK, NEW c \in Commands, run'[c] \in Runs, content' = content,
           UNCHANGED artefactVars, LeavesOthers(c),
           flag' \in [Files -> Flags], view' \in [Files -> Flags],
           batch' \in [Files -> 0..batches],
           \A f \in Files : batch'[f] # 0 => flag'[f] # "absent",
           events' \subseteq Files \X Days \X Days
    PROVE  TypeOK'
  <1>1. batches' = batches /\ Runs' = Runs
    BY DEF artefactVars, Runs
  <1>2. run \in [Commands -> Runs]
    BY DEF TypeOK
  <1>3. run' \in [Commands -> Runs]
    <2>1. \A x \in Commands : run'[x] \in Runs
      BY <1>2, OthersKeep
    <2>2. run' = [x \in Commands |-> run'[x]]
      BY <1>2 DEF LeavesOthers, Concerns
    <2>3. QED
      BY <2>1, <2>2
  <1>4. QED
    BY <1>1, <1>3 DEF TypeOK, artefactVars

(* Events are there to stay when none is dropped.                          *)
LEMMA IndexedStays ==
    ASSUME events \subseteq events', content' = content, NEW f \in Files, Indexed(f)
    PROVE  Indexed(f)'
  BY DEF Indexed

(* A flag that was worth something, or that is set with right, is worth    *)
(* it, and searches see no other.                                          *)
LEMMA FlagsKept ==
    ASSUME ProcessedIsIndexed, content' = content, events \subseteq events',
           \A f \in Files : flag'[f] = "backed" => flag[f] = "backed" \/ Indexed(f)',
           \A f \in Files : view'[f] = "backed" => "backed" \in {view[f], flag'[f]}
    PROVE  ProcessedIsIndexed'
  BY IndexedStays DEF ProcessedIsIndexed

(* What searches see of an update by query.                                *)
LEMMA ShownFlags ==
    ASSUME view \in [Files -> Flags], flag' \in [Files -> Flags],
           NEW hit, NEW refused \in BOOLEAN, Shows(hit, refused)
    PROVE  /\ view' \in [Files -> Flags]
           /\ \A f \in Files : view'[f] \in {view[f], flag'[f]}
  BY DEF Shows

(* What the other loads have posted stays so, unless they are concerned.   *)
LEMMA OthersPosted ==
    ASSUME TypeOK, PostedSoFar, NEW c \in Commands, content' = content,
           LeavesOthers(c), PostedOf(run[c])'
    PROVE  PostedSoFar'
  <1> SUFFICES ASSUME NEW x \in Commands \ {c} PROVE PostedOf(run[x])'
    BY DEF PostedSoFar
  <1>1. run[x] \in Runs /\ PostedOf(run[x]) /\ run \in [Commands -> Runs]
    BY DEF TypeOK, PostedSoFar
  <1>2. ASSUME run'[x] = run[x], events \subseteq events',
               \A f \in Files :
                  flag[f] = "unprocessed" => flag'[f] = "unprocessed" \/ Indexed(f)'
        PROVE  PostedOf(run[x])'
    <2>1. \A f \in Files : Indexed(f) => Indexed(f)'
      BY <1>2, IndexedStays
    <2>2. run[x].asked \subseteq Files
      BY <1>1 DEF Runs
    <2>3. QED
      BY <1>1, <1>2, <2>1, <2>2 DEF PostedOf, InHand
  <1>3. ASSUME NEW dropped \in BOOLEAN, events \subseteq events' \/ dropped,
               run'[x] = [run[x] EXCEPT
                            !.misled = run[x].misled \/ LoadsFiles(run[x]),
                            !.tainted = run[x].tainted \/ (dropped /\ IsToMark(run[x]))]
        PROVE  PostedOf(run[x])'
    <2> DEFINE misled == run[x].misled \/ LoadsFiles(run[x])
               tainted == run[x].tainted \/ (dropped /\ IsToMark(run[x]))
    <2>1. run'[x] = [run[x] EXCEPT !.misled = misled, !.tainted = tainted]
      BY <1>3
    <2>2. /\ run[x].at \in {"search", "fetch", "post", "mark"} => misled
          /\ InHand(run[x]) /\ ~tainted => ~run[x].tainted /\ events \subseteq events'
      BY <1>3 DEF LoadsFiles, IsToMark, InHand
    <2> HIDE DEF misled, tainted
    <2>3. /\ run'[x].at = run[x].at /\ run'[x].file = run[x].file /\ run'[x].days = run[x].days
          /\ run'[x].failed = run[x].failed /\ run'[x].error = run[x].error
          /\ run'[x].misled = misled /\ run'[x].tainted = tainted
      BY <1>1, <2>1 DEF Runs
    <2>4. QED
      BY <1>1, <2>2, <2>3 DEF PostedOf, InHand
  <1>4. QED
    BY <1>1, <1>2, <1>3, OthersLeft

(* The ids of the other commands stay fresh.                               *)
LEMMA OthersFresh ==
    ASSUME TypeOK, IdsAreFresh, NEW c \in Commands, run'[c] \in Runs,
           UNCHANGED artefactVars,
           LeavesOthers(c),
           \A f \in Files : batch'[f] \in {0, batch[f]},
           ~Consolidates(run'[c]),
           LoadsBatch(run'[c]) =>
              /\ run'[c].id # 0
              /\ run'[c].id = manifest \/ (LoadsBatch(run[c]) /\ run'[c].id = run[c].id)
    PROVE  IdsAreFresh'
  <1>1. run \in [Commands -> Runs]
    BY DEF TypeOK
  <1>2. \A x \in Commands \ {c} : run'[x].at = run[x].at /\ run'[x].id = run[x].id
    BY <1>1, OthersKeep
  <1>3. artefact' = artefact /\ manifest' = manifest
    BY DEF artefactVars
  <1>4. \A x \in Commands \ {c} :
          /\ Consolidates(run'[x]) <=> Consolidates(run[x])
          /\ LoadsBatch(run'[x]) <=> LoadsBatch(run[x])
          /\ Writes(run'[x]) <=> Writes(run[x])
    BY <1>2 DEF Consolidates, LoadsBatch, Writes
  <1>5. ~Writes(run'[c]) /\ run'[c].at # "putEvents"
    BY DEF Writes, Consolidates
  <1>6. ASSUME NEW x \in Commands \ {c}, Writes(run[x])
        PROVE  Unseen(run[x].id)'
    <2>1. Unseen(run[x].id) /\ run[x].id # 0
      BY <1>6 DEF IdsAreFresh, Writes, Consolidates
    <2>2. manifest' # run'[x].id /\ \A f \in Files : batch'[f] # run'[x].id
      BY <1>2, <1>3, <2>1 DEF Unseen
    <2>3. \A y \in Commands : LoadsBatch(run'[y]) => run'[y].id # run'[x].id
      BY <1>2, <1>4, <2>1 DEF Unseen
    <2>4. QED
      BY <2>2, <2>3 DEF Unseen
  <1>7. \A x \in Commands \ {c} :
          /\ Consolidates(run'[x]) \/ LoadsBatch(run'[x]) => run'[x].id # 0
          /\ Consolidates(run'[x]) =>
                \A y \in Commands \ {x} : Consolidates(run'[y]) => run'[y].id # run'[x].id
          /\ run'[x].at = "putEvents" => artefact'.id # run'[x].id
    BY <1>2, <1>3, <1>4 DEF IdsAreFresh, At
  <1>8. QED
    BY <1>4, <1>5, <1>6, <1>7 DEF IdsAreFresh, At

(* What is stamped, or may be, only gets less.                             *)
LEMMA OthersCovered ==
    ASSUME TypeOK, IdsAreFresh, StampsAreCovered, NEW c \in Commands, run'[c] \in Runs,
           content' = content, UNCHANGED artefactVars, LeavesOthers(c),
           \A f \in Files : batch'[f] \in {0, batch[f]},
           ~Consolidates(run'[c]),
           CoveredBy(run[c])'
    PROVE  StampsAreCovered'
  <1>1. run \in [Commands -> Runs]
    BY DEF TypeOK
  <1>2. \A x \in Commands \ {c} :
          /\ run'[x].at = run[x].at /\ run'[x].id = run[x].id /\ run'[x].queue = run[x].queue
          /\ ~run'[x].tainted => ~run[x].tainted
          /\ run'[x].at = "markAll" /\ ~run'[x].tainted => events \subseteq events'
    BY <1>1, OthersKeep
  <1>3. artefact' = artefact
    BY DEF artefactVars
  <1>4. ASSUME NEW x \in Commands \ {c} PROVE CoveredBy(run[x])'
    <2>1. CASE run'[x].at \notin {"postAll", "markAll"} \/ run'[x].tainted
      BY <2>1 DEF CoveredBy
    <2>2. CASE run'[x].at \in {"postAll", "markAll"} /\ ~run'[x].tainted
      <3>1. run[x].at = run'[x].at /\ run'[x].id = run[x].id /\ run'[x].queue = run[x].queue
        BY <1>2
      <3>2. run[x].id # 0
        BY <2>2, <3>1 DEF IdsAreFresh, LoadsBatch
      <3>3. Stamped(run[x].id)' \subseteq Stamped(run[x].id)
        BY <1>2, <3>1, <3>2 DEF Stamped, Consolidates
      <3>4. CoveredBy(run[x]) /\ ~run[x].tainted
        BY <1>2, <2>2 DEF StampsAreCovered
      <3>5. run[x].at = "markAll" => \A f \in Files : Indexed(f) => Indexed(f)'
        BY <1>2, <2>2, <3>1, IndexedStays
      <3>6. Stamped(run[x].id)' \subseteq Files
        BY DEF Stamped
      <3>7. QED
        BY <3>1, <3>3, <3>4, <3>5, <3>6 DEF CoveredBy
    <2>3. QED
      BY <2>1, <2>2
  <1>5. QED
    BY <1>2, <1>3, <1>4 DEF StampsAreCovered, Consolidates, At

(* A step of one command that writes nothing of a consolidation and that   *)
(* wipes nothing and sets no flag without right, or that concerns the      *)
(* others, leaves to every command what it relies on.                      *)
LEMMA CommandStep ==
    ASSUME IInv, NEW c \in Commands, run'[c] \in Runs, content' = content,
           UNCHANGED artefactVars,
           LeavesOthers(c),
           flag' \in [Files -> Flags], view' \in [Files -> Flags],
           batch' \in [Files -> 0..batches],
           \A f \in Files : batch'[f] \in {0, batch[f]},
           \A f \in Files : batch'[f] # 0 => flag'[f] # "absent",
           events' \subseteq Files \X Days \X Days,
           ProcessedIsIndexed',
           PostedOf(run[c])', CoveredBy(run[c])',
           ~Consolidates(run'[c]),
           LoadsBatch(run'[c]) =>
              /\ run'[c].id # 0
              /\ run'[c].id = manifest \/ (LoadsBatch(run[c]) /\ run'[c].id = run[c].id)
    PROVE  IInv'
  <1>1. TypeOK /\ PostedSoFar /\ IdsAreFresh /\ StampsAreCovered
    BY DEF IInv
  <1>2. TypeOK'
    BY <1>1, TypesKept
  <1>3. PostedSoFar'
    BY <1>1, OthersPosted
  <1>4. IdsAreFresh'
    BY <1>1, OthersFresh
  <1>5. StampsAreCovered'
    BY <1>1, OthersCovered
  <1>6. QED
    BY <1>2, <1>3, <1>4, <1>5 DEF IInv

(* A step that changes nothing but its command.                            *)
LEMMA QuietStep ==
    ASSUME IInv, NEW c \in Commands, run'[c] \in Runs, content' = content,
           UNCHANGED <<inventoryVars, events, artefactVars>>,
           run' = [run EXCEPT ![c] = run'[c]],
           PostedOf(run[c])', CoveredBy(run[c])',
           ~Consolidates(run'[c]),
           LoadsBatch(run'[c]) =>
              /\ run'[c].id # 0
              /\ run'[c].id = manifest \/ (LoadsBatch(run[c]) /\ run'[c].id = run[c].id)
    PROVE  IInv'
  <1>1. /\ flag \in [Files -> Flags] /\ view \in [Files -> Flags]
        /\ batch \in [Files -> 0..batches]
        /\ events \subseteq Files \X Days \X Days
        /\ \A f \in Files : batch[f] # 0 => flag[f] # "absent"
    BY DEF IInv, TypeOK
  <1>2. flag' = flag /\ view' = view /\ batch' = batch /\ events' = events
    BY DEF inventoryVars
  <1>3. ProcessedIsIndexed'
    BY <1>2 DEF IInv, ProcessedIsIndexed, Indexed
  <1>4. LeavesOthers(c)
    BY <1>2 DEF LeavesOthers
  <1>5. QED
    BY <1>1, <1>2, <1>3, <1>4, CommandStep

(* A command that is idle or wipes relies on nothing.                      *)
LEMMA RelyOnNothing ==
    ASSUME NEW c \in Commands, run'[c].at \in {"idle", "drop", "reset"}
    PROVE  /\ PostedOf(run[c])' /\ CoveredBy(run[c])'
           /\ ~Consolidates(run'[c]) /\ ~LoadsBatch(run'[c])
  BY DEF PostedOf, InHand, CoveredBy, Consolidates, LoadsBatch

(* The types of a command, and of what it has at hand.                     *)
LEMMA CommandTypes ==
    ASSUME IInv, NEW c \in Commands
    PROVE  /\ run \in [Commands -> Runs] /\ run[c] \in Runs
           /\ batches \in Nat /\ content \in [Files -> SUBSET Days]
           /\ PostedOf(run[c]) /\ CoveredBy(run[c])
  <1>1. TypeOK /\ PostedSoFar /\ StampsAreCovered
    BY DEF IInv
  <1>2. batches \in Nat
    BY <1>1, PipelineAssumption DEF TypeOK
  <1>3. content \in [Files -> SUBSET Days]
    BY <1>1 DEF TypeOK, Contents, Days
  <1>4. QED
    BY <1>1, <1>2, <1>3 DEF TypeOK, PostedSoFar, StampsAreCovered

(* An exception or an interrupt ends the command where it is.              *)
LEMMA EndKeeps ==
    ASSUME IInv, NEW c \in Commands, content' = content, Becomes(c, Rest),
           UNCHANGED <<inventoryVars, events, artefactVars>>
    PROVE  IInv'
  <1>1. run'[c] = Rest /\ run' = [run EXCEPT ![c] = run'[c]]
    BY CommandTypes DEF Becomes
  <1>2. run'[c].at = "idle" /\ run'[c] \in Runs
    BY <1>1, CommandTypes, RestTypes
  <1>3. QED
    BY <1>1, <1>2, RelyOnNothing, QuietStep

(* Events__Loader.load: the files in no need of loading are indexed.       *)
LEMMA QueueKeeps ==
    ASSUME IInv, NEW c \in Commands, content' = content,
           SyncSearch(c) \/ LoadFromInventory(c) \/ LoadFromListing(c)
    PROVE  IInv'
  <1>0. /\ run \in [Commands -> Runs] /\ run[c] \in Runs
        /\ batches \in Nat /\ content \in [Files -> SUBSET Days]
    BY CommandTypes
  <1> USE <1>0
  <1>1. UNCHANGED <<inventoryVars, events, artefactVars>> /\ events' = events
    BY DEF SyncSearch, LoadFromInventory, LoadFromListing
  <1>2. Unprocessed \subseteq Files /\ \A f \in Unprocessed : ~(f \in Processed)
    BY DEF Unprocessed, Processed
  <1>3. ASSUME run'[c] \in Runs, run' = [run EXCEPT ![c] = run'[c]], run'[c].at = "fetch",
               run'[c].misled \/ run'[c].error \/
                  \A f \in run'[c].asked \ run'[c].queue : Indexed(f)
        PROVE  IInv'
    <2>1. PostedOf(run[c])'
      BY <1>1, <1>3 DEF PostedOf, InHand, Indexed
    <2>2. CoveredBy(run[c])' /\ ~Consolidates(run'[c]) /\ ~LoadsBatch(run'[c])
      BY <1>3 DEF CoveredBy, Consolidates, LoadsBatch
    <2>3. QED
      BY <1>1, <1>3, <2>1, <2>2, QuietStep
  <1>4. CASE SyncSearch(c)
    <2>1. CASE Becomes(c, Rest)
      BY <1>1, <2>1, EndKeeps
    <2>2. ASSUME NEW queue \in SUBSET Files,
                 Becomes(c, [run[c] EXCEPT
                               !.at = "fetch", !.queue = queue,
                               !.misled = @ \/ queue # Unprocessed
                                            \/ \E f \in run[c].asked : view[f] # flag[f]])
          PROVE  IInv'
      <3> DEFINE misled == run[c].misled \/ queue # Unprocessed
                             \/ \E f \in run[c].asked : view[f] # flag[f]
      <3>1. run'[c] = [run[c] EXCEPT !.at = "fetch", !.queue = queue, !.misled = misled]
        BY <2>2 DEF Becomes
      <3>2. run[c].at = "search" /\ run[c].asked \subseteq Files
        BY <1>4 DEF SyncSearch, At, Runs
      <3>3. misled \/ run[c].error \/ \A f \in run[c].asked \ queue : Indexed(f)
        BY <3>2, CommandTypes DEF PostedOf, Unprocessed
      <3>4. misled \in BOOLEAN
        BY DEF Runs
      <3> HIDE DEF misled
      <3>5. run'[c] \in Runs
        BY <3>1, <3>4 DEF Runs, Steps
      <3>6. run'[c].at = "fetch" /\ run'[c].queue = queue /\ run'[c].asked = run[c].asked
            /\ run'[c].misled = misled /\ run'[c].error = run[c].error
        BY <3>1 DEF Runs
      <3>7. run' = [run EXCEPT ![c] = run'[c]]
        BY <2>2 DEF Becomes
      <3>8. QED
        BY <1>3, <3>3, <3>5, <3>6, <3>7
    <2>3. QED
      BY <1>4, <2>1, <2>2 DEF SyncSearch
  <1>5. CASE LoadFromInventory(c)
    <2>1. PICK queue \in SUBSET Files :
            Becomes(c, [Begin("fetch") EXCEPT !.asked = queue, !.queue = queue])
      BY <1>5 DEF LoadFromInventory
    <2>2. Begin("fetch") \in Runs /\ Begin("fetch").at = "fetch"
      BY RestTypes DEF Steps
    <2>3. run'[c] = [Begin("fetch") EXCEPT !.asked = queue, !.queue = queue]
      BY <2>1 DEF Becomes
    <2>4. /\ run'[c] \in Runs /\ run'[c].at = "fetch"
          /\ run'[c].asked = queue /\ run'[c].queue = queue
      BY <2>2, <2>3 DEF Runs
    <2>5. QED
      BY <1>3, <2>1, <2>3, <2>4 DEF Becomes
  <1>6. CASE LoadFromListing(c)
    <2>1. PICK listed \in SUBSET Files, skipped \in {{}, Processed} :
            Becomes(c, [Begin("fetch") EXCEPT
                          !.asked = listed, !.queue = listed \ skipped,
                          !.misled = listed \cap skipped \cap Doubtful # {}])
      BY <1>6 DEF LoadFromListing
    <2>2. Begin("fetch") \in Runs /\ Begin("fetch").at = "fetch"
      BY RestTypes DEF Steps
    <2> DEFINE misled == listed \cap skipped \cap Doubtful # {}
    <2>3. run'[c] = [Begin("fetch") EXCEPT
                       !.asked = listed, !.queue = listed \ skipped, !.misled = misled]
      BY <2>1 DEF Becomes
    <2>4. misled \in BOOLEAN
      OBVIOUS
    <2>5. \A f \in listed \cap skipped : f \in Doubtful \/ Indexed(f)
      BY DEF Doubtful, Processed, IInv, ProcessedIsIndexed
    <2>6. misled \/ \A f \in listed \ (listed \ skipped) : Indexed(f)
      BY <2>5
    <2> HIDE DEF misled
    <2>7. run'[c] \in Runs
      BY <2>2, <2>3, <2>4 DEF Runs
    <2>8. /\ run'[c].at = "fetch" /\ run'[c].misled = misled
          /\ run'[c].asked = listed /\ run'[c].queue = listed \ skipped
      BY <2>2, <2>3 DEF Runs
    <2>9. run' = [run EXCEPT ![c] = run'[c]]
      BY <2>1 DEF Becomes
    <2>10. QED
      BY <1>3, <2>6, <2>7, <2>8, <2>9
  <1>7. QED
    BY <1>4, <1>5, <1>6

(* Events__Loader.load: a file is read, or is not.                         *)
LEMMA FetchKeeps ==
    ASSUME IInv, NEW c \in Commands, content' = content, Fetch(c) \/ FetchFails(c)
    PROVE  IInv'
  <1>0. /\ run \in [Commands -> Runs] /\ run[c] \in Runs
        /\ batches \in Nat /\ content \in [Files -> SUBSET Days]
    BY CommandTypes
  <1> USE <1>0
  <1>1. /\ UNCHANGED <<inventoryVars, events, artefactVars>> /\ events' = events
        /\ run[c].at = "fetch" /\ run[c].queue \subseteq Files /\ run[c].asked \subseteq Files
    BY DEF Fetch, FetchFails, At, Runs
  <1>2. CASE Fetch(c)
    <2>1. PICK f \in run[c].queue :
            Becomes(c, [run[c] EXCEPT
                          !.queue = @ \ {f}, !.file = f, !.days = content[f], !.failed = FALSE,
                          !.tainted = FALSE,
                          !.at = IF content[f] = {} THEN "mark" ELSE "post"])
      BY <1>2 DEF Fetch
    <2> DEFINE step == IF content[f] = {} THEN "mark" ELSE "post"
    <2>2. run'[c] = [run[c] EXCEPT
                       !.queue = @ \ {f}, !.file = f, !.days = content[f], !.failed = FALSE,
                       !.tainted = FALSE, !.at = step]
      BY <2>1 DEF Becomes
    <2>3. step \in Steps /\ step \in {"mark", "post"} /\ (step = "mark" => content[f] = {})
      BY DEF Steps
    <2> HIDE DEF step
    <2>4. content[f] \subseteq Days /\ f \in Files
      BY <1>1, <2>1
    <2>5. run'[c] \in Runs
      BY <2>2, <2>3, <2>4 DEF Runs
    <2>6. /\ run'[c].at = step /\ run'[c].queue = run[c].queue \ {f} /\ run'[c].file = f
          /\ run'[c].days = content[f] /\ run'[c].failed = FALSE
          /\ run'[c].asked = run[c].asked /\ run'[c].error = run[c].error
          /\ run'[c].tainted = FALSE /\ run'[c].misled = run[c].misled
      BY <2>2 DEF Runs
    <2>7. PostedOf(run[c])'
      BY <1>1, <2>3, <2>4, <2>6, CommandTypes DEF PostedOf, InHand, Indexed
    <2>8. CoveredBy(run[c])' /\ ~Consolidates(run'[c]) /\ ~LoadsBatch(run'[c])
      BY <2>3, <2>6 DEF CoveredBy, Consolidates, LoadsBatch
    <2>9. run' = [run EXCEPT ![c] = run'[c]]
      BY <2>1 DEF Becomes
    <2>10. QED
      BY <1>1, <2>5, <2>7, <2>8, <2>9, QuietStep
  <1>3. CASE FetchFails(c)
    <2>1. PICK f \in run[c].queue : Becomes(c, [run[c] EXCEPT !.queue = @ \ {f}, !.error = TRUE])
      BY <1>3 DEF FetchFails
    <2>2. run'[c] = [run[c] EXCEPT !.queue = @ \ {f}, !.error = TRUE]
      BY <2>1 DEF Becomes
    <2>3. run'[c] \in Runs /\ run'[c].at = "fetch" /\ run'[c].error
      BY <1>1, <2>2 DEF Runs
    <2>4. PostedOf(run[c])' /\ CoveredBy(run[c])' /\ ~Consolidates(run'[c]) /\ ~LoadsBatch(run'[c])
      BY <2>3 DEF PostedOf, InHand, CoveredBy, Consolidates, LoadsBatch
    <2>5. run' = [run EXCEPT ![c] = run'[c]]
      BY <2>1 DEF Becomes
    <2>6. QED
      BY <1>1, <2>3, <2>4, <2>5, QuietStep
  <1>4. QED
    BY <1>2, <1>3

(* Events__Loader.load: a group of the file in hand is posted or refused.  *)
LEMMA PostKeeps ==
    ASSUME IInv, NEW c \in Commands, content' = content, Post(c) \/ PostRefused(c)
    PROVE  IInv'
  <1>0. /\ run \in [Commands -> Runs] /\ run[c] \in Runs
        /\ batches \in Nat /\ content \in [Files -> SUBSET Days]
    BY CommandTypes
  <1> USE <1>0
  <1>1. /\ run[c].at = "post" /\ UNCHANGED <<inventoryVars, artefactVars>>
        /\ flag' = flag /\ view' = view /\ batch' = batch
    BY DEF Post, PostRefused, At, inventoryVars
  <1>2. /\ flag \in [Files -> Flags] /\ view \in [Files -> Flags]
        /\ batch \in [Files -> 0..batches]
        /\ events \subseteq Files \X Days \X Days
        /\ \A f \in Files : batch[f] # 0 => flag[f] # "absent"
    BY DEF IInv, TypeOK
  <1>3. PICK d \in Days : d = NextDay(run[c].days)
    BY DEF NextDay, Days
  <1>4. /\ run[c].file \in Files /\ (run[c].failed => run[c].error)
        /\ run[c].tainted => run[c].misled
    BY <1>1, CommandTypes DEF PostedOf, InHand
  <1>5. ASSUME NEW failed \in BOOLEAN, NEW error \in BOOLEAN,
               run[c].failed => failed, run[c].error => error, failed => error,
               Becomes(c, AfterPost([run[c] EXCEPT
                                       !.days = @ \ {d}, !.failed = failed, !.error = error])),
               events \subseteq events', events' \subseteq events \cup {<<run[c].file, d, d>>},
               ~failed => <<run[c].file, d, d>> \in events'
        PROVE  IInv'
    <2> DEFINE q == [run[c] EXCEPT !.days = @ \ {d}, !.failed = failed, !.error = error]
    <2>1. q \in Runs
      BY DEF Runs
    <2>2. /\ q.at = "post" /\ q.days = run[c].days \ {d} /\ q.failed = failed /\ q.error = error
          /\ q.asked = run[c].asked /\ q.queue = run[c].queue /\ q.file = run[c].file
          /\ q.tainted = run[c].tainted /\ q.misled = run[c].misled
      BY <1>1 DEF Runs
    <2>3. run'[c] = AfterPost(q) /\ run' = [run EXCEPT ![c] = run'[c]]
      BY <1>5 DEF Becomes
    <2> HIDE DEF q
    <2>4. \A f \in Files : Indexed(f) => Indexed(f)'
      BY <1>5, IndexedStays
    <2>5. run[c].asked \subseteq Files
      BY DEF Runs
    <2>6. q.tainted \/ q.failed \/
            \A e \in content[q.file] \ q.days : \E i \in Days : <<q.file, e, i>> \in events'
      BY <1>1, <1>3, <1>5, <2>2, CommandTypes DEF PostedOf, InHand
    <2>7. q.misled \/ q.error \/ \A f \in q.asked \ (q.queue \cup {q.file}) : Indexed(f)'
      BY <1>1, <1>5, <2>2, <2>4, <2>5, CommandTypes DEF PostedOf, InHand
    <2> DEFINE Loads == /\ run'[c] \in Runs /\ PostedOf(run[c])'
                        /\ run'[c].at \in {"post", "mark", "fetch"}
    <2>8. ASSUME q.days # {} PROVE Loads
      <3>1. run'[c] = q
        BY <2>3, <2>8 DEF AfterPost
      <3>2. PostedOf(run[c])'
        BY <1>4, <1>5, <2>2, <2>6, <2>7, <3>1 DEF PostedOf, InHand
      <3>3. QED
        BY <2>1, <2>2, <3>1, <3>2
    <2>9. ASSUME q.days = {}, ~q.failed PROVE Loads
      <3>1. run'[c] = [q EXCEPT !.at = "mark"]
        BY <2>3, <2>9 DEF AfterPost
      <3>2. run'[c] \in Runs
        BY <2>1, <3>1 DEF Runs, Steps
      <3>3. /\ run'[c].at = "mark" /\ run'[c].days = {} /\ run'[c].failed = q.failed
            /\ run'[c].error = q.error /\ run'[c].asked = q.asked /\ run'[c].queue = q.queue
            /\ run'[c].file = q.file /\ run'[c].tainted = q.tainted
            /\ run'[c].misled = q.misled
        BY <2>1, <2>9, <3>1 DEF Runs
      <3>4. PostedOf(run[c])'
        BY <1>4, <2>2, <2>6, <2>7, <2>9, <3>3 DEF PostedOf, InHand
      <3>5. QED
        BY <3>2, <3>3, <3>4
    <2>10. ASSUME q.days = {}, q.failed PROVE Loads
      <3>1. run'[c] = [q EXCEPT !.at = "fetch", !.file = None, !.failed = FALSE]
        BY <2>3, <2>10 DEF AfterPost
      <3>2. run'[c] \in Runs
        BY <2>1, <3>1 DEF Runs, Steps
      <3>3. run'[c].at = "fetch" /\ run'[c].error
        BY <1>5, <2>1, <2>2, <2>10, <3>1 DEF Runs
      <3>4. PostedOf(run[c])'
        BY <3>3 DEF PostedOf, InHand
      <3>5. QED
        BY <3>2, <3>3, <3>4
    <2>11. Loads
      BY <2>1, <2>2, <2>8, <2>9, <2>10 DEF Runs
    <2>12. CoveredBy(run[c])' /\ ~Consolidates(run'[c]) /\ ~LoadsBatch(run'[c])
      BY <2>11 DEF CoveredBy, Consolidates, LoadsBatch
    <2>13. events' \subseteq Files \X Days \X Days
      BY <1>2, <1>4, <1>5
    <2>14. ProcessedIsIndexed'
      BY <1>1, <2>4 DEF IInv, ProcessedIsIndexed
    <2>15. LeavesOthers(c)
      BY <1>1, <1>5, <2>3 DEF LeavesOthers
    <2>16. QED
      BY <1>1, <1>2, <1>5, <2>3, <2>11, <2>12, <2>13, <2>14, <2>15, CommandStep
  <1>6. CASE Post(c)
    <2>1. /\ events' = events \cup {<<run[c].file, d, d>>}
          /\ Becomes(c, AfterPost([run[c] EXCEPT !.days = @ \ {d}]))
      BY <1>3, <1>6 DEF Post
    <2>2. /\ run[c].failed \in BOOLEAN /\ run[c].error \in BOOLEAN
          /\ [run[c] EXCEPT !.days = @ \ {d}] =
               [run[c] EXCEPT !.days = @ \ {d}, !.failed = run[c].failed, !.error = run[c].error]
      BY DEF Runs
    <2>3. QED
      BY <1>4, <1>5, <2>1, <2>2
  <1>7. CASE PostRefused(c)
    <2>1. /\ events' \in {events, events \cup {<<run[c].file, d, d>>}}
          /\ Becomes(c, AfterPost([run[c] EXCEPT
                                      !.days = @ \ {d}, !.failed = TRUE, !.error = TRUE]))
      BY <1>3, <1>7 DEF PostRefused
    <2>2. QED
      BY <1>5, <2>1
  <1>8. QED
    BY <1>6, <1>7

(* What the flags of the files that were hit are set to.                   *)
LEMMA MarkedFacts ==
    ASSUME flag \in [Files -> Flags], NEW hit \in SUBSET Known, NEW r, r.tainted \in BOOLEAN
    PROVE  /\ Marked(hit, r) \in [Files -> Flags]
           /\ \A f \in Files :
                 /\ f \notin hit => Marked(hit, r)[f] = flag[f]
                 /\ f \in hit => Marked(hit, r)[f] = (IF r.tainted THEN "doubtful" ELSE "backed")
                 /\ flag[f] # "absent" => Marked(hit, r)[f] # "absent"
  BY DEF Marked, Known, Flags

(* Inventory__Manifest__Updater: the flag of a file is set when all its    *)
(* groups are in.                                                          *)
LEMMA MarkKeeps ==
    ASSUME IInv, NEW c \in Commands, content' = content, Mark(c)
    PROVE  IInv'
  <1>0. /\ run \in [Commands -> Runs] /\ run[c] \in Runs
        /\ batches \in Nat /\ content \in [Files -> SUBSET Days]
    BY CommandTypes
  <1> USE <1>0
  <1>1. /\ run[c].at = "mark" /\ UNCHANGED artefactVars /\ batch' = batch /\ events' = events
    BY DEF Mark, At
  <1>2. /\ flag \in [Files -> Flags] /\ view \in [Files -> Flags]
        /\ batch \in [Files -> 0..batches]
        /\ events \subseteq Files \X Days \X Days
        /\ \A f \in Files : batch[f] # 0 => flag[f] # "absent"
    BY DEF IInv, TypeOK
  <1>3. PICK hit \in SUBSET (Updatable \cap {run[c].file}), refused \in BOOLEAN :
          LET r == [run[c] EXCEPT !.at = "fetch", !.file = None, !.error = @ \/ refused] IN
          /\ flag' = Marked(hit, r)
          /\ Shows(hit, refused)
          /\ IF hit # {} /\ r.tainted THEN Concerns(c, r, FALSE) ELSE Becomes(c, r)
    BY DEF Mark
  <1> DEFINE r == [run[c] EXCEPT !.at = "fetch", !.file = None, !.error = @ \/ refused]
  <1>4. r \in Runs
    BY DEF Runs, Steps
  <1>5. /\ r.at = "fetch" /\ r.asked = run[c].asked /\ r.queue = run[c].queue
        /\ r.tainted = run[c].tainted /\ r.misled = run[c].misled
        /\ r.error = (run[c].error \/ refused)
    BY DEF Runs
  <1>6. /\ flag' = Marked(hit, r) /\ Shows(hit, refused)
        /\ IF hit # {} /\ r.tainted THEN Concerns(c, r, FALSE) ELSE Becomes(c, r)
    BY <1>3
  <1> HIDE DEF r
  <1>7. run'[c] = r
    BY <1>6 DEF Concerns, Becomes
  <1>8. /\ run[c].file \in Files /\ (r.tainted \/ Indexed(run[c].file)) /\ (r.tainted => r.misled)
    BY <1>1, <1>5, CommandTypes DEF PostedOf, InHand, Indexed
  <1>9. r.tainted \in BOOLEAN /\ hit \subseteq Known /\ hit \subseteq {run[c].file}
    BY <1>4 DEF Runs, Updatable
  <1>10. /\ flag' \in [Files -> Flags]
         /\ \A f \in Files :
               /\ f \notin hit => flag'[f] = flag[f]
               /\ f \in hit => flag'[f] = (IF r.tainted THEN "doubtful" ELSE "backed")
               /\ flag[f] # "absent" => flag'[f] # "absent"
    <2>1. flag' = Marked(hit, r)
      BY <1>6
    <2>2. hit \in SUBSET Known /\ flag \in [Files -> Flags]
      BY <1>2, <1>9
    <2>3. QED
      BY <1>9, <2>1, <2>2, MarkedFacts
  <1>11. \A f \in Files : Indexed(f) => Indexed(f)'
    BY <1>1, IndexedStays
  <1>12. /\ view' \in [Files -> Flags]
         /\ \A f \in Files : view'[f] \in {view[f], flag'[f]}
    BY <1>2, <1>6, <1>10, ShownFlags
  <1>13. ProcessedIsIndexed'
    BY <1>1, <1>8, <1>9, <1>10, <1>11, <1>12, FlagsKept DEF IInv
  <1>14. run[c].asked \subseteq Files
    BY DEF Runs
  <1>15. PostedOf(run[c])'
    BY <1>1, <1>5, <1>7, <1>8, <1>11, <1>14, CommandTypes DEF PostedOf, InHand
  <1>16. CoveredBy(run[c])' /\ ~Consolidates(run'[c]) /\ ~LoadsBatch(run'[c])
    BY <1>5, <1>7 DEF CoveredBy, Consolidates, LoadsBatch
  <1>17. LeavesOthers(c)
    <2>1. CASE hit # {} /\ r.tainted
      BY <1>1, <1>6, <1>7, <2>1 DEF LeavesOthers
    <2>2. CASE ~(hit # {} /\ r.tainted)
      <3>1. \A f \in hit : Indexed(f)'
        BY <1>8, <1>9, <1>11, <2>2
      <3>2. run' = [run EXCEPT ![c] = run'[c]]
        BY <1>6, <1>7, <2>2 DEF Becomes
      <3>3. QED
        BY <1>1, <1>10, <3>1, <3>2 DEF LeavesOthers
    <2>3. QED
      BY <2>1, <2>2
  <1>18. QED
    BY <1>1, <1>2, <1>4, <1>7, <1>10, <1>12, <1>13, <1>15, <1>16, <1>17, CommandStep

(* Inventory__Loader.load: every document posted is unprocessed again.     *)
LEMMA PostInventoryKeeps ==
    ASSUME IInv, NEW c \in Commands, content' = content, PostInventory(c)
    PROVE  IInv'
  <1>0. /\ run \in [Commands -> Runs] /\ run[c] \in Runs
        /\ batches \in Nat /\ content \in [Files -> SUBSET Days]
    BY CommandTypes
  <1> USE <1>0
  <1>1. /\ run[c].at = "idle" /\ UNCHANGED artefactVars /\ events' = events /\ view' = view
    BY DEF PostInventory, At
  <1>2. /\ flag \in [Files -> Flags] /\ view \in [Files -> Flags]
        /\ batch \in [Files -> 0..batches]
        /\ events \subseteq Files \X Days \X Days
        /\ \A f \in Files : batch[f] # 0 => flag[f] # "absent"
    BY DEF IInv, TypeOK
  <1>3. PICK listed \in SUBSET Files, refused \in BOOLEAN, posted \in SUBSET Files :
          /\ posted # listed => refused
          /\ flag' = [f \in Files |-> IF f \in posted THEN "unprocessed" ELSE flag[f]]
          /\ batch' = [f \in Files |-> IF f \in posted THEN 0 ELSE batch[f]]
          /\ run' \in {run, [run EXCEPT ![c] =
                         [Begin("search") EXCEPT !.asked = listed, !.error = refused]]}
    BY DEF PostInventory, Overwritten
  <1>4. /\ flag' \in [Files -> Flags] /\ batch' \in [Files -> 0..batches]
        /\ \A f \in Files : /\ batch'[f] \in {0, batch[f]}
                            /\ batch'[f] # 0 => flag'[f] # "absent"
                            /\ flag[f] = "unprocessed" => flag'[f] = "unprocessed"
                            /\ flag'[f] = "backed" => flag[f] = "backed"
    BY <1>2, <1>3 DEF Flags
  <1>5. ProcessedIsIndexed'
    BY <1>1, <1>4 DEF IInv, ProcessedIsIndexed, Indexed
  <1>6. CASE run' = run
    <2>1. run'[c] = run[c] /\ run' = [run EXCEPT ![c] = run'[c]]
      BY <1>6
    <2>2. /\ PostedOf(run[c])' /\ CoveredBy(run[c])'
          /\ ~Consolidates(run'[c]) /\ ~LoadsBatch(run'[c])
      BY <1>1, <2>1, RelyOnNothing
    <2>3. LeavesOthers(c)
      BY <1>1, <1>4, <2>1 DEF LeavesOthers
    <2>4. run'[c] \in Runs
      BY <2>1
    <2>5. QED
      BY <1>1, <1>2, <1>4, <1>5, <2>2, <2>3, <2>4, CommandStep
  <1>7. CASE run' = [run EXCEPT ![c] =
                       [Begin("search") EXCEPT !.asked = listed, !.error = refused]]
    <2>1. Begin("search") \in Runs /\ Begin("search").at = "search"
      BY RestTypes DEF Steps
    <2>2. run'[c] = [Begin("search") EXCEPT !.asked = listed, !.error = refused]
      BY <1>7
    <2>3. run'[c] \in Runs
      BY <2>1, <2>2 DEF Runs
    <2>4. run'[c].at = "search" /\ run'[c].asked = listed /\ run'[c].error = refused
      BY <2>1, <2>2 DEF Runs
    <2>5. refused \/ \A f \in listed : flag'[f] = "unprocessed"
      BY <1>3
    <2>6. PostedOf(run[c])'
      BY <2>4, <2>5 DEF PostedOf, InHand
    <2>7. CoveredBy(run[c])' /\ ~Consolidates(run'[c]) /\ ~LoadsBatch(run'[c])
      BY <2>4 DEF CoveredBy, Consolidates, LoadsBatch
    <2>8. run' = [run EXCEPT ![c] = run'[c]]
      BY <1>7
    <2>9. LeavesOthers(c)
      BY <1>1, <1>4, <2>8 DEF LeavesOthers
    <2>10. QED
      BY <1>1, <1>2, <1>4, <1>5, <2>3, <2>6, <2>7, <2>9, CommandStep
  <1>8. QED
    BY <1>3, <1>6, <1>7

(* The wipers: what they have not been seen to do excuses the others.      *)
LEMMA WipeKeeps ==
    ASSUME IInv, NEW c \in Commands, content' = content, Wipe(c)
    PROVE  IInv'
  <1>0. /\ run \in [Commands -> Runs] /\ run[c] \in Runs
        /\ batches \in Nat /\ content \in [Files -> SUBSET Days]
    BY CommandTypes
  <1> USE <1>0
  <1>1. /\ flag \in [Files -> Flags] /\ view \in [Files -> Flags]
        /\ batch \in [Files -> 0..batches]
        /\ events \subseteq Files \X Days \X Days
        /\ \A f \in Files : batch[f] # 0 => flag[f] # "absent"
    BY DEF IInv, TypeOK
  <1>2. ASSUME NEW r \in Runs, r.at \in {"idle", "drop", "reset"}, Becomes(c, r),
               UNCHANGED <<inventoryVars, events, artefactVars>>
        PROVE  IInv'
    <2>1. run'[c] = r /\ run' = [run EXCEPT ![c] = run'[c]]
      BY <1>2 DEF Becomes
    <2>2. QED
      BY <1>2, <2>1, RelyOnNothing, QuietStep
  <1>3. Rest \in Runs /\ Rest.at = "idle"
    BY RestTypes
  <1>4. \A i \in Days : /\ AfterDrop(run[c], i) \in Runs
                        /\ AfterDrop(run[c], i).at \in {"drop", "reset"}
    BY DEF AfterDrop, Runs, Steps
  <1>5. run[c].days \subseteq Days
    BY DEF Runs
  <1>6. CASE ListIndices(c)
    <2>1. PICK days \in {{}, {e[3] : e \in events}} :
            Becomes(c, [Begin(IF days = {} THEN "reset" ELSE "drop") EXCEPT !.days = days])
      BY <1>6 DEF ListIndices
    <2>2. days \subseteq Days
      BY <1>1
    <2> DEFINE step == IF days = {} THEN "reset" ELSE "drop"
    <2>3. step \in {"drop", "reset"} /\ step \in Steps
      BY DEF Steps
    <2> HIDE DEF step
    <2>4. Begin(step) \in Runs /\ Begin(step).at = step
      BY <2>3, RestTypes
    <2>5. /\ [Begin(step) EXCEPT !.days = days] \in Runs
          /\ [Begin(step) EXCEPT !.days = days].at = step
      BY <2>2, <2>4 DEF Runs
    <2>6. Becomes(c, [Begin(step) EXCEPT !.days = days])
      BY <2>1 DEF step
    <2>7. UNCHANGED <<inventoryVars, events, artefactVars>>
      BY <1>6 DEF ListIndices
    <2>8. QED
      BY <1>2, <2>3, <2>5, <2>6, <2>7
  <1>7. CASE Drop(c)
    <2>1. PICK i \in run[c].days :
            /\ events' = {e \in events : e[3] # i}
            /\ flag' = Doubted(flag) /\ view' = Doubted(view)
            /\ Concerns(c, AfterDrop(run[c], i), TRUE)
      BY <1>7 DEF Drop
    <2>2. run'[c] = AfterDrop(run[c], i)
      BY <2>1 DEF Concerns
    <2>3. batch' = batch /\ UNCHANGED artefactVars
      BY <1>7 DEF Drop
    <2>4. /\ flag' \in [Files -> Flags] /\ view' \in [Files -> Flags]
          /\ \A f \in Files : /\ flag'[f] # "backed" /\ view'[f] # "backed"
                              /\ flag[f] # "absent" => flag'[f] # "absent"
      BY <1>1, <2>1 DEF Doubted, Flags
    <2>5. ProcessedIsIndexed'
      BY <2>4 DEF ProcessedIsIndexed
    <2>6. events' \subseteq Files \X Days \X Days
      BY <1>1, <2>1
    <2>7. run'[c] \in Runs /\ run'[c].at \in {"drop", "reset"}
      BY <1>4, <1>5, <2>1, <2>2
    <2>8. /\ PostedOf(run[c])' /\ CoveredBy(run[c])'
          /\ ~Consolidates(run'[c]) /\ ~LoadsBatch(run'[c])
      BY <2>7, RelyOnNothing
    <2>9. LeavesOthers(c)
      BY <2>1, <2>2 DEF LeavesOthers
    <2>10. QED
      BY <1>1, <2>3, <2>4, <2>5, <2>6, <2>7, <2>8, <2>9, CommandStep
  <1>8. CASE DropRefused(c)
    BY <1>2, <1>4, <1>5, <1>8 DEF DropRefused
  <1>9. CASE Reset(c)
    <2>1. PICK hit \in SUBSET (Updatable \cap Processed), refused \in BOOLEAN :
            /\ flag' = [f \in Files |-> IF f \in hit THEN "unprocessed" ELSE flag[f]]
            /\ Shows(hit, refused)
      BY <1>9 DEF Reset
    <2>2. /\ run'[c] = Rest /\ run' = [run EXCEPT ![c] = run'[c]]
          /\ batch' = batch /\ events' = events /\ UNCHANGED artefactVars
      BY <1>9 DEF Reset, Becomes
    <2>3. /\ flag' \in [Files -> Flags]
          /\ \A f \in Files : /\ flag'[f] = "backed" => flag[f] = "backed"
                              /\ flag[f] # "absent" => flag'[f] # "absent"
                              /\ flag[f] = "unprocessed" => flag'[f] = "unprocessed"
      BY <1>1, <2>1 DEF Flags
    <2>4. /\ view' \in [Files -> Flags]
          /\ \A f \in Files : view'[f] \in {view[f], flag'[f]}
      BY <1>1, <2>1, <2>3, ShownFlags
    <2>5. ProcessedIsIndexed'
      BY <2>2, <2>3, <2>4, FlagsKept DEF IInv
    <2>6. /\ PostedOf(run[c])' /\ CoveredBy(run[c])'
          /\ ~Consolidates(run'[c]) /\ ~LoadsBatch(run'[c])
      BY <1>3, <2>2, RelyOnNothing
    <2>7. LeavesOthers(c)
      BY <2>2, <2>3 DEF LeavesOthers
    <2>8. QED
      BY <1>1, <1>3, <2>2, <2>3, <2>4, <2>5, <2>6, <2>7, CommandStep
  <1>10. CASE WipeInventory(c)
    <2>1. /\ flag' = [f \in Files |-> "absent"] /\ view' = flag'
          /\ batch' = [f \in Files |-> 0]
          /\ Concerns(c, Rest, FALSE) /\ events' = events /\ UNCHANGED artefactVars
      BY <1>10 DEF WipeInventory
    <2>2. run'[c] = Rest
      BY <2>1 DEF Concerns
    <2>3. /\ flag' \in [Files -> Flags] /\ view' \in [Files -> Flags]
          /\ batch' \in [Files -> 0..batches]
          /\ \A f \in Files : flag'[f] # "backed" /\ view'[f] # "backed" /\ batch'[f] = 0
      BY <2>1 DEF Flags
    <2>4. ProcessedIsIndexed'
      BY <2>3 DEF ProcessedIsIndexed
    <2>5. /\ PostedOf(run[c])' /\ CoveredBy(run[c])'
          /\ ~Consolidates(run'[c]) /\ ~LoadsBatch(run'[c])
      BY <1>3, <2>2, RelyOnNothing
    <2>6. LeavesOthers(c)
      BY <2>1, <2>2 DEF LeavesOthers
    <2>7. QED
      BY <1>1, <1>3, <2>1, <2>2, <2>3, <2>4, <2>5, <2>6, CommandStep
  <1>11. QED
    BY <1>6, <1>7, <1>8, <1>9, <1>10 DEF Wipe

(* _load_from_consolidated: what it reads, posts and marks.                *)
LEMMA ReadKeeps ==
    ASSUME IInv, NEW c \in Commands, content' = content, ReadManifest(c) \/ ReadEvents(c)
    PROVE  IInv'
  <1>0. /\ run \in [Commands -> Runs] /\ run[c] \in Runs
        /\ batches \in Nat /\ content \in [Files -> SUBSET Days]
    BY CommandTypes
  <1> USE <1>0
  <1>1. /\ UNCHANGED <<inventoryVars, events, artefactVars>> /\ batch' = batch
    BY DEF ReadManifest, ReadEvents, inventoryVars
  <1>2. CASE ReadManifest(c)
    <2>1. manifest # 0 /\ manifest \in 0..batches
      BY <1>2 DEF ReadManifest, IInv, TypeOK
    <2>2. Begin("readEvents") \in Runs /\ Begin("readEvents").at = "readEvents"
      BY RestTypes DEF Steps
    <2>3. run'[c] = [Begin("readEvents") EXCEPT !.id = manifest]
      BY <1>2 DEF ReadManifest, Becomes
    <2>4. run'[c] \in Runs /\ run'[c].at = "readEvents" /\ run'[c].id = manifest
      BY <2>1, <2>2, <2>3 DEF Runs
    <2>5. PostedOf(run[c])' /\ CoveredBy(run[c])' /\ ~Consolidates(run'[c])
      BY <2>4 DEF PostedOf, InHand, CoveredBy, Consolidates
    <2>6. run' = [run EXCEPT ![c] = run'[c]]
      BY <1>2, <2>3 DEF ReadManifest, Becomes
    <2>7. QED
      BY <1>1, <2>1, <2>4, <2>5, <2>6, QuietStep
  <1>3. CASE ReadEvents(c)
    <2>1. run[c].at = "readEvents" /\ LoadsBatch(run[c]) /\ run[c].id # 0
      BY <1>3 DEF ReadEvents, At, LoadsBatch, IInv, IdsAreFresh
    <2>2. artefact.files \subseteq Files
      BY DEF IInv, TypeOK
    <2> DEFINE taint == run[c].tainted \/ artefact.id # run[c].id
    <2>3. run'[c] = [run[c] EXCEPT !.at = "postAll", !.queue = artefact.files, !.tainted = taint]
      BY <1>3 DEF ReadEvents, Becomes
    <2>4. run' = [run EXCEPT ![c] = run'[c]]
      BY <1>3, <2>3 DEF ReadEvents, Becomes
    <2>5. taint \in BOOLEAN
      OBVIOUS
    <2> HIDE DEF taint
    <2>6. run'[c] \in Runs
      BY <2>2, <2>3, <2>5 DEF Runs, Steps
    <2>7. /\ run'[c].at = "postAll" /\ run'[c].queue = artefact.files
          /\ run'[c].id = run[c].id /\ run'[c].tainted = taint
      BY <2>3 DEF Runs
    <2>8. ASSUME artefact.id = run[c].id PROVE Stamped(run[c].id)' \subseteq artefact.files
      <3> SUFFICES ASSUME NEW f \in Files,
                          \/ batch[f] = run[c].id
                          \/ \E x \in Commands \ {c} : /\ Consolidates(run[x])
                                                      /\ run[x].id = run[c].id
                                                      /\ f \in run[x].queue
                   PROVE  f \in artefact.files
        BY <1>1, <2>4, <2>7 DEF Stamped, Consolidates
      <3>1. CASE batch[f] = run[c].id
        BY <2>1, <2>8, <3>1 DEF IInv, StampsAreCovered
      <3>2. ASSUME NEW x \in Commands \ {c},
                   Consolidates(run[x]), run[x].id = run[c].id, f \in run[x].queue
            PROVE  f \in artefact.files
        <4>1. ~Writes(run[x])
          BY <2>1, <3>2 DEF IInv, IdsAreFresh, Unseen
        <4>2. run[x].at = "stamp"
          BY <3>2, <4>1 DEF Consolidates, Writes
        <4>3. QED
          BY <2>8, <3>2, <4>2 DEF IInv, StampsAreCovered, At
      <3>3. QED
        BY <3>1, <3>2
    <2>9. CoveredBy(run[c])'
      BY <2>7, <2>8 DEF CoveredBy, taint
    <2>10. PostedOf(run[c])' /\ ~Consolidates(run'[c])
      BY <2>7 DEF PostedOf, InHand, Consolidates
    <2>11. QED
      BY <1>1, <2>1, <2>4, <2>6, <2>7, <2>9, <2>10, QuietStep
  <1>4. QED
    BY <1>2, <1>3

(* One bulk request with all the events of the artefact.                   *)
LEMMA PostAllKeeps ==
    ASSUME IInv, NEW c \in Commands, content' = content, PostAll(c) \/ PostAllRefused(c)
    PROVE  IInv'
  <1>0. /\ run \in [Commands -> Runs] /\ run[c] \in Runs
        /\ batches \in Nat /\ content \in [Files -> SUBSET Days]
    BY CommandTypes
  <1> USE <1>0
  <1>1. /\ UNCHANGED artefactVars /\ flag' = flag /\ view' = view /\ batch' = batch
        /\ run[c].at = "postAll" /\ LoadsBatch(run[c]) /\ run[c].id # 0
    BY DEF PostAll, PostAllRefused, inventoryVars, At, LoadsBatch, IInv, IdsAreFresh
  <1>2. /\ flag \in [Files -> Flags] /\ view \in [Files -> Flags]
        /\ batch \in [Files -> 0..batches]
        /\ events \subseteq Files \X Days \X Days
        /\ \A f \in Files : batch[f] # 0 => flag[f] # "absent"
    BY DEF IInv, TypeOK
  <1> DEFINE posting(files) == UNION {{<<f, d, "day">> : d \in content[f]} : f \in files}
  <1>3. run[c].queue \subseteq Files
    BY DEF Runs
  <1>4. \A files \in SUBSET Files : posting(files) \subseteq Files \X Days \X Days
    BY DEF Days
  <1>5. ASSUME NEW files \in SUBSET run[c].queue, events' = events \cup posting(files),
               NEW taint \in BOOLEAN, run[c].tainted => taint, taint \/ files = run[c].queue,
               Becomes(c, [run[c] EXCEPT !.at = "markAll", !.queue = {}, !.tainted = taint])
        PROVE  IInv'
    <2>1. /\ run'[c] = [run[c] EXCEPT !.at = "markAll", !.queue = {}, !.tainted = taint]
          /\ run' = [run EXCEPT ![c] = run'[c]]
      BY <1>5 DEF Becomes
    <2>2. /\ run'[c] \in Runs /\ run'[c].at = "markAll" /\ run'[c].id = run[c].id
          /\ run'[c].tainted = taint
      BY <2>1 DEF Runs, Steps
    <2>3. events \subseteq events' /\ events' \subseteq Files \X Days \X Days
      BY <1>2, <1>3, <1>4, <1>5
    <2>4. \A f \in files : \A d \in content[f] : <<f, d, "day">> \in events'
      BY <1>5
    <2>5. \A f \in files : Indexed(f)'
      BY <2>4 DEF Indexed, Days
    <2>6. Stamped(run[c].id)' \subseteq Stamped(run[c].id)
      BY <1>1, <2>1, <2>2 DEF Stamped, Consolidates
    <2>7. taint \/ Stamped(run[c].id) \subseteq run[c].queue
      BY <1>1, <1>5, CommandTypes DEF CoveredBy
    <2>8. CoveredBy(run[c])'
      BY <1>5, <2>2, <2>5, <2>6, <2>7 DEF CoveredBy
    <2>9. PostedOf(run[c])' /\ ~Consolidates(run'[c])
      BY <2>2 DEF PostedOf, InHand, Consolidates
    <2>10. \A f \in Files : Indexed(f) => Indexed(f)'
      BY <2>3, IndexedStays
    <2>11. ProcessedIsIndexed'
      BY <1>1, <2>10 DEF IInv, ProcessedIsIndexed
    <2>12. LeavesOthers(c)
      BY <1>1, <2>1, <2>3 DEF LeavesOthers
    <2> HIDE DEF posting
    <2>13. QED
      BY <1>1, <1>2, <2>1, <2>2, <2>3, <2>8, <2>9, <2>11, <2>12, CommandStep
  <1>6. CASE PostAll(c)
    <2>1. /\ events' = events \cup posting(run[c].queue)
          /\ Becomes(c, [run[c] EXCEPT !.at = "markAll", !.queue = {}])
      BY <1>6 DEF PostAll
    <2>2. /\ run[c].tainted \in BOOLEAN
          /\ [run[c] EXCEPT !.at = "markAll", !.queue = {}] =
               [run[c] EXCEPT !.at = "markAll", !.queue = {}, !.tainted = run[c].tainted]
      BY DEF Runs
    <2> HIDE DEF posting
    <2>3. QED
      BY <1>5, <2>1, <2>2
  <1>7. CASE PostAllRefused(c)
    <2>1. PICK posted \in SUBSET run[c].queue : events' = events \cup posting(posted)
      BY <1>7 DEF PostAllRefused
    <2>2. Becomes(c, [run[c] EXCEPT !.at = "markAll", !.queue = {}, !.tainted = TRUE])
      BY <1>7 DEF PostAllRefused
    <2> HIDE DEF posting
    <2>3. QED
      BY <1>5, <2>1, <2>2
  <1>8. QED
    BY <1>6, <1>7

(* The files of the consolidation are marked by its run id.                *)
LEMMA MarkAllKeeps ==
    ASSUME IInv, NEW c \in Commands, content' = content, MarkAll(c)
    PROVE  IInv'
  <1>0. /\ run \in [Commands -> Runs] /\ run[c] \in Runs
        /\ batches \in Nat /\ content \in [Files -> SUBSET Days]
    BY CommandTypes
  <1> USE <1>0
  <1>1. /\ run[c].at = "markAll" /\ UNCHANGED artefactVars /\ batch' = batch /\ events' = events
    BY DEF MarkAll, At
  <1>2. /\ flag \in [Files -> Flags] /\ view \in [Files -> Flags]
        /\ batch \in [Files -> 0..batches]
        /\ events \subseteq Files \X Days \X Days
        /\ \A f \in Files : batch[f] # 0 => flag[f] # "absent"
    BY DEF IInv, TypeOK
  <1>3. PICK hit \in SUBSET {f \in Updatable : batch[f] = run[c].id}, refused \in BOOLEAN :
          /\ flag' = Marked(hit, run[c])
          /\ Shows(hit, refused)
          /\ IF hit # {} /\ run[c].tainted THEN Concerns(c, Rest, FALSE) ELSE Becomes(c, Rest)
    BY DEF MarkAll
  <1>4. hit \subseteq Known /\ hit \subseteq Files /\ run[c].tainted \in BOOLEAN
    BY DEF Known, Updatable, Runs
  <1>5. run[c].tainted \/ \A f \in hit : Indexed(f)
    BY <1>1, <1>3, <1>4, CommandTypes DEF CoveredBy, Stamped
  <1>6. /\ flag' \in [Files -> Flags]
        /\ \A f \in Files :
              /\ f \notin hit => flag'[f] = flag[f]
              /\ f \in hit => flag'[f] = (IF run[c].tainted THEN "doubtful" ELSE "backed")
              /\ flag[f] # "absent" => flag'[f] # "absent"
    <2>1. flag' = Marked(hit, run[c])
      BY <1>3
    <2>2. hit \in SUBSET Known /\ flag \in [Files -> Flags]
      BY <1>2, <1>4
    <2>3. QED
      BY <1>4, <2>1, <2>2, MarkedFacts
  <1>7. \A f \in Files : Indexed(f) => Indexed(f)'
    BY <1>1, IndexedStays
  <1>8. /\ view' \in [Files -> Flags]
        /\ \A f \in Files : view'[f] \in {view[f], flag'[f]}
    BY <1>2, <1>3, <1>6, ShownFlags
  <1>9. ProcessedIsIndexed'
    BY <1>1, <1>5, <1>6, <1>7, <1>8, FlagsKept DEF IInv
  <1>10. run'[c] = Rest /\ Rest \in Runs /\ Rest.at = "idle"
    BY <1>3, RestTypes DEF Concerns, Becomes
  <1>11. /\ PostedOf(run[c])' /\ CoveredBy(run[c])'
         /\ ~Consolidates(run'[c]) /\ ~LoadsBatch(run'[c])
    BY <1>10, RelyOnNothing
  <1>12. LeavesOthers(c)
    <2>1. CASE hit # {} /\ run[c].tainted
      BY <1>1, <1>3, <1>10, <2>1 DEF LeavesOthers
    <2>2. CASE ~(hit # {} /\ run[c].tainted)
      <3>1. \A f \in hit : Indexed(f)'
        BY <1>4, <1>5, <1>7, <2>2
      <3>2. run' = [run EXCEPT ![c] = run'[c]]
        BY <1>3, <1>10, <2>2 DEF Becomes
      <3>3. QED
        BY <1>1, <1>6, <3>1, <3>2 DEF LeavesOthers
    <2>3. QED
      BY <2>1, <2>2
  <1>13. QED
    BY <1>1, <1>2, <1>6, <1>8, <1>9, <1>10, <1>11, <1>12, CommandStep

(* A consolidation under way relies on no flag and no event.               *)
LEMMA ConsolidationKeepsLoads ==
    ASSUME IInv, NEW c \in Commands, content' = content, flag' = flag, view' = view,
           events' = events,
           run' = [run EXCEPT ![c] = run'[c]],
           Consolidates(run'[c]) \/ run'[c].at = "idle"
    PROVE  ProcessedIsIndexed' /\ PostedSoFar'
  <1>1. ProcessedIsIndexed'
    BY DEF IInv, ProcessedIsIndexed, Indexed
  <1>2. PostedOf(run[c])'
    BY DEF PostedOf, InHand, Consolidates
  <1>3. LeavesOthers(c)
    BY DEF LeavesOthers
  <1>4. QED
    BY <1>1, <1>2, <1>3, OthersPosted DEF IInv

(* Consolidate__Loader.load: a new run id is one that nobody has seen.     *)
LEMMA GatherKeeps ==
    ASSUME IInv, NEW c \in Commands, content' = content, Gather(c)
    PROVE  IInv'
  <1>0. /\ run \in [Commands -> Runs] /\ run[c] \in Runs
        /\ batches \in Nat /\ content \in [Files -> SUBSET Days]
    BY CommandTypes
  <1> USE <1>0
  <1>1. /\ batches < MaxBatches /\ batches' = batches + 1 /\ run[c].at = "idle"
        /\ flag' = flag /\ view' = view /\ batch' = batch /\ events' = events
        /\ artefact' = artefact /\ manifest' = manifest
    BY DEF Gather, inventoryVars, At
  <1>2. PICK read \in SUBSET Files :
          Becomes(c, [Begin("putEvents") EXCEPT !.queue = read, !.id = batches + 1])
    BY DEF Gather, NewId
  <1>3. Begin("putEvents") \in Runs /\ Begin("putEvents").at = "putEvents"
    BY RestTypes DEF Steps
  <1>4. /\ run'[c] = [Begin("putEvents") EXCEPT !.queue = read, !.id = batches + 1]
        /\ run' = [run EXCEPT ![c] = run'[c]]
    BY <1>2 DEF Becomes
  <1>5. Runs \subseteq Runs'
    BY <1>1 DEF Runs
  <1>6. run'[c].at = "putEvents" /\ run'[c].id = batches + 1
    BY <1>3, <1>4 DEF Runs
  <1>7. run'[c] \in Runs'
    <2>1. Begin("putEvents") \in Runs' /\ batches + 1 \in 0..batches'
      BY <1>1, <1>3, <1>5
    <2>2. QED
      BY <1>4, <2>1 DEF Runs
  <1>8. TypeOK'
    <2>1. run' \in [Commands -> Runs']
      BY <1>4, <1>5, <1>7
    <2>2. batches' \in 0..MaxBatches /\ 0..batches \subseteq 0..batches'
      BY <1>1, PipelineAssumption
    <2>3. batch' \in [Files -> 0..batches']
      BY <1>1, <2>2 DEF IInv, TypeOK
    <2>4. artefact' \in [id : 0..batches', files : SUBSET Files] /\ manifest' \in 0..batches'
      BY <1>1, <2>2 DEF IInv, TypeOK
    <2>5. QED
      BY <1>1, <2>1, <2>2, <2>3, <2>4 DEF IInv, TypeOK
  <1>9. ProcessedIsIndexed' /\ PostedSoFar'
    BY <1>1, <1>4, <1>6, ConsolidationKeepsLoads DEF Consolidates
  <1>10. \A x \in Commands \ {c} : run'[x] = run[x] /\ run[x].id # batches + 1
    BY <1>4 DEF Runs
  <1>11. /\ \A f \in Files : batch[f] # batches + 1
         /\ manifest # batches + 1 /\ artefact.id # batches + 1
    BY DEF IInv, TypeOK
  <1>12. ~LoadsBatch(run'[c]) /\ Consolidates(run'[c])
    BY <1>6 DEF LoadsBatch, Consolidates
  <1>13. Unseen(run[c].id)'
    BY <1>1, <1>6, <1>10, <1>11, <1>12 DEF Unseen
  <1>14. ASSUME NEW x \in Commands \ {c}, Writes(run[x]) PROVE Unseen(run[x].id)'
    BY <1>1, <1>10, <1>12, <1>14 DEF IInv, IdsAreFresh, Unseen
  <1>15. IdsAreFresh'
    <2>1. \A x \in Commands : Writes(run'[x]) => Unseen(run[x].id)'
      BY <1>10, <1>13, <1>14
    <2>2. \A x \in Commands :
            /\ Consolidates(run'[x]) \/ LoadsBatch(run'[x]) => run'[x].id # 0
            /\ Consolidates(run'[x]) =>
                  \A y \in Commands \ {x} : Consolidates(run'[y]) => run'[y].id # run'[x].id
            /\ run'[x].at = "putEvents" => artefact'.id # run'[x].id
      BY <1>1, <1>6, <1>10, <1>11 DEF IInv, IdsAreFresh, At
    <2>3. QED
      BY <2>1, <2>2 DEF IdsAreFresh, At
  <1>16. ASSUME NEW x \in Commands PROVE CoveredBy(run[x])'
    <2>1. CASE x = c
      BY <1>6, <2>1 DEF CoveredBy
    <2>2. CASE x # c
      <3>1. run'[x] = run[x] /\ run[x].id # batches + 1 /\ CoveredBy(run[x])
        BY <1>10, <2>2 DEF IInv, StampsAreCovered
      <3>2. Stamped(run[x].id)' = Stamped(run[x].id)
        <4>1. \A y \in Commands \ {c} : run'[y] = run[y]
          BY <1>10
        <4>2. ~Consolidates(run[c]) /\ run'[c].id # run[x].id
          BY <1>1, <1>6, <3>1 DEF Consolidates
        <4>3. QED
          BY <1>1, <3>1, <4>1, <4>2 DEF Stamped
      <3>3. \A f \in Files : Indexed(f) => Indexed(f)'
        BY <1>1, IndexedStays
      <3>4. Stamped(run[x].id) \subseteq Files
        BY DEF Stamped
      <3>5. QED
        BY <3>1, <3>2, <3>3, <3>4 DEF CoveredBy
    <2>3. QED
      BY <2>1, <2>2
  <1>17. StampsAreCovered'
    BY <1>1, <1>6, <1>10, <1>16 DEF IInv, StampsAreCovered, At
  <1>18. QED
    BY <1>8, <1>9, <1>15, <1>17 DEF IInv

(* Between its uploads a consolidation keeps its id and its files.         *)
LEMMA UploadKeeps ==
    ASSUME IInv, NEW c \in Commands, content' = content, PutEvents(c) \/ PutManifest(c)
    PROVE  IInv'
  <1>0. /\ run \in [Commands -> Runs] /\ run[c] \in Runs
        /\ batches \in Nat /\ content \in [Files -> SUBSET Days]
    BY CommandTypes
  <1> USE <1>0
  <1>1. /\ flag' = flag /\ view' = view /\ batch' = batch /\ events' = events
        /\ batches' = batches
    BY DEF PutEvents, PutManifest, inventoryVars
  <1>2. PICK step \in {"putManifest", "stamp"} : run'[c] = [run[c] EXCEPT !.at = step]
    BY DEF PutEvents, PutManifest, Becomes
  <1>3. run' = [run EXCEPT ![c] = run'[c]]
    BY <1>2 DEF PutEvents, PutManifest, Becomes
  <1>4. /\ run'[c] \in Runs /\ run'[c].at = step /\ run'[c].id = run[c].id
        /\ run'[c].queue = run[c].queue /\ run'[c].tainted = run[c].tainted
    BY <1>2 DEF Runs, Steps
  <1>5. /\ Consolidates(run[c]) /\ Writes(run[c]) /\ run[c].id # 0 /\ Unseen(run[c].id)
        /\ Consolidates(run'[c]) /\ ~LoadsBatch(run'[c]) /\ run'[c].at # "putEvents"
        /\ ~LoadsBatch(run[c])
    BY <1>4 DEF PutEvents, PutManifest, At, Consolidates, Writes, LoadsBatch, IInv, IdsAreFresh
  <1>6. \A x \in Commands \ {c} :
          run'[x] = run[x] /\ (Consolidates(run[x]) => run[x].id # run[c].id)
    BY <1>3, <1>5 DEF IInv, IdsAreFresh
  <1>7. \/ /\ run[c].at = "putEvents" /\ step = "putManifest" /\ manifest' = manifest
           /\ artefact' \in {artefact, [id |-> run[c].id, files |-> run[c].queue]}
        \/ /\ run[c].at = "putManifest" /\ step = "stamp" /\ artefact' = artefact
           /\ manifest' \in {manifest, run[c].id}
    BY <1>3, <1>4 DEF PutEvents, PutManifest, Becomes, At, Runs
  <1>8. /\ run[c].id \in 0..batches /\ run[c].queue \in SUBSET Files
        /\ artefact \in [id : 0..batches, files : SUBSET Files] /\ manifest \in 0..batches
    BY DEF Runs, IInv, TypeOK
  <1>9. TypeOK'
    <2>1. Runs' = Runs
      BY <1>1 DEF Runs
    <2>2. run' \in [Commands -> Runs']
      BY <1>3, <1>4, <2>1
    <2>3. artefact' \in [id : 0..batches, files : SUBSET Files] /\ manifest' \in 0..batches
      BY <1>7, <1>8
    <2>4. QED
      BY <1>1, <2>2, <2>3 DEF IInv, TypeOK
  <1>10. ProcessedIsIndexed' /\ PostedSoFar'
    BY <1>1, <1>3, <1>5, ConsolidationKeepsLoads
  <1>11. IdsAreFresh'
    <2>1. ASSUME NEW x \in Commands, Writes(run'[x]) PROVE Unseen(run[x].id)'
      <3>1. Unseen(run[x].id) /\ run'[x].id = run[x].id
        BY <1>4, <1>5, <1>6, <2>1 DEF IInv, IdsAreFresh
      <3>2. \A y \in Commands : LoadsBatch(run'[y]) => LoadsBatch(run[y]) /\ run'[y] = run[y]
        BY <1>5, <1>6
      <3>3. manifest' # run[x].id
        <4>1. CASE x = c
          BY <1>4, <1>7, <2>1, <3>1, <4>1 DEF Writes, Unseen
        <4>2. CASE x # c
          BY <1>6, <1>7, <2>1, <3>1, <4>2 DEF Writes, Consolidates, Unseen
        <4>3. QED
          BY <4>1, <4>2
      <3>4. QED
        BY <1>1, <3>1, <3>2, <3>3 DEF Unseen
    <2>2. \A x \in Commands :
            /\ Consolidates(run'[x]) \/ LoadsBatch(run'[x]) => run'[x].id # 0
            /\ Consolidates(run'[x]) =>
                  \A y \in Commands \ {x} : Consolidates(run'[y]) => run'[y].id # run'[x].id
      BY <1>4, <1>5, <1>6 DEF IInv, IdsAreFresh
    <2>3. \A x \in Commands : run'[x].at = "putEvents" => artefact'.id # run'[x].id
      BY <1>5, <1>6, <1>7 DEF IInv, IdsAreFresh, At, Consolidates
    <2>4. QED
      BY <2>1, <2>2, <2>3 DEF IdsAreFresh, At
  <1>12. ASSUME NEW x \in Commands PROVE CoveredBy(run[x])'
    <2>1. CASE x = c
      BY <1>4, <2>1 DEF CoveredBy
    <2>2. CASE x # c
      <3>1. run'[x] = run[x] /\ CoveredBy(run[x])
        BY <1>6, <2>2 DEF IInv, StampsAreCovered
      <3>2. Stamped(run[x].id)' = Stamped(run[x].id)
        BY <1>1, <1>4, <1>5, <1>6, <2>2 DEF Stamped
      <3>3. \A f \in Files : Indexed(f) => Indexed(f)'
        BY <1>1, IndexedStays
      <3>4. Stamped(run[x].id) \subseteq Files
        BY DEF Stamped
      <3>5. QED
        BY <3>1, <3>2, <3>3, <3>4 DEF CoveredBy
    <2>3. QED
      BY <2>1, <2>2
  <1>13. StampsAreCovered'
    <2>1. \A f \in Files : batch'[f] # 0 /\ batch'[f] = artefact'.id => f \in artefact'.files
      BY <1>1, <1>5, <1>7 DEF IInv, StampsAreCovered, Unseen
    <2>2. ASSUME NEW x \in Commands, run'[x].at \in {"putManifest", "stamp"},
                 artefact'.id = run'[x].id
          PROVE  run'[x].queue \subseteq artefact'.files
      <3>1. CASE artefact' = artefact
        <4>1. CASE x = c
          <5>1. run[c].at # "putEvents"
            BY <1>4, <2>2, <3>1, <4>1 DEF IInv, IdsAreFresh, At
          <5>2. QED
            BY <1>4, <1>7, <2>2, <3>1, <4>1, <5>1 DEF IInv, StampsAreCovered, At
        <4>2. CASE x # c
          BY <1>6, <2>2, <3>1, <4>2 DEF IInv, StampsAreCovered, At
        <4>3. QED
          BY <4>1, <4>2
      <3>2. CASE artefact' = [id |-> run[c].id, files |-> run[c].queue]
        <4>1. x = c
          BY <1>6, <2>2, <3>2 DEF Consolidates
        <4>2. QED
          BY <1>4, <3>2, <4>1
      <3>3. QED
        BY <1>7, <3>1, <3>2
    <2>3. QED
      BY <1>12, <2>1, <2>2 DEF StampsAreCovered, At
  <1>14. QED
    BY <1>9, <1>10, <1>11, <1>13 DEF IInv

(* Inventory__Manifest__Updater: the stamp of the consolidation.           *)
LEMMA StampKeeps ==
    ASSUME IInv, NEW c \in Commands, content' = content, Stamp(c)
    PROVE  IInv'
  <1>0. /\ run \in [Commands -> Runs] /\ run[c] \in Runs
        /\ batches \in Nat /\ content \in [Files -> SUBSET Days]
    BY CommandTypes
  <1> USE <1>0
  <1>1. /\ flag' = flag /\ view' = view /\ events' = events /\ UNCHANGED artefactVars
        /\ batches' = batches /\ artefact' = artefact /\ manifest' = manifest
        /\ run[c].at = "stamp" /\ Consolidates(run[c]) /\ ~LoadsBatch(run[c]) /\ run[c].id # 0
        /\ run[c].id \in 0..batches
    BY DEF Stamp, artefactVars, At, Consolidates, LoadsBatch, IInv, IdsAreFresh, Runs
  <1>2. PICK hit \in SUBSET Stampable(run[c]) :
          batch' = [f \in Files |-> IF f \in hit THEN run[c].id ELSE batch[f]]
    BY DEF Stamp
  <1>3. hit \subseteq Known /\ hit \subseteq run[c].queue
    BY DEF Stampable, Updatable
  <1>4. Rest \in Runs /\ Rest.at = "idle" /\ run'[c] = Rest /\ run' = [run EXCEPT ![c] = run'[c]]
    BY RestTypes DEF Stamp, Becomes
  <1>5. \A x \in Commands \ {c} :
          run'[x] = run[x] /\ (Consolidates(run[x]) => run[x].id # run[c].id)
    BY <1>1, <1>4 DEF IInv, IdsAreFresh
  <1>6. ~Consolidates(run'[c]) /\ ~LoadsBatch(run'[c]) /\ ~Writes(run'[c])
    BY <1>4 DEF Consolidates, LoadsBatch, Writes
  <1>7. TypeOK'
    <2>1. batch' \in [Files -> 0..batches]
      BY <1>1, <1>2 DEF IInv, TypeOK
    <2>2. \A f \in Files : batch'[f] # 0 => flag'[f] # "absent"
      BY <1>1, <1>2, <1>3 DEF IInv, TypeOK, Known
    <2>3. /\ flag \in [Files -> Flags] /\ view \in [Files -> Flags]
          /\ events \subseteq Files \X Days \X Days
      BY DEF IInv, TypeOK
    <2>4. LeavesOthers(c)
      BY <1>1, <1>4 DEF LeavesOthers
    <2>5. QED
      BY <1>1, <1>4, <2>1, <2>2, <2>3, <2>4, TypesKept DEF IInv
  <1>8. ProcessedIsIndexed' /\ PostedSoFar'
    BY <1>1, <1>4, ConsolidationKeepsLoads
  <1>9. IdsAreFresh'
    <2>1. ASSUME NEW x \in Commands, Writes(run'[x]) PROVE Unseen(run[x].id)'
      <3>1. x # c /\ run'[x] = run[x] /\ run[x].id # run[c].id
        BY <1>5, <1>6, <2>1 DEF Writes, Consolidates
      <3>2. Unseen(run[x].id)
        BY <2>1, <3>1 DEF IInv, IdsAreFresh
      <3>3. \A f \in Files : batch'[f] # run[x].id
        BY <1>2, <3>1, <3>2 DEF Unseen
      <3>4. QED
        BY <1>1, <1>5, <1>6, <3>1, <3>2, <3>3 DEF Unseen
    <2>2. \A x \in Commands :
            /\ Consolidates(run'[x]) \/ LoadsBatch(run'[x]) => run'[x].id # 0
            /\ Consolidates(run'[x]) =>
                  \A y \in Commands \ {x} : Consolidates(run'[y]) => run'[y].id # run'[x].id
            /\ run'[x].at = "putEvents" => artefact'.id # run'[x].id
      BY <1>1, <1>4, <1>5, <1>6 DEF IInv, IdsAreFresh, At
    <2>3. QED
      BY <2>1, <2>2 DEF IdsAreFresh, At
  <1>10. ASSUME NEW x \in Commands PROVE CoveredBy(run[x])'
    <2>1. CASE x = c
      BY <1>4, <2>1 DEF CoveredBy
    <2>2. CASE x # c
      <3>1. run'[x] = run[x] /\ CoveredBy(run[x])
        BY <1>5, <2>2 DEF IInv, StampsAreCovered
      <3>2. Stamped(run[x].id)' \subseteq Stamped(run[x].id)
        <4> SUFFICES ASSUME NEW f \in Files,
                            \/ batch'[f] = run[x].id
                            \/ \E y \in Commands \ {c} : /\ Consolidates(run[y])
                                                        /\ run[y].id = run[x].id
                                                        /\ f \in run[y].queue
                     PROVE  f \in Stamped(run[x].id)
          BY <1>5, <1>6, <3>1 DEF Stamped
        <4>1. CASE f \in hit /\ run[c].id = run[x].id
          BY <1>1, <1>3, <4>1 DEF Stamped
        <4>2. CASE ~(f \in hit /\ run[c].id = run[x].id)
          BY <1>2, <4>2 DEF Stamped
        <4>3. QED
          BY <4>1, <4>2
      <3>3. \A f \in Files : Indexed(f) => Indexed(f)'
        BY <1>1, IndexedStays
      <3>4. Stamped(run[x].id)' \subseteq Files
        BY DEF Stamped
      <3>5. QED
        BY <3>1, <3>2, <3>3, <3>4 DEF CoveredBy
    <2>3. QED
      BY <2>1, <2>2
  <1>11. StampsAreCovered'
    <2>1. \A f \in Files : batch'[f] # 0 /\ batch'[f] = artefact.id => f \in artefact.files
      BY <1>1, <1>2, <1>3 DEF IInv, StampsAreCovered, At
    <2>2. \A x \in Commands :
            run'[x].at \in {"putManifest", "stamp"} /\ artefact.id = run'[x].id =>
              run'[x].queue \subseteq artefact.files
      BY <1>4, <1>5 DEF IInv, StampsAreCovered, At
    <2>3. QED
      BY <1>1, <1>10, <2>1, <2>2 DEF StampsAreCovered, At
  <1>12. QED
    BY <1>7, <1>8, <1>9, <1>11 DEF IInv

(* What searches come to see of the flags is as good as the flags.         *)
LEMMA RefreshKeeps ==
    ASSUME IInv, content' = content, Refresh
    PROVE  IInv'
  <1>1. /\ flag' = flag /\ batch' = batch /\ events' = events /\ run' = run
        /\ artefact' = artefact /\ manifest' = manifest /\ batches' = batches
    BY DEF Refresh, artefactVars
  <1>2. PICK shown \in SUBSET Files :
          view' = [f \in Files |-> IF f \in shown THEN flag[f] ELSE view[f]]
    BY DEF Refresh
  <1>3. TypeOK'
    <2>1. view' \in [Files -> Flags]
      BY <1>2 DEF IInv, TypeOK
    <2>2. QED
      BY <1>1, <2>1 DEF IInv, TypeOK, Runs
  <1>4. ProcessedIsIndexed'
    BY <1>1, <1>2, FlagsKept DEF IInv
  <1>5. PostedSoFar'
    BY <1>1 DEF IInv, PostedSoFar, PostedOf, Indexed
  <1>6. IdsAreFresh'
    BY <1>1 DEF IInv, IdsAreFresh, Unseen, At
  <1>7. StampsAreCovered'
    BY <1>1 DEF IInv, StampsAreCovered, CoveredBy, Stamped, Indexed, At
  <1>8. QED
    BY <1>3, <1>4, <1>5, <1>6, <1>7 DEF IInv

(* Before the first command there is nothing to be wrong about.            *)
LEMMA InitIInv == Init => IInv
  <1> SUFFICES ASSUME Init PROVE IInv
    OBVIOUS
  <1> USE PipelineAssumption DEF Init
  <1>1. Rest \in Runs /\ \A c \in Commands : run[c] = Rest /\ run[c].at = "idle"
    BY RestTypes
  <1>2. TypeOK
    <2>1. run \in [Commands -> Runs]
      BY <1>1
    <2>2. flag \in [Files -> Flags] /\ view \in [Files -> Flags]
      BY DEF Flags
    <2>3. artefact \in [id : 0..batches, files : SUBSET Files]
      OBVIOUS
    <2>4. QED
      BY <2>1, <2>2, <2>3 DEF TypeOK
  <1>3. ProcessedIsIndexed
    BY DEF ProcessedIsIndexed
  <1>4. PostedSoFar
    BY <1>1 DEF PostedSoFar, PostedOf, InHand
  <1>5. IdsAreFresh
    BY <1>1 DEF IdsAreFresh, Consolidates, LoadsBatch, Writes, At
  <1>6. StampsAreCovered
    BY <1>1 DEF StampsAreCovered, CoveredBy, At
  <1>7. QED
    BY <1>2, <1>3, <1>4, <1>5, <1>6 DEF IInv

(* Every step of every command keeps the invariant.                        *)
LEMMA NextIInv == IInv /\ [Next]_vars => IInv'
  <1> SUFFICES ASSUME IInv, [Next]_vars PROVE IInv'
    OBVIOUS
  <1>1. CASE UNCHANGED vars
    <2>1. /\ content' = content /\ flag' = flag /\ view' = view /\ batch' = batch
          /\ events' = events
          /\ artefact' = artefact /\ manifest' = manifest /\ run' = run /\ batches' = batches
      BY <1>1 DEF vars, inventoryVars, artefactVars
    <2>2. TypeOK'
      BY <2>1 DEF IInv, TypeOK, Runs
    <2>3. ProcessedIsIndexed'
      BY <2>1 DEF IInv, ProcessedIsIndexed, Indexed
    <2>4. PostedSoFar'
      BY <2>1 DEF IInv, PostedSoFar, PostedOf, Indexed
    <2>5. IdsAreFresh'
      BY <2>1 DEF IInv, IdsAreFresh, Unseen, At
    <2>6. StampsAreCovered'
      BY <2>1 DEF IInv, StampsAreCovered, CoveredBy, Stamped, Indexed, At
    <2>7. QED
      BY <2>2, <2>3, <2>4, <2>5, <2>6 DEF IInv
  <1>2. CASE Next
    <2>1. content' = content
      BY <1>2 DEF Next
    <2>2. CASE Refresh
      BY <2>1, <2>2, RefreshKeeps
    <2>3. ASSUME NEW c \in Commands, Command(c) PROVE IInv'
      <3>1. CASE PostInventory(c)
        BY <2>1, <3>1, PostInventoryKeeps
      <3>2. CASE LoadEnds(c) \/ EventsMissing(c) \/ Dies(c)
        BY <2>1, <3>2, EndKeeps DEF LoadEnds, EventsMissing, Dies
      <3>3. CASE LoadEvents(c) /\ ~LoadEnds(c)
        BY <2>1, <3>3, QueueKeeps, FetchKeeps, PostKeeps, MarkKeeps DEF LoadEvents
      <3>4. CASE Consolidate(c)
        BY <2>1, <3>4, GatherKeeps, UploadKeeps, StampKeeps DEF Consolidate
      <3>5. CASE LoadConsolidated(c) /\ ~EventsMissing(c)
        BY <2>1, <3>5, ReadKeeps, PostAllKeeps, MarkAllKeeps DEF LoadConsolidated
      <3>6. CASE Wipe(c)
        BY <2>1, <3>6, WipeKeeps
      <3>7. QED
        BY <2>3, <3>1, <3>2, <3>3, <3>4, <3>5, <3>6 DEF Command
    <2>4. QED
      BY <1>2, <2>2, <2>3 DEF Next
  <1>3. QED
    BY <1>1, <1>2

(* The inductive invariant holds throughout.                               *)
THEOREM PipelineInvariant == Spec => []IInv
  BY InitIInv, NextIInv, PTL DEF Spec

(* Every command and every document has its type, and only a file that the *)
(* inventory has a document of is stamped (Inventory__Manifest__Updater).  *)
THEOREM LetsTypeCorrect == Spec => []TypeOK
  <1>1. IInv => TypeOK
    BY DEF IInv
  <1>2. QED
    BY <1>1, PipelineInvariant, PTL

(* A flag that no wipe and no false load has made doubtful is worth what   *)
(* Events__Loader says: all events of the file are in Elastic.             *)
THEOREM ProcessedTheorem == Spec => []ProcessedIsIndexed
  <1>1. IInv => ProcessedIsIndexed
    BY DEF IInv
  <1>2. QED
    BY <1>1, PipelineInvariant, PTL

(* What the inventory says was consolidated by the run of which both files *)
(* on S3 are is in the events file (Consolidate__Loader).                  *)
THEOREM StampedTheorem == Spec => []StampedIsInArtefact
  <1>1. IInv => StampedIsInArtefact
    BY DEF IInv, StampsAreCovered, StampedIsInArtefact
  <1>2. QED
    BY <1>1, PipelineInvariant, PTL

(* Events__Loader.load: what a load has been asked for is indexed when it  *)
(* ends without an error.                                                  *)
THEOREM LoadedTheorem == Spec => OkMeansLoaded
  <1> DEFINE Loaded == \A c \in Commands :
                 LoadEnds(c) /\ ~run[c].error /\ ~run[c].misled =>
                     \A f \in run[c].asked : Indexed(f)
  <1>1. IInv => Loaded
    BY DEF IInv, PostedSoFar, PostedOf, LoadEnds, At
  <1>2. QED
    BY <1>1, PipelineInvariant, PTL DEF OkMeansLoaded
=============================================================================
