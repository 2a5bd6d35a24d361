---------------------------- MODULE LetsPipeline ----------------------------
(***************************************************************************)
(* The LETS pipeline of the CloudFront logs: commands that list the log    *)
(* files of a bucket into an inventory in Elastic (Inventory__Loader),     *)
(* index the events of each file (Events__Loader), write the events of a   *)
(* whole day into one file on S3 (Consolidate__Loader), index that file    *)
(* (Events__Loader._load_from_consolidated), and wipe (the two wipers).    *)
(*                                                                         *)
(* The commands keep no state of their own: the flags of the inventory say *)
(* what has been done. Commands overlap, any call may fail, with or        *)
(* without its effect, and a command may end anywhere, by an exception     *)
(* that a client lets through or by an interrupt. The log files are those  *)
(* of one delivery day; a file that has not been delivered yet is one that *)
(* a listing leaves out. A search of the inventory sees a document as it   *)
(* was when its index was last refreshed: an update by query asks for a    *)
(* refresh, the bulk post that writes the inventory does not.              *)
(***************************************************************************)
EXTENDS Naturals, FiniteSets

CONSTANTS
    Commands,    \* the commands that may run at a time
    Files,       \* log files, each known by its etag
    MaxBatches,  \* bound of the runs of the consolidation
    None

ASSUME PipelineAssumption ==
    /\ MaxBatches \in Nat
    /\ None \notin Files

VARIABLES
    content,   \* the days of the events of each file
    flag,      \* content_processed of each file's inventory document
    view,      \* content_processed as searches see it
    batch,     \* its consolidation_run_id; 0 is the empty string
    events,    \* the events in Elastic: <<file, day of the event, day of the index>>
    artefact,  \* events.ndjson.gz: the run that wrote it and the files it holds
    manifest,  \* manifest.json: the run that wrote it; 0 when there is none
    run,       \* per command: where it is
    batches    \* run ids used by the consolidation

inventoryVars == <<flag, view, batch>>
artefactVars == <<artefact, manifest, batches>>
vars == <<content, inventoryVars, events, artefactVars, run>>

Days == {"eve", "day"}

(* A file without events, one with events of its day, or one that begins   *)
(* with some of the evening before.                                        *)
Contents == {{}, {"day"}, Days}

(* A document is not there, unprocessed, or processed; content_extract_    *)
(* run_id names the run that set the flag, and so what it is worth: backed *)
(* unless that run had no right to it or a wipe has come since.            *)
Flags == {"absent", "unprocessed", "backed", "doubtful"}

Known == {f \in Files : flag[f] # "absent"}

(* What a search finds.                                                    *)
Unprocessed == {f \in Files : view[f] = "unprocessed"}
Processed == {f \in Files : view[f] \in {"backed", "doubtful"}}
Doubtful == {f \in Files : view[f] = "doubtful"}

(* An update by query writes the documents it finds, but for those that    *)
(* are no longer what it has found: conflicts=proceed leaves them out.     *)
Updatable == {f \in Known : view[f] = flag[f]}

Indexed(f) == \A d \in content[f] : \E i \in Days : <<f, d, i>> \in events

-----------------------------------------------------------------------------
(* Commands                                                                *)

Steps ==
    {"idle", "search", "fetch", "post", "mark", "putEvents", "putManifest", "stamp",
     "readEvents", "postAll", "markAll", "drop", "reset"}

Rest ==
    [at |-> "idle",
     asked |-> {},      \* the files a load is to load
     queue |-> {},      \* work_items that are left, or the files it has read
     file |-> None,     \* the file in hand
     days |-> {},       \* what is left to post of it, or to drop
     failed |-> FALSE,  \* file_failed
     error |-> FALSE,   \* first_error is not empty
     id |-> 0,          \* the consolidation it makes or loads
     (* Observability: some of what it marks may not be in Elastic, and it  *)
     (* may leave out some of what it is asked for.                         *)
     tainted |-> FALSE,
     misled |-> FALSE]

Init ==
    /\ content \in [Files -> Contents]
    /\ flag = [f \in Files |-> "absent"]
    /\ view = flag
    /\ batch = [f \in Files |-> 0]
    /\ events = {}
    /\ artefact = [id |-> 0, files |-> {}]
    /\ manifest = 0
    /\ batches = 0
    /\ run = [c \in Commands |-> Rest]

At(c, step) == run[c].at = step

Becomes(c, r) == run' = [run EXCEPT ![c] = r]

Begin(step) == [Rest EXCEPT !.at = step]

(* A flag set without right, and a wipe, misleads every load under way; a  *)
(* wipe of the events may also undo what is posted and not yet marked.     *)
LoadsFiles(r) == r.at \in {"search", "fetch", "post", "mark"}

IsToMark(r) == r.at \in {"post", "mark", "markAll"}

Concerns(c, r, dropped) ==
    run' = [x \in Commands |->
              IF x = c THEN r
              ELSE [run[x] EXCEPT !.misled = @ \/ LoadsFiles(run[x]),
                                  !.tainted = @ \/ (dropped /\ IsToMark(run[x]))]]

(* The command ends by an exception or an interrupt.                       *)
Dies(c) ==
    /\ ~At(c, "idle")
    /\ Becomes(c, Rest)
    /\ UNCHANGED <<inventoryVars, events, artefactVars>>

-----------------------------------------------------------------------------
(* Elastic makes writes visible to searches, some time after they were     *)
(* made.                                                                   *)
Refresh ==
    /\ \E shown \in SUBSET Files :
          view' = [f \in Files |-> IF f \in shown THEN flag[f] ELSE view[f]]
    /\ UNCHANGED <<flag, batch, events, artefactVars, run>>

(* An update by query has refresh=true: what it has written is seen at     *)
(* once, or when its reply is not, later.                                  *)
Shows(hit, refused) ==
    \/ view' = [f \in Files |-> IF f \in hit THEN flag'[f] ELSE view[f]]
    \/ refused /\ UNCHANGED view

-----------------------------------------------------------------------------
(* Inventory__Loader.load, also as the first phase of a sync               *)

(* A document that is there is kept as it is.                              *)
Overwritten_IfNew(posted) == posted \ Known

(* A bulk "index" replaces the document, its flag and its run ids.         *)
Overwritten(posted) == posted

PostInventory(c) ==
    /\ At(c, "idle")
    /\ \E listed \in SUBSET Files, refused \in BOOLEAN :   \* prefix, max_keys
       \E posted \in SUBSET listed :
          /\ posted # listed => refused
          /\ LET written == Overwritten(posted) IN
                /\ flag' = [f \in Files |-> IF f \in written THEN "unprocessed" ELSE flag[f]]
                /\ batch' = [f \in Files |-> IF f \in written THEN 0 ELSE batch[f]]
          /\ run' \in {run, [run EXCEPT ![c] =
                         [Begin("search") EXCEPT !.asked = listed, !.error = refused]]}
    /\ UNCHANGED <<view, events, artefactVars>>

-----------------------------------------------------------------------------
(* Events__Loader.load: the queue is what a search finds unprocessed, cut  *)
(* off at max_files or at 1000.                                            *)
Found(queue) == queue \subseteq Unprocessed /\ (queue = {} => Unprocessed = {})

(* A sync may not see what it has just posted.                             *)
SyncSearch(c) ==
    /\ At(c, "search")
    /\ \/ \E queue \in SUBSET Files :
             /\ Found(queue)
             /\ Becomes(c, [run[c] EXCEPT
                    !.at = "fetch", !.queue = queue,
                    !.misled = @ \/ queue # Unprocessed \/ \E f \in run[c].asked : view[f] # flag[f]])
       \/ Becomes(c, Rest)
    /\ UNCHANGED <<inventoryVars, events, artefactVars>>

LoadFromInventory(c) ==
    /\ At(c, "idle")
    /\ \E queue \in SUBSET Files :
          /\ Found(queue)
          /\ Becomes(c, [Begin("fetch") EXCEPT !.asked = queue, !.queue = queue])
    /\ UNCHANGED <<inventoryVars, events, artefactVars>>

(* --skip-processed believes the flags; if they cannot be read, nothing is *)
(* skipped.                                                                *)
LoadFromListing(c) ==
    /\ At(c, "idle")
    /\ \E listed \in SUBSET Files, skipped \in {{}, Processed} :   \* prefix, max_files
          Becomes(c, [Begin("fetch") EXCEPT
                        !.asked = listed, !.queue = listed \ skipped,
                        !.misled = listed \cap skipped \cap Doubtful # {}])
    /\ UNCHANGED <<inventoryVars, events, artefactVars>>

(* Events__Loader.load: one file after the other                           *)
Fetch(c) ==
    /\ At(c, "fetch")
    /\ \E f \in run[c].queue :
          Becomes(c, [run[c] EXCEPT
                        !.queue = @ \ {f}, !.file = f, !.days = content[f], !.failed = FALSE,
                        !.tainted = FALSE,
                        !.at = IF content[f] = {} THEN "mark" ELSE "post"])
    /\ UNCHANGED <<inventoryVars, events, artefactVars>>

FetchFails(c) ==
    /\ At(c, "fetch")
    /\ \E f \in run[c].queue : Becomes(c, [run[c] EXCEPT !.queue = @ \ {f}, !.error = TRUE])
    /\ UNCHANGED <<inventoryVars, events, artefactVars>>

(* The groups go in the order of their days.                               *)
NextDay(days) == IF "eve" \in days THEN "eve" ELSE "day"

(* The file is marked as soon as its last group is in.                     *)
AfterPost_Last(r) ==
    IF r.days # {} THEN [r EXCEPT !.failed = FALSE]
    ELSE IF r.failed THEN [r EXCEPT !.at = "fetch", !.file = None, !.failed = FALSE]
    ELSE [r EXCEPT !.at = "mark"]

(* After the last group the file is marked, if none was refused.           *)
AfterPost(r) ==
    CASE r.days # {} -> r
      [] r.days = {} /\ ~r.failed -> [r EXCEPT !.at = "mark"]
      [] r.days = {} /\ r.failed -> [r EXCEPT !.at = "fetch", !.file = None, !.failed = FALSE]

Post(c) ==
    /\ At(c, "post")
    /\ LET d == NextDay(run[c].days) IN
          /\ events' = events \cup {<<run[c].file, d, d>>}
          /\ Becomes(c, AfterPost([run[c] EXCEPT !.days = @ \ {d}]))
    /\ UNCHANGED <<inventoryVars, artefactVars>>

(* Some items of the group are refused, or all of them, or none but the    *)
(* reply is an error.                                                      *)
PostRefused(c) ==
    /\ At(c, "post")
    /\ LET d == NextDay(run[c].days) IN
          /\ events' \in {events, events \cup {<<run[c].file, d, d>>}}
          /\ Becomes(c, AfterPost([run[c] EXCEPT !.days = @ \ {d}, !.failed = TRUE, !.error = TRUE]))
    /\ UNCHANGED <<inventoryVars, artefactVars>>

(* mark_processed looks at the document, not at the events.                *)
Marked(hit, r) ==
    [f \in Files |->
       IF f \notin hit THEN flag[f] ELSE IF r.tainted THEN "doubtful" ELSE "backed"]

Mark(c) ==
    /\ At(c, "mark")
    /\ \E hit \in SUBSET (Updatable \cap {run[c].file}), refused \in BOOLEAN :
          LET r == [run[c] EXCEPT !.at = "fetch", !.file = None, !.error = @ \/ refused] IN
          /\ flag' = Marked(hit, r)
          /\ Shows(hit, refused)
          /\ IF hit # {} /\ r.tainted THEN Concerns(c, r, FALSE) ELSE Becomes(c, r)
    /\ UNCHANGED <<batch, events, artefactVars>>

LoadEnds(c) ==
    /\ At(c, "fetch")
    /\ run[c].queue = {}
    /\ Becomes(c, Rest)
    /\ UNCHANGED <<inventoryVars, events, artefactVars>>

-----------------------------------------------------------------------------
(* Consolidate__Loader.load: what it could read of its queue; the configu- *)
(* ration of the region is there, or written by it.                        *)
(* A run id made of the day alone.                                         *)
NewId_OfTheDay == 1

NewId == batches + 1

Gather(c) ==
    /\ At(c, "idle")
    /\ batches < MaxBatches
    /\ batches' = batches + 1
    /\ \E read \in SUBSET Files :   \* the listing, or Unconsolidated; max_files; what fails
          Becomes(c, [Begin("putEvents") EXCEPT !.queue = read, !.id = NewId])
    /\ UNCHANGED <<inventoryVars, events, artefact, manifest>>

(* An upload that fails is noted, and the run goes on.                     *)
PutEvents(c) ==
    /\ At(c, "putEvents")
    /\ artefact' \in {artefact, [id |-> run[c].id, files |-> run[c].queue]}
    /\ Becomes(c, [run[c] EXCEPT !.at = "putManifest"])
    /\ UNCHANGED <<inventoryVars, events, manifest, batches>>

PutManifest(c) ==
    /\ At(c, "putManifest")
    /\ manifest' \in {manifest, run[c].id}
    /\ Becomes(c, [run[c] EXCEPT !.at = "stamp"])
    /\ UNCHANGED <<inventoryVars, events, artefact, batches>>

(* An upsert of the stamp.                                                 *)
Stampable_Upsert(r) == r.queue

(* The query by etag, not _id, finds only what is in the inventory.        *)
Stampable(r) == Updatable \cap r.queue

Stamp(c) ==
    /\ At(c, "stamp")
    /\ \E hit \in SUBSET Stampable(run[c]) :
          batch' = [f \in Files |-> IF f \in hit THEN run[c].id ELSE batch[f]]
    /\ Becomes(c, Rest)
    /\ UNCHANGED <<flag, view, events, artefactVars>>

-----------------------------------------------------------------------------
(* Events__Loader._load_from_consolidated                                  *)
ReadManifest(c) ==
    /\ At(c, "idle")
    /\ manifest # 0
    /\ Becomes(c, [Begin("readEvents") EXCEPT !.id = manifest])
    /\ UNCHANGED <<inventoryVars, events, artefactVars>>

(* The file may be of another run than the manifest.                       *)
ReadEvents(c) ==
    /\ At(c, "readEvents")
    /\ artefact.id # 0
    /\ Becomes(c, [run[c] EXCEPT !.at = "postAll", !.queue = artefact.files,
                                 !.tainted = @ \/ artefact.id # run[c].id])
    /\ UNCHANGED <<inventoryVars, events, artefactVars>>

EventsMissing(c) ==
    /\ At(c, "readEvents")
    /\ artefact.id = 0
    /\ Becomes(c, Rest)
    /\ UNCHANGED <<inventoryVars, events, artefactVars>>

(* One bulk request, into the index of the day.                            *)
PostAll(c) ==
    /\ At(c, "postAll")
    /\ events' = events \cup
         UNION {{<<f, d, "day">> : d \in content[f]} : f \in run[c].queue}
    /\ Becomes(c, [run[c] EXCEPT !.at = "markAll", !.queue = {}])
    /\ UNCHANGED <<inventoryVars, artefactVars>>

(* What is refused is noted, and the flags are set all the same.           *)
PostAllRefused(c) ==
    /\ At(c, "postAll")
    /\ \E f \in run[c].queue : content[f] # {}
    /\ \E posted \in SUBSET run[c].queue :
          events' = events \cup UNION {{<<f, d, "day">> : d \in content[f]} : f \in posted}
    /\ Becomes(c, [run[c] EXCEPT !.at = "markAll", !.queue = {}, !.tainted = TRUE])
    /\ UNCHANGED <<inventoryVars, artefactVars>>

MarkAll(c) ==
    /\ At(c, "markAll")
    /\ \E hit \in SUBSET {f \in Updatable : batch[f] = run[c].id}, refused \in BOOLEAN :
          /\ flag' = Marked(hit, run[c])
          /\ Shows(hit, refused)
          /\ IF hit # {} /\ run[c].tainted THEN Concerns(c, Rest, FALSE) ELSE Becomes(c, Rest)
    /\ UNCHANGED <<batch, events, artefactVars>>

-----------------------------------------------------------------------------
(* Events__Wiper.wipe: list the indices, drop one by one, reset the flags. *)
(* If the list cannot be read nothing is dropped, and the flags are reset. *)
ListIndices(c) ==
    /\ At(c, "idle")
    /\ \E days \in {{}, {e[3] : e \in events}} :
          Becomes(c, [Begin(IF days = {} THEN "reset" ELSE "drop") EXCEPT !.days = days])
    /\ UNCHANGED <<inventoryVars, events, artefactVars>>

AfterDrop(r, i) == [r EXCEPT !.days = @ \ {i}, !.at = IF r.days = {i} THEN "reset" ELSE "drop"]

(* What the flags are worth when events have been dropped.                 *)
Doubted(flags) == [f \in Files |-> IF flags[f] = "backed" THEN "doubtful" ELSE flags[f]]

Drop(c) ==
    /\ At(c, "drop")
    /\ \E i \in run[c].days :
          /\ events' = {e \in events : e[3] # i}
          /\ flag' = Doubted(flag)
          /\ view' = Doubted(view)
          /\ Concerns(c, AfterDrop(run[c], i), TRUE)
    /\ UNCHANGED <<batch, artefactVars>>

(* An index that is not dropped does not end the wipe.                     *)
DropRefused(c) ==
    /\ At(c, "drop")
    /\ \E i \in run[c].days : Becomes(c, AfterDrop(run[c], i))
    /\ UNCHANGED <<inventoryVars, events, artefactVars>>

Reset(c) ==
    /\ At(c, "reset")
    /\ \E hit \in SUBSET (Updatable \cap Processed), refused \in BOOLEAN :
          /\ flag' = [f \in Files |-> IF f \in hit THEN "unprocessed" ELSE flag[f]]
          /\ Shows(hit, refused)
    /\ Becomes(c, Rest)
    /\ UNCHANGED <<batch, events, artefactVars>>

(* Inventory__Wiper.wipe: the index of the day, with all its documents.    *)
WipeInventory(c) ==
    /\ At(c, "idle")
    /\ flag' = [f \in Files |-> "absent"]
    /\ view' = flag'
    /\ batch' = [f \in Files |-> 0]
    /\ Concerns(c, Rest, FALSE)
    /\ UNCHANGED <<events, artefactVars>>

-----------------------------------------------------------------------------
LoadEvents(c) ==
    \/ SyncSearch(c) \/ LoadFromInventory(c) \/ LoadFromListing(c) \/ Fetch(c) \/ FetchFails(c)
    \/ Post(c) \/ PostRefused(c) \/ Mark(c) \/ LoadEnds(c)

Consolidate(c) == Gather(c) \/ PutEvents(c) \/ PutManifest(c) \/ Stamp(c)

LoadConsolidated(c) ==
    ReadManifest(c) \/ ReadEvents(c) \/ EventsMissing(c) \/ PostAll(c) \/ PostAllRefused(c) \/ MarkAll(c)

Wipe(c) == ListIndices(c) \/ Drop(c) \/ DropRefused(c) \/ Reset(c) \/ WipeInventory(c)

Command(c) ==
    \/ PostInventory(c) \/ LoadEvents(c) \/ Consolidate(c) \/ LoadConsolidated(c) \/ Wipe(c)
    \/ Dies(c)

Next ==
    /\ Refresh \/ \E c \in Commands : Command(c)
    /\ UNCHANGED content

Spec == Init /\ [][Next]_vars

-----------------------------------------------------------------------------
Runs ==
    [at : Steps, asked : SUBSET Files, queue : SUBSET Files,
     file : Files \cup {None}, days : SUBSET Days, failed : BOOLEAN, error : BOOLEAN,
     id : 0..batches, tainted : BOOLEAN, misled : BOOLEAN]

(* Types: only a file that the inventory has a document of can be part of  *)
(* a consolidation.                                                        *)
TypeOK ==
    /\ content \in [Files -> Contents]
    /\ flag \in [Files -> Flags]
    /\ view \in [Files -> Flags]
    /\ batch \in [Files -> 0..batches]
    /\ events \subseteq Files \X Days \X Days
    /\ artefact \in [id : 0..batches, files : SUBSET Files]
    /\ manifest \in 0..batches
    /\ batches \in 0..MaxBatches
    /\ run \in [Commands -> Runs]
    /\ \A f \in Files : batch[f] # 0 => flag[f] # "absent"

(* "After ALL bulk-posts succeed for the file, flip the inventory doc's    *)
(* content_processed": a file whose flag is set, or is seen set by a       *)
(* search, has all its events in Elastic, whatever other commands run,     *)
(* fail or die meanwhile, but for flags that are doubtful: a wipe has      *)
(* dropped events and has not reset the flag since; a load has set it that *)
(* had the file in hand when a wipe dropped an index, which sets it for    *)
(* good when the wipe had reset it before; or it was set by the load of a  *)
(* consolidated file that was refused, was overtaken by a wipe, or is of   *)
(* another run than its manifest.                                          *)
ProcessedIsIndexed ==
    \A f \in Files : "backed" \in {flag[f], view[f]} => Indexed(f)

(* A load that ends without an error has loaded what it was asked for: its *)
(* queue, the files it skipped as processed included, or, of a sync, every *)
(* file it has listed, whatever failed runs, torn consolidations and half  *)
(* a wipe have left behind. The exceptions: a wipe, or a flag set by a     *)
(* load that should not have set it, of a command that overlaps; a file    *)
(* skipped whose flag was doubtful already; and a sync whose search has    *)
(* been cut off or has not yet seen what the sync has posted just before.  *)
OkMeansLoaded ==
    [][\A c \in Commands :
         LoadEnds(c) /\ ~run[c].error /\ ~run[c].misled => \A f \in run[c].asked : Indexed(f)]_vars

(* The inventory and S3 agree: what the inventory says was consolidated by *)
(* the run of which both files on S3 are is in the events file, so that a  *)
(* load that marks it by that run id has indexed it.                       *)
StampedIsInArtefact ==
    manifest = artefact.id =>
        \A f \in Files : batch[f] # 0 /\ batch[f] = manifest => f \in artefact.files

(* Why they hold. A load has posted what it is done with: of the file in   *)
(* hand the days that are gone, if none was refused, and of what it was    *)
(* asked for all that is neither in hand nor in the queue.                 *)
InHand(r) == r.at \in {"post", "mark"}

PostedOf(r) ==
    /\ InHand(r) =>
          /\ r.file \in Files
          /\ r.failed => r.error
          /\ r.tainted => r.misled
          /\ r.at = "mark" => r.days = {} /\ ~r.failed
          /\ ~r.tainted /\ ~r.failed =>
                \A d \in content[r.file] \ r.days : \E i \in Days : <<r.file, d, i>> \in events
    /\ ~r.misled /\ ~r.error =>
          /\ r.at = "search" => \A f \in r.asked : flag[f] = "unprocessed" \/ Indexed(f)
          /\ r.at = "fetch" => \A f \in r.asked \ r.queue : Indexed(f)
          /\ InHand(r) => \A f \in r.asked \ (r.queue \cup {r.file}) : Indexed(f)

PostedSoFar == \A c \in Commands : PostedOf(run[c])

(* No two consolidations have the same id, and an id is nowhere to be seen *)
(* before its run has come to write it.                                    *)
Writes(r) == r.at \in {"putEvents", "putManifest"}

Consolidates(r) == r.at \in {"putEvents", "putManifest", "stamp"}

LoadsBatch(r) == r.at \in {"readEvents", "postAll", "markAll"}

Unseen(n) ==
    /\ manifest # n
    /\ \A f \in Files : batch[f] # n
    /\ \A x \in Commands : LoadsBatch(run[x]) => run[x].id # n

IdsAreFresh ==
    \A c \in Commands :
        /\ Consolidates(run[c]) \/ LoadsBatch(run[c]) => run[c].id # 0
        /\ Consolidates(run[c]) =>
              \A x \in Commands \ {c} : Consolidates(run[x]) => run[x].id # run[c].id
        /\ Writes(run[c]) => Unseen(run[c].id)
        /\ At(c, "putEvents") => artefact.id # run[c].id

(* What a run has stamped, or may still stamp, is in the events file that  *)
(* it has written and in what a load has read of it.                       *)
Stamped(n) ==
    {f \in Files :
       \/ batch[f] = n
       \/ \E c \in Commands :
             /\ Consolidates(run[c])
             /\ run[c].id = n
             /\ f \in run[c].queue}

CoveredBy(r) ==
    ~r.tainted =>
        /\ r.at = "postAll" => Stamped(r.id) \subseteq r.queue
        /\ r.at = "markAll" => \A f \in Stamped(r.id) : Indexed(f)

StampsAreCovered ==
    /\ \A f \in Files : batch[f] # 0 /\ batch[f] = artefact.id => f \in artefact.files
    /\ \A c \in Commands :
          (At(c, "putManifest") \/ At(c, "stamp")) /\ artefact.id = run[c].id =>
              run[c].queue \subseteq artefact.files
    /\ \A c \in Commands : CoveredBy(run[c])

IInv ==
    /\ TypeOK
    /\ ProcessedIsIndexed
    /\ PostedSoFar
    /\ IdsAreFresh
    /\ StampsAreCovered
=============================================================================
