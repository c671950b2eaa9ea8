---------------------------- MODULE AssetLibrary ----------------------------
(***************************************************************************)
(* The file library of the control plane and the tasks that use it: upload *)
(* and download of operations.go, the asset part of the store, and         *)
(* downloadTaskAsset of the agent.  An asset lives in three places: a file *)
(* in the asset directory, a row in memory and a row in the state          *)
(* document, which a crash separates.  The lease of a task and the message *)
(* traffic around it are in TaskDispatch; here a task is handed out in one *)
(* step, and a lost connection makes it unknown.                           *)
(***************************************************************************)
EXTENDS Integers, FiniteSets

CONSTANTS
    Upload,       \* uploads; an upload names the asset it makes and its content
    Name,         \* file names
    Task,         \* install and push_file tasks, each of one device
    NoAsset,      \* no asset, no content
    Broken,       \* a body that was cut off or changed on its way
    MaxRestarts   \* bound: restarts of the control plane

ASSUME LibraryAssumption ==
    /\ NoAsset \notin Upload \cup Name /\ Broken \notin Upload \cup {NoAsset}
    /\ Upload \cap Name = {} /\ MaxRestarts \in Nat

VARIABLES
    handler,    \* upload handlers: at, name
    temporary,  \* uploads whose .upload file is in the asset directory
    blob,       \* .blob files and their content
    assets,     \* assets: id -> name, NoAsset for none
    byName,     \* assetsByName
    path,       \* assets whose Path is in memory
    tasks,      \* tasks: asset, status
    disk,       \* the state document: assets, byName, tasks
    unsaved,    \* uploads and tasks whose handler has not persisted yet
    grant,      \* download grants in the hands of agents
    run,        \* what became of a task on its device
    restarts    \* restarts so far

assetVars == <<handler, temporary, blob, assets, byName, path, tasks, disk, unsaved, grant, run, restarts>>
library == <<temporary, blob, assets, byName, path>>
taskVars == <<tasks, grant, run>>

NoTask == [asset |-> NoAsset, status |-> "none"]

AssetInit ==
    /\ handler = [u \in Upload |-> [at |-> "idle", name |-> NoAsset]]
    /\ temporary = {}
    /\ blob = [p \in Upload \cup Name |-> NoAsset]
    /\ assets = [u \in Upload |-> NoAsset]
    /\ byName = [n \in Name |-> NoAsset]
    /\ path = {}
    /\ tasks = [t \in Task |-> NoTask]
    /\ disk = [assets |-> assets, byName |-> byName, tasks |-> tasks]
    /\ unsaved = {}
    /\ grant = [t \in Task |-> "none"]
    /\ run = [t \in Task |-> "none"]
    /\ restarts = 0

At(u, step) == handler[u].at = step
HandlerAt(u, step) == handler' = [handler EXCEPT ![u].at = step]

-----------------------------------------------------------------------------
(* upload *)

\* A temporary file is made; the body is read into it.
Receive(u, n) ==
    /\ At(u, "idle")
    /\ handler' = [handler EXCEPT ![u] = [at |-> "received", name |-> n]]
    /\ temporary' = temporary \cup {u}
    /\ UNCHANGED <<blob, assets, byName, path, taskVars, disk, unsaved, restarts>>

\* The body breaks off or is too large, or the rename fails: the deferred Remove.
ReceiveFails(u) ==
    /\ At(u, "received")
    /\ HandlerAt(u, "done")
    /\ temporary' = temporary \ {u}
    /\ UNCHANGED <<blob, assets, byName, path, taskVars, disk, unsaved, restarts>>

\* "Use the asset id in the file path as well"
BlobPath(u) == u

Rename(u) ==
    /\ At(u, "received")
    /\ HandlerAt(u, "renamed")
    /\ temporary' = temporary \ {u}
    /\ blob' = [blob EXCEPT ![BlobPath(u)] = u]
    /\ UNCHANGED <<assets, byName, path, taskVars, disk, unsaved, restarts>>

Named(u) == [byName EXCEPT ![handler[u].name] = u]

\* CreateAsset; mutate persists next.
CreateAsset(u) ==
    /\ At(u, "renamed")
    /\ byName[handler[u].name] = NoAsset
    /\ HandlerAt(u, "created")
    /\ assets' = [assets EXCEPT ![u] = handler[u].name]
    /\ byName' = Named(u)
    /\ path' = path \cup {u}
    /\ unsaved' = unsaved \cup {u}
    /\ UNCHANGED <<temporary, blob, taskVars, disk, restarts>>

\* What os.Remove(asset.Path) leaves.
RefusedBlob(u) == [blob EXCEPT ![BlobPath(u)] = NoAsset]

\* ErrAlreadyExists
RefuseAsset(u) ==
    /\ At(u, "renamed")
    /\ byName[handler[u].name] # NoAsset
    /\ HandlerAt(u, "done")
    /\ blob' = RefusedBlob(u)
    /\ UNCHANGED <<temporary, assets, byName, path, taskVars, disk, unsaved, restarts>>

UploadReturns(u) ==
    /\ At(u, "created") /\ u \notin unsaved
    /\ HandlerAt(u, "done")
    /\ UNCHANGED <<library, taskVars, disk, unsaved, restarts>>

-----------------------------------------------------------------------------
(* The document *)

\* Mutant: assets are not part of what is written with a task.
MutantSnapshot(g) ==
    [assets |-> IF g \in Upload THEN assets ELSE disk.assets,
     byName |-> IF g \in Upload THEN byName ELSE disk.byName,
     tasks |-> tasks]

Snapshot(g) == [assets |-> assets, byName |-> byName, tasks |-> tasks]

\* mutate: the whole state is written, or the error is ignored.
Persist(g) ==
    /\ g \in unsaved
    /\ unsaved' = unsaved \ {g}
    /\ disk' \in {disk, Snapshot(g)}
    /\ UNCHANGED <<handler, library, taskVars, restarts>>

\* Handlers die, files stay, load reads the document: Path is json:"-".
Restart ==
    /\ restarts < MaxRestarts
    /\ restarts' = restarts + 1
    /\ handler' = [u \in Upload |-> IF At(u, "idle") THEN handler[u] ELSE [handler[u] EXCEPT !.at = "done"]]
    /\ assets' = disk.assets
    /\ byName' = disk.byName
    /\ path' = {}
    /\ tasks' = disk.tasks
    /\ unsaved' = {}
    /\ UNCHANGED <<temporary, blob, disk, grant, run>>

-----------------------------------------------------------------------------
(* Tasks with an asset *)

\* createTask: AssetByName, then CreateTask.
CreateTask(t, n) ==
    /\ tasks[t] = NoTask /\ run[t] = "none" /\ grant[t] = "none"
    /\ byName[n] # NoAsset
    /\ tasks' = [tasks EXCEPT ![t] = [asset |-> byName[n], status |-> "queued"]]
    /\ unsaved' = unsaved \cup {t}
    /\ UNCHANGED <<handler, library, disk, grant, run, restarts>>

\* issueDownloadGrant: signed for this asset, task and device.
Granted(t) == [grant EXCEPT ![t] = "valid"]

\* task_claim: leased; the dispatch carries checksum and grant, or the task
\* fails when its asset is gone.
HandOut(t) ==
    /\ tasks[t].status = "queued" /\ t \notin unsaved
    /\ IF assets[tasks[t].asset] # NoAsset
         THEN /\ tasks' = [tasks EXCEPT ![t].status = "leased"]
              /\ grant' = Granted(t)
              /\ run' = [run EXCEPT ![t] = "started"]
         ELSE /\ tasks' = [tasks EXCEPT ![t].status = "failed"]
              /\ UNCHANGED <<grant, run>>
    /\ unsaved' = unsaved \cup {t}
    /\ UNCHANGED <<handler, library, disk, restarts>>

\* MarkLeasedUnknown
Lose(t) ==
    /\ tasks[t].status = "leased" /\ t \notin unsaved
    /\ tasks' = [tasks EXCEPT ![t].status = "unknown"]
    /\ unsaved' = unsaved \cup {t}
    /\ UNCHANGED <<handler, library, disk, grant, run, restarts>>

\* 15 minutes are over.
GrantExpires(t) ==
    /\ grant[t] = "valid"
    /\ grant' = [grant EXCEPT ![t] = "expired"]
    /\ UNCHANGED <<handler, library, tasks, disk, unsaved, run, restarts>>

\* download: the grant, the asset, the lease and the file.
Served(t) ==
    /\ grant[t] = "valid"
    /\ tasks[t].status = "leased"
    /\ assets[tasks[t].asset] # NoAsset
    /\ tasks[t].asset \in path
    /\ blob[BlobPath(tasks[t].asset)] # NoAsset

\* The checksum of the dispatch is that of the asset.
Matches(t, body) == body = tasks[t].asset

\* downloadTaskAsset and what runTask does with the file: the body is the blob,
\* or was cut off on its way.
Fetch(t) ==
    /\ run[t] = "started"
    /\ \/ /\ Served(t)
          /\ \E body \in {blob[BlobPath(tasks[t].asset)], Broken} :
               run' = [run EXCEPT ![t] = IF ~Matches(t, body) THEN "failed"
                                         ELSE IF body = tasks[t].asset THEN "installed" ELSE "garbage"]
       \/ run' = [run EXCEPT ![t] = "failed"]
    /\ UNCHANGED <<handler, library, tasks, disk, unsaved, grant, restarts>>

\* task_result arrives, or was sent on a connection that is gone.
Report(t) ==
    /\ run[t] \in {"installed", "garbage", "failed"}
    /\ tasks[t].status \in {"leased", "unknown"} /\ t \notin unsaved
    /\ tasks' = [tasks EXCEPT ![t].status = IF run[t] = "failed" THEN "failed" ELSE "success"]
    /\ unsaved' = unsaved \cup {t}
    /\ UNCHANGED <<handler, library, disk, grant, run, restarts>>

AssetNext ==
    \/ \E u \in Upload :
         \/ \E n \in Name : Receive(u, n)
         \/ ReceiveFails(u) \/ Rename(u) \/ CreateAsset(u) \/ RefuseAsset(u) \/ UploadReturns(u)
    \/ \E g \in Upload \cup Task : Persist(g)
    \/ Restart
    \/ \E t \in Task :
         \/ \E n \in Name : CreateTask(t, n)
         \/ HandOut(t) \/ Lose(t) \/ GrantExpires(t) \/ Fetch(t) \/ Report(t)

AssetSpec == AssetInit /\ [][AssetNext]_assetVars

-----------------------------------------------------------------------------
AssetTypeOK ==
    /\ \A u \in Upload : handler[u].at \in {"idle", "received", "renamed", "created", "done"}
    /\ temporary \subseteq Upload /\ path \subseteq Upload
    /\ blob \in [Upload \cup Name -> Upload \cup {NoAsset}]
    /\ assets \in [Upload -> Name \cup {NoAsset}]
    /\ byName \in [Name -> Upload \cup {NoAsset}]
    /\ unsaved \subseteq Upload \cup Task
    /\ restarts \in 0..MaxRestarts

\* Every asset the library lists, or would list after a restart, has its own
\* content in the asset directory, and its name leads to it: the file is there
\* before the row, and a refused upload removes nothing but its own file.
ListedHasContent ==
    \A lib \in {[assets |-> assets, byName |-> byName], [assets |-> disk.assets, byName |-> disk.byName]},
       u \in Upload :
         lib.assets[u] # NoAsset => blob[BlobPath(u)] = u /\ lib.byName[lib.assets[u]] = u

\* The asset of a task is listed as long as the task is, in memory and in the
\* document: an accepted task does not lose its file to a restart or a failed
\* write.  (handleAgentMessage has a branch for a missing asset.)
TasksKeepTheirAsset ==
    \A t \in Task :
       /\ tasks[t].status # "none" => assets[tasks[t].asset] # NoAsset
       /\ disk.tasks[t].status # "none" => disk.assets[disk.tasks[t].asset] # NoAsset

\* An upload that is over leaves a listed asset or nothing in the asset directory,
\* as long as the control plane has not died in the middle of one.
NoStrayFiles ==
    restarts = 0 =>
      /\ \A u \in temporary : At(u, "received")
      /\ \A p \in Upload \cup Name : blob[p] # NoAsset =>
           assets[blob[p]] # NoAsset \/ At(blob[p], "renamed")

\* What a task reports as success is the file the user chose when the task was
\* made, whole, whatever was uploaded under its name or restarted since.
SuccessIsTheChosenFile ==
    \A t \in Task : tasks[t].status = "success" => run[t] = "installed"

\* The invariant of the library: file, row, document and task agree, wherever an
\* upload, a write or the control plane stops.
LibraryInv ==
    /\ AssetTypeOK
    /\ ListedHasContent
    /\ TasksKeepTheirAsset
    /\ NoStrayFiles
    /\ SuccessIsTheChosenFile
=============================================================================
