----------------------------- MODULE FileRender -----------------------------
(***************************************************************************)
(* The file render action of the Docker agent: one destination, attempts   *)
(* that are canceled or die at any point and are run again, and a foreign  *)
(* process that puts other files at the paths the action uses.  The file   *)
(* system is the inodes and the names that refer to them, so that a check  *)
(* of a path and a later use of it are separate steps.                     *)
(* cmd/agent/docker/file_render_action.go                                  *)
(***************************************************************************)
EXTENDS Naturals, Sequences

CONSTANTS
    Backup,        \* the input's backup flag
    RequestedMode, \* who may read under the requested mode and owner
    MaxInodes,     \* bound on the files ever created
    MaxRenders,    \* bound on the times the step is executed
    MaxSwaps       \* bound on the foreign process's steps

Readers == {"owner", "group", "other"}
None == 0
Paths == {"dest", "bak", "temp"}
PrivateMode == {"owner"}    \* fileRenderPrivateTempMode

ASSUME RequestedModeIsMode == RequestedMode \in SUBSET Readers

VARIABLES
    inode,    \* the files ever created: what each holds, who may read it,
              \* and for a backup the file it was copied from
    at,       \* the file each path refers to, or None
    stage,    \* where the execution under way stands
    seen,     \* the destination as Lstat and the descriptor saw it
    tmp,      \* the file written through the temporary descriptor
    goal,     \* the path the temporary file will be renamed to
    canceled, \* the render context: timeout, lost heartbeat or failed event
    result,   \* how the last execution ended
    tries, swaps, crashes

renderMem == <<stage, seen, tmp, goal, canceled, result>>
renderVars == <<inode, at, renderMem, tries, swaps, crashes>>

File == [data : {"old", "new", "foreign", "partial", "notfile"},
         mode : SUBSET Readers, of : 0 .. MaxInodes]
New(f) == inode' = Append(inode, f)
NewInode == Len(inode) + 1
Regular(i) == i # None /\ inode[i].data # "notfile"

RenderInit ==
    /\ \E m \in SUBSET Readers, present \in BOOLEAN :
         /\ inode = IF present THEN <<[data |-> "old", mode |-> m, of |-> None]>> ELSE <<>>
         /\ at = [p \in Paths |-> IF present /\ p = "dest" THEN 1 ELSE None]
    /\ stage = "idle" /\ seen = None /\ tmp = None /\ goal = "dest"
    /\ canceled = FALSE /\ result = "none"
    /\ tries = 0 /\ swaps = 0 /\ crashes = 0

-----------------------------------------------------------------------------
(* Control of one execution.                                               *)

Stage(l) == stage' = l /\ UNCHANGED <<result, tries, swaps, crashes>>

(* A return on any path; the deferred removal of the temporary path runs   *)
(* before the step's terminal event.                                       *)
Forget == seen' = None /\ tmp' = None /\ goal' = "dest" /\ canceled' = FALSE
RenderReturns(how) ==
    /\ stage' = "idle" /\ result' = how /\ Forget
    /\ UNCHANGED <<inode, tries, swaps, crashes>>

Fail == RenderReturns("failed") /\ at' = [at EXCEPT !["temp"] = None]

fileRenderContextError == canceled

(* executeFileRenderStep up to runFileRender; an invalid input fails       *)
(* before any file is looked at.                                           *)
executeFileRenderStep ==
    /\ stage = "idle" /\ tries < MaxRenders
    /\ tries' = tries + 1 /\ stage' = "prepare" /\ result' = "none"
    /\ UNCHANGED <<inode, at, seen, tmp, goal, canceled, swaps, crashes>>

(* prepareFileRenderDestination and the first context checks.              *)
prepareFileRenderDestination ==
    /\ stage = "prepare"
    /\ IF fileRenderContextError \/ (at["dest"] # None /\ ~Regular(at["dest"]))
       THEN Fail
       ELSE Stage("lstat") /\ UNCHANGED <<inode, at, seen, tmp, goal, canceled>>

(* openExistingFileNoSwap: Lstat, open, and both must be the same file.    *)
(* The backup opens the destination again.  A destination that is not      *)
(* there, at either step, has nothing to be read or backed up.             *)
BeforeWrite == IF Backup THEN "backup" ELSE "create"
NothingThere(next) ==
    /\ at["dest"] = None
    /\ Stage(next) /\ seen' = None /\ UNCHANGED <<inode, at, tmp, goal, canceled>>

Lstat ==
    /\ stage \in {"lstat", "backup"}
    /\ CASE at["dest"] = None ->
               NothingThere(IF stage = "lstat" THEN BeforeWrite ELSE "create")
         [] at["dest"] # None /\ ~Regular(at["dest"]) -> Fail
         [] OTHER -> /\ seen' = at["dest"]
                     /\ Stage(IF stage = "lstat" THEN "open" ELSE "backupopen")
                     /\ UNCHANGED <<inode, at, tmp, goal, canceled>>

(* The file opened is compared with the bytes rendered.                    *)
openRootRegularFileNoSwap ==
    /\ stage = "open"
    /\ CASE at["dest"] = None -> NothingThere(BeforeWrite)
         [] at["dest"] \notin {None, seen} -> Fail
         [] OTHER ->
            /\ Stage(IF inode[seen].data = "new" THEN "verify" ELSE BeforeWrite)
            /\ UNCHANGED <<inode, at, seen, tmp, goal, canceled>>

(* Equal bytes: nothing is written when the metadata matches too.          *)
verifyExistingFileNoSwap ==
    /\ stage = "verify"
    /\ IF at["dest"] # seen THEN Fail
       ELSE IF inode[seen].mode = RequestedMode
       THEN RenderReturns("ok") /\ UNCHANGED at
       ELSE Stage("create") /\ UNCHANGED <<inode, at, seen, tmp, goal, canceled>>

backupFileRenderDestination ==
    /\ stage = "backupopen"
    /\ CASE at["dest"] = None -> NothingThere("create")
         [] at["dest"] # None /\ (at["dest"] # seen \/ fileRenderContextError) -> Fail
         [] OTHER -> goal' = "bak" /\ Stage("create") /\ UNCHANGED <<inode, at, seen, tmp, canceled>>

-----------------------------------------------------------------------------
(* copyFileAtomic and atomicWriteFileRenderDestination.                    *)

moreRestrictiveFileRenderMode_Target(existing, target) == target
moreRestrictiveFileRenderMode(existing, target) == existing \cap target

(* A mode is the classes of readers it admits.  The copy gets the mode     *)
(* bits, not the owner and the group of the file it is a copy of.          *)
FinalMode == IF goal = "bak"
             THEN moreRestrictiveFileRenderMode(inode[seen].mode, RequestedMode)
             ELSE RequestedMode

(* O_CREATE|O_EXCL with a new name and the private mode.                   *)
CreateTemp ==
    /\ stage = "create"
    /\ IF fileRenderContextError THEN Fail
       ELSE /\ Len(inode) < MaxInodes
            /\ New([data |-> "partial", mode |-> PrivateMode,
                    of |-> IF goal = "bak" THEN seen ELSE None])
            /\ at' = [at EXCEPT !["temp"] = NewInode]
            /\ tmp' = NewInode /\ Stage("fill") /\ UNCHANGED <<seen, goal, canceled>>

(* The write and the first sync; the descriptor may also fail (disk full). *)
FillTemp ==
    /\ stage = "fill"
    /\ \/ /\ inode' = [inode EXCEPT ![tmp].data =
                          IF goal = "bak" THEN inode[seen].data ELSE "new"]
          /\ Stage("chmod") /\ UNCHANGED <<at, seen, tmp, goal, canceled>>
       \/ Fail

(* Mode and owner are applied through the descriptor, then synced.         *)
applyFileRenderMetadataToFile ==
    /\ stage = "chmod"
    /\ \/ /\ inode' = [inode EXCEPT ![tmp].mode = FinalMode]
          /\ Stage("check") /\ UNCHANGED <<at, seen, tmp, goal, canceled>>
       \/ Fail

(* The last context check and the check that the temporary path still      *)
(* names the file written.                                                 *)
verifyRootRegularFileNoSwap ==
    /\ stage = "check"
    /\ IF fileRenderContextError \/ at["temp"] # tmp THEN Fail
       ELSE Stage("rename") /\ UNCHANGED <<inode, at, seen, tmp, goal, canceled>>

(* The rename moves whatever the temporary path names by now; the rendered *)
(* file is then looked up again.                                           *)
RenameTemp ==
    /\ stage = "rename"
    /\ \/ /\ at["temp"] # None
          /\ at' = [at EXCEPT ![goal] = at["temp"], !["temp"] = None]
          /\ IF goal = "bak" THEN goal' = "dest" /\ Stage("create")
                             ELSE Stage("confirm") /\ UNCHANGED goal
          /\ UNCHANGED <<inode, seen, tmp, canceled>>
       \/ Fail

openRootRegularFileMatching ==
    /\ stage = "confirm"
    /\ RenderReturns(IF at["dest"] = tmp THEN "ok" ELSE "failed")
    /\ UNCHANGED at

-----------------------------------------------------------------------------
(* The environment.                                                        *)

RenderContextEnds ==
    /\ stage # "idle" /\ ~canceled
    /\ canceled' = TRUE
    /\ UNCHANGED <<inode, at, stage, seen, tmp, goal, result, tries, swaps, crashes>>

(* The agent process dies; the unfinished temporary file keeps its unique  *)
(* name, which no later execution uses.                                    *)
RenderDies ==
    /\ stage # "idle"
    /\ stage' = "idle" /\ crashes' = crashes + 1 /\ result' = "none"
    /\ at' = [at EXCEPT !["temp"] = None] /\ Forget
    /\ UNCHANGED <<inode, tries, swaps>>

(* Another process renames its own file over a path or removes it.         *)
Swap(p) ==
    /\ swaps < MaxSwaps /\ swaps' = swaps + 1
    /\ \/ /\ \E d \in {"foreign", "notfile"} :
               New([data |-> d, mode |-> Readers, of |-> None])
          /\ Len(inode) < MaxInodes /\ at' = [at EXCEPT ![p] = NewInode]
       \/ /\ at[p] # None /\ at' = [at EXCEPT ![p] = None] /\ UNCHANGED inode
    /\ UNCHANGED <<renderMem, tries, crashes>>

RenderNext ==
    \/ executeFileRenderStep \/ prepareFileRenderDestination
    \/ Lstat \/ openRootRegularFileNoSwap \/ verifyExistingFileNoSwap
    \/ backupFileRenderDestination
    \/ CreateTemp \/ FillTemp \/ applyFileRenderMetadataToFile
    \/ verifyRootRegularFileNoSwap \/ RenameTemp \/ openRootRegularFileMatching
    \/ RenderContextEnds \/ RenderDies
    \/ Swap("dest") \/ (stage \in {"fill", "chmod", "check", "rename"} /\ Swap("temp"))

RenderSpec == RenderInit /\ [][RenderNext]_renderVars

-----------------------------------------------------------------------------
(* Properties.                                                             *)

Holds(p, d) == at[p] # None /\ inode[at[p]].data = d
InPlace == Holds("dest", "new") /\ inode[at["dest"]].mode = RequestedMode

(* The state has its shape, and a name refers to a file that exists.       *)
FileRenderTypeOK ==
    /\ inode \in Seq(File) /\ Len(inode) <= MaxInodes
    /\ at \in [Paths -> 0 .. Len(inode)]
    /\ seen \in 0 .. Len(inode) /\ tmp \in 0 .. Len(inode)
    /\ goal \in {"dest", "bak"} /\ canceled \in BOOLEAN
    /\ result \in {"none", "ok", "failed"}

(* Neither the destination nor the backup ever names a half-written file,  *)
(* wherever the agent died and whatever was put at the paths meanwhile:    *)
(* "cancellation, crashes, and retry can leave partial files" is why       *)
(* writing directly was rejected (ADR-0027).                               *)
NeverPartial == ~Holds("dest", "partial") /\ ~Holds("bak", "partial")

(* A copy of an earlier file can be read by nobody who could not read the  *)
(* original, other than the agent itself while the copy is private; this   *)
(* holds of copies a crash left behind too.                                *)
BackupNotWidened ==
    \A i \in 1 .. Len(inode) :
        inode[i].of # None => inode[i].mode \subseteq inode[inode[i].of].mode \cup PrivateMode

(* No foreign process: once the rendered bytes have replaced the file that *)
(* was there at first, the backup holds that file, however many executions *)
(* it took and wherever they were cancelled or died.                       *)
BackupKeepsReplaced ==
    (Backup /\ swaps = 0 /\ Holds("dest", "new") /\ inode[1].data = "old") => Holds("bak", "old")

(* An execution that reports success leaves the rendered bytes and their   *)
(* metadata at the destination at the moment it returns.                   *)
SuccessMeansInPlace == [][result' = "ok" /\ result # "ok" => InPlace']_renderVars

(* No foreign process: once in place, later executions of the same step    *)
(* rewrite neither the destination nor the backup.                         *)
RetryKeepsFiles ==
    [][swaps' = 0 /\ InPlace => at'["dest"] = at["dest"] /\ at'["bak"] = at["bak"]]_renderVars

(* Between executions no temporary file is left, except the one of an      *)
(* execution that died: every early return removes it.                     *)
TempRemoved == stage = "idle" => at["temp"] = None

(* What a render keeps whatever dies, is canceled or is swapped under it.   *)
FileRenderSafe ==
    NeverPartial /\ BackupNotWidened /\ BackupKeepsReplaced /\ TempRemoved
=============================================================================
