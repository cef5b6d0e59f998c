----------------------------- MODULE Worktrees -----------------------------
(***************************************************************************)
(* scripts/setup-worktree.mjs and teardown-worktree.mjs: every linked git  *)
(* worktree gets a slot, from which its host ports follow, and a Docker    *)
(* Compose project named after its branch. The state is in files: the slot *)
(* in git's metadata of the worktree, slot and project in its .worktree,   *)
(* the ports of its infrastructure in infra/.env, the secrets in one file  *)
(* of the user. Several worktrees may be set up at one time (pnpm install  *)
(* runs the script), and a script may be killed.                           *)
(*                                                                         *)
(* The main checkout has slot 0 and a project of its own, and takes no     *)
(* part. git and docker compose are modelled from how the scripts and the  *)
(* Makefile use them.                                                      *)
(***************************************************************************)
EXTENDS Naturals

CONSTANTS
  Worktree,  \* names of linked worktrees
  Branch,    \* branches they may have checked out
  Project,   \* Compose project names
  projectOf, \* branchToSlug: the project a branch gives, not always one of its own
  MaxSlot,   \* bound: the slots there are
  MaxMishaps,\* bound: branches left, directories deleted, scripts killed, ...
  Secret,    \* values the generator of a secret may return
  None       \* no file, no slot, no project

HEAD == "HEAD"        \* what git says instead of a branch when there is none
UNKNOWN == "unknown"  \* what the script says when git fails
Head == Branch \union {HEAD}
Name == Head \union {UNKNOWN}
Slot == 1 .. MaxSlot
Default == 0          \* the host ports of the Compose file itself, without an .env

ASSUME WorktreesAssumption ==
  /\ projectOf \in [Name -> Project]
  /\ HEAD \notin Branch /\ UNKNOWN \notin Branch
  /\ MaxSlot \in Nat /\ MaxMishaps \in Nat
  /\ None \notin Project \union Slot \union {Default} \union Secret \union Worktree

VARIABLES
  git,          \* of each worktree: "none", "present", or "stale" (directory gone)
  head,         \* what it has checked out
  slotFile,     \* worktree-slot in its metadata, or None
  slot,         \* WORKTREE_SLOT of its .worktree, or None
  project,      \* COMPOSE_PROJECT_NAME of its .worktree, or None
  envSlot,      \* the slot whose ports its infra/.env names, Default without one
  script,       \* where the script that runs for it is
  picked,       \* what that script has read: a slot, then the secret
  secretEnv,    \* CURSOR_SECRET of the user's secret.env, or None
  ingress,      \* of each project's containers: the slot whose ingress port they have,
  ports,        \* and whose other host ports, or None
  startedBy,    \* history: the worktree that started them,
  setUpFor,     \* the branch the script found when it wrote .worktree, HEAD without one,
  ready,        \* whether a setup ran to its end and no teardown came after it,
  strayed,      \* whether it left the branch it was set up for, was set up for none or
                \* when git failed, was removed while containers of it ran, started
                \* them when it was not ready, or docker compose did not take them down
                \* (ever, until it is removed and nothing of it runs),
  slotRaced,    \* whether another setup stood between scan and claim in its own scan,
  secretRaced,  \* and whether two setups have had secret.env read and not yet written
  mishaps       \* how often something failed or went on behind the scripts' back

gitVars    == <<git, head>>
fileVars   == <<slotFile, slot, project, envSlot>>
scriptVars == <<script, picked>>
dockerVars == <<ingress, ports, startedBy>>
ownVars    == <<setUpFor, ready, strayed>>
raceVars   == <<slotRaced, secretRaced>>
vars == <<gitVars, fileVars, scriptVars, secretEnv, dockerVars, ownVars, raceVars, mishaps>>

SetupStep == {"scanned", "claimed", "written", "secretsRead", "secretsWritten"}
Present(w) == git[w] = "present"
Idle(w) == script[w] = "idle"
Mishap == mishaps < MaxMishaps /\ mishaps' = mishaps + 1

\* Types of the files, of what runs, and of the history; a .worktree names a
\* slot and a project, or is not there.
TypeOK ==
  /\ git \in [Worktree -> {"none", "present", "stale"}]
  /\ head \in [Worktree -> Head]
  /\ slotFile \in [Worktree -> Slot \union {None}]
  /\ slot \in [Worktree -> Slot \union {None}]
  /\ project \in [Worktree -> Project \union {None}]
  /\ envSlot \in [Worktree -> Slot \union {Default}]
  /\ script \in [Worktree -> SetupStep \union {"idle", "down"}]
  /\ picked \in [Worktree -> Slot \union Secret \union {None}]
  /\ secretEnv \in Secret \union {None}
  /\ ingress \in [Project -> Slot \union {None}]
  /\ ports \in [Project -> Slot \union {Default, None}]
  /\ startedBy \in [Project -> Worktree \union {None}]
  /\ setUpFor \in [Worktree -> Name]
  /\ ready \in [Worktree -> BOOLEAN]
  /\ strayed \in [Worktree -> BOOLEAN]
  /\ slotRaced \in [Worktree -> BOOLEAN]
  /\ secretRaced \in BOOLEAN
  /\ mishaps \in 0 .. MaxMishaps
  /\ \A w \in Worktree : slot[w] = None <=> project[w] = None

Init ==
  /\ git = [w \in Worktree |-> "none"]
  /\ head = [w \in Worktree |-> HEAD]
  /\ slotFile = [w \in Worktree |-> None]
  /\ slot = [w \in Worktree |-> None]
  /\ project = [w \in Worktree |-> None]
  /\ envSlot = [w \in Worktree |-> Default]
  /\ script = [w \in Worktree |-> "idle"]
  /\ picked = [w \in Worktree |-> None]
  /\ secretEnv = None
  /\ ingress = [p \in Project |-> None]
  /\ ports = [p \in Project |-> None]
  /\ startedBy = [p \in Project |-> None]
  /\ setUpFor = [w \in Worktree |-> HEAD]
  /\ ready = [w \in Worktree |-> FALSE]
  /\ strayed = [w \in Worktree |-> FALSE]
  /\ slotRaced = [w \in Worktree |-> FALSE]
  /\ secretRaced = FALSE
  /\ mishaps = 0

----------------------------------------------------------------------------
(* git. A branch is checked out in one worktree at most, a stale one       *)
(* included.                                                               *)

MayCheckOut(w, h) ==
  h = HEAD \/ \A v \in Worktree \ {w} : git[v] = "none" \/ head[v] # h

AddWorktree(w, h) ==
  /\ git[w] = "none"
  /\ MayCheckOut(w, h)
  /\ git' = [git EXCEPT ![w] = "present"]
  /\ head' = [head EXCEPT ![w] = h]
  /\ UNCHANGED <<fileVars, scriptVars, secretEnv, dockerVars, ownVars, raceVars, mishaps>>

\* Another branch; what was set up for the one before stays as it is.
Checkout(w, h) ==
  /\ Present(w)
  /\ h # head[w]
  /\ MayCheckOut(w, h)
  /\ head' = [head EXCEPT ![w] = h]
  /\ strayed' = [strayed EXCEPT ![w] = strayed[w] \/ project[w] # None \/ ~Idle(w)]
  /\ Mishap
  /\ UNCHANGED <<git, fileVars, scriptVars, secretEnv, dockerVars, setUpFor, ready, raceVars>>

\* What is in the directory of a worktree goes with it.
LoseFiles(w) ==
  /\ slot' = [slot EXCEPT ![w] = None]
  /\ project' = [project EXCEPT ![w] = None]
  /\ envSlot' = [envSlot EXCEPT ![w] = Default]
  /\ setUpFor' = [setUpFor EXCEPT ![w] = HEAD]
  /\ ready' = [ready EXCEPT ![w] = FALSE]

\* The directory is deleted without a teardown.
DeleteDirectory(w) ==
  /\ Present(w)
  /\ Idle(w)
  /\ git' = [git EXCEPT ![w] = "stale"]
  /\ LoseFiles(w)
  /\ Mishap
  /\ UNCHANGED <<head, slotFile, scriptVars, secretEnv, dockerVars, strayed, raceVars>>

\* git worktree remove, or prune: its metadata go, the slot file with them.
RemoveWorktree(w) ==
  /\ git[w] # "none"
  /\ Idle(w)
  /\ git' = [git EXCEPT ![w] = "none"]
  /\ slotFile' = [slotFile EXCEPT ![w] = None]
  /\ strayed' = [strayed EXCEPT ![w] = \E p \in Project : startedBy[p] = w]
  /\ LoseFiles(w)
  /\ head' = [head EXCEPT ![w] = HEAD]
  /\ IF Present(w) THEN Mishap ELSE UNCHANGED mishaps
  /\ UNCHANGED <<scriptVars, secretEnv, dockerVars, raceVars>>

----------------------------------------------------------------------------
(* setup-worktree.mjs                                                      *)

\* Mutant of Claimed: the script looks at the slots of live worktrees only.
ClaimedByLive == {slotFile[w] : w \in {v \in Worktree : Present(v)}}

Claimed == {slotFile[w] : w \in Worktree}

LowestUnclaimed(s) == s \notin Claimed /\ \A t \in Slot : t < s => t \in Claimed

\* Another setup has scanned the slot files and not yet claimed a slot.
Scanning(w) == \E v \in Worktree \ {w} : script[v] = "scanned"

\* resolveSlot, up to its scan of the slot files: a slot of its own is reused.
ScanSlots(w) ==
  /\ Present(w)
  /\ Idle(w)
  /\ \E s \in Slot :
       /\ IF slotFile[w] # None THEN s = slotFile[w] ELSE LowestUnclaimed(s)
       /\ picked' = [picked EXCEPT ![w] = s]
  /\ script' = [script EXCEPT ![w] = "scanned"]
  /\ slotRaced' = [v \in Worktree |->
                     slotRaced[v] \/ (Scanning(w) /\ (v = w \/ script[v] = "scanned"))]
  /\ UNCHANGED <<gitVars, fileVars, secretEnv, dockerVars, ownVars, secretRaced, mishaps>>

\* resolveSlot: the slot is written down.
ClaimSlot(w) ==
  /\ script[w] = "scanned"
  /\ slotFile' = [slotFile EXCEPT ![w] = picked[w]]
  /\ script' = [script EXCEPT ![w] = "claimed"]
  /\ UNCHANGED <<gitVars, slot, project, envSlot, picked, secretEnv, dockerVars, ownVars, raceVars, mishaps>>

\* Mutant of ProjectFor: a file that has the right slot is left as it is.
ProjectForNewSlot(w, h) == IF slot[w] = picked[w] THEN project[w] ELSE projectOf[h]

\* getProjectName.
ProjectFor(w, h) == projectOf[h]

\* getCurrentBranch, which may fail, getProjectName, and .worktree is written.
WriteWorktreeFile(w) ==
  /\ script[w] = "claimed"
  /\ \E h \in {head[w], UNKNOWN} :
       /\ project' = [project EXCEPT ![w] = ProjectFor(w, h)]
       /\ setUpFor' = [setUpFor EXCEPT ![w] = h]
       /\ strayed' = [strayed EXCEPT ![w] = strayed[w] \/ h \in {HEAD, UNKNOWN}]
       /\ IF h = UNKNOWN THEN Mishap ELSE UNCHANGED mishaps
  /\ slot' = [slot EXCEPT ![w] = picked[w]]
  /\ picked' = [picked EXCEPT ![w] = None]
  /\ script' = [script EXCEPT ![w] = "written"]
  /\ UNCHANGED <<gitVars, slotFile, envSlot, secretEnv, dockerVars, ready, raceVars>>

\* Mutant of GenerateSecret: a secret is generated every time.
GenerateSecretAgain(s) == s \in Secret

\* A secret is generated only if the file has none.
GenerateSecret(s) == secretEnv # None => s = secretEnv

\* syncKnownSecrets reads secret.env and generates what it misses ...
ReadSecrets(w) ==
  /\ script[w] = "written"
  /\ \E s \in Secret :
       /\ GenerateSecret(s)
       /\ picked' = [picked EXCEPT ![w] = s]
  /\ script' = [script EXCEPT ![w] = "secretsRead"]
  /\ secretRaced' = (secretRaced \/ \E v \in Worktree : script[v] = "secretsRead")
  /\ UNCHANGED <<gitVars, fileVars, secretEnv, dockerVars, ownVars, slotRaced, mishaps>>

\* ... and writes the whole file.
WriteSecrets(w) ==
  /\ script[w] = "secretsRead"
  /\ secretEnv' = picked[w]
  /\ script' = [script EXCEPT ![w] = "secretsWritten"]
  /\ picked' = [picked EXCEPT ![w] = None]
  /\ UNCHANGED <<gitVars, fileVars, dockerVars, ownVars, raceVars, mishaps>>

\* generateAllEnvFiles: infra/.env, from the slot this setup has.
WriteEnvFiles(w) ==
  /\ script[w] = "secretsWritten"
  /\ envSlot' = [envSlot EXCEPT ![w] = slot[w]]
  /\ ready' = [ready EXCEPT ![w] = TRUE]
  /\ script' = [script EXCEPT ![w] = "idle"]
  /\ UNCHANGED <<gitVars, slotFile, slot, project, picked, secretEnv, dockerVars, setUpFor, strayed, raceVars, mishaps>>

\* The script, of setup or teardown, is killed or fails (postinstall ignores it).
Interrupt(w) ==
  /\ ~Idle(w)
  /\ script' = [script EXCEPT ![w] = "idle"]
  /\ picked' = [picked EXCEPT ![w] = None]
  /\ Mishap
  /\ UNCHANGED <<gitVars, fileVars, secretEnv, dockerVars, ownVars, raceVars>>

----------------------------------------------------------------------------
(* The Makefile and teardown-worktree.mjs                                  *)

\* make infra-start, then apps-start or dev, which export the ingress port of
\* .worktree; Compose takes the other host ports from infra/.env. They start if
\* no other project has these ports; containers of the project are recreated.
Up(w) ==
  /\ Present(w)
  /\ Idle(w)
  /\ project[w] # None
  /\ \A p \in Project \ {project[w]} : ingress[p] # slot[w] /\ ports[p] # envSlot[w]
  /\ ingress' = [ingress EXCEPT ![project[w]] = slot[w]]
  /\ ports' = [ports EXCEPT ![project[w]] = envSlot[w]]
  /\ startedBy' = [startedBy EXCEPT ![project[w]] = w]
  /\ strayed' = [strayed EXCEPT ![w] = strayed[w] \/ ~ready[w]]
  /\ UNCHANGED <<gitVars, fileVars, scriptVars, secretEnv, setUpFor, ready, raceVars, mishaps>>

\* The containers of a project are gone.
TakeDown(q) ==
  /\ ingress' = [p \in Project |-> IF p = q THEN None ELSE ingress[p]]
  /\ ports' = [p \in Project |-> IF p = q THEN None ELSE ports[p]]
  /\ startedBy' = [p \in Project |-> IF p = q THEN None ELSE startedBy[p]]

\* make apps-stop, infra-stop.
Stop(w) ==
  /\ Present(w)
  /\ Idle(w)
  /\ project[w] # None
  /\ TakeDown(project[w])
  /\ UNCHANGED <<gitVars, fileVars, scriptVars, secretEnv, ownVars, raceVars, mishaps>>

\* The project a teardown takes down: that of .worktree, or, for a slot file
\* whose worktree is gone, that of the branch in git's metadata. Without a
\* branch that is a name made of the commit's hash, which no setup ever gives.
TeardownProject(w) ==
  IF Present(w) THEN project[w]
  ELSE IF head[w] = HEAD THEN None ELSE projectOf[head[w]]

\* runComposeDown, for both Compose files: docker compose down with volumes and
\* orphans. One that fails, or has no Compose file, is passed over.
TearDown(w) ==
  /\ git[w] = "stale" \/ (Present(w) /\ project[w] # None)
  /\ git[w] = "stale" => slotFile[w] # None
  /\ Idle(w)
  /\ \/ TakeDown(TeardownProject(w)) /\ UNCHANGED <<strayed, mishaps>>
     \/ /\ strayed' = [v \in Worktree |-> strayed[v] \/
                         \E p \in Project : p = TeardownProject(w) /\ startedBy[p] = v]
        /\ Mishap
        /\ UNCHANGED dockerVars
  /\ script' = [script EXCEPT ![w] = "down"]
  /\ UNCHANGED <<gitVars, fileVars, picked, secretEnv, setUpFor, ready, raceVars>>

\* Mutant of ReleaseSlot: the slot is released first.
ReleaseSlotFirst(w) ==
  /\ Present(w)
  /\ Idle(w)
  /\ slotFile' = [slotFile EXCEPT ![w] = None]
  /\ ready' = [ready EXCEPT ![w] = FALSE]
  /\ UNCHANGED <<gitVars, slot, project, envSlot, scriptVars, secretEnv, dockerVars, setUpFor, strayed, raceVars, mishaps>>

\* releaseSlotFile.
ReleaseSlot(w) ==
  /\ script[w] = "down"
  /\ slotFile' = [slotFile EXCEPT ![w] = None]
  /\ ready' = [ready EXCEPT ![w] = FALSE]
  /\ script' = [script EXCEPT ![w] = "idle"]
  /\ UNCHANGED <<gitVars, slot, project, envSlot, picked, secretEnv, dockerVars, setUpFor, strayed, raceVars, mishaps>>

Next ==
  \E w \in Worktree :
    \/ \E h \in Head : AddWorktree(w, h) \/ Checkout(w, h)
    \/ DeleteDirectory(w) \/ RemoveWorktree(w)
    \/ ScanSlots(w) \/ ClaimSlot(w) \/ WriteWorktreeFile(w)
    \/ ReadSecrets(w) \/ WriteSecrets(w) \/ WriteEnvFiles(w)
    \/ Interrupt(w)
    \/ Up(w) \/ Stop(w)
    \/ TearDown(w) \/ ReleaseSlot(w)

Spec == Init /\ [][Next]_vars

----------------------------------------------------------------------------
(* Properties.                                                             *)

\* Two worktrees, stale ones included, hold one slot only if both scanned the
\* slot files before the other had claimed: nothing locks them in between.
SlotsDiffer ==
  \A v, w \in Worktree :
    v # w /\ slotFile[v] # None /\ slotFile[v] = slotFile[w] => slotRaced[v] /\ slotRaced[w]

SameSlug(g, h) == g # h /\ projectOf[g] = projectOf[h]
Left(w) == setUpFor[w] # UNKNOWN /\ head[w] # setUpFor[w]

\* Two worktrees whose .worktree names one project, so that a teardown of one
\* deletes the other's volumes, have branches of one slug, have none, were both
\* set up when git failed to tell the branch, or one of them has left the branch
\* it was set up for.
ProjectsDiffer ==
  \A v, w \in Worktree :
    Present(v) /\ Present(w) /\ v # w /\ project[v] # None /\ project[v] = project[w]
      => \/ Left(v) \/ Left(w)
         \/ SameSlug(setUpFor[v], setUpFor[w])
         \/ setUpFor[v] = setUpFor[w] /\ setUpFor[v] \in {HEAD, UNKNOWN}

\* Containers run on the ports of a slot their worktree still holds, however
\* its directory, its scripts and its neighbours came and went: a released slot
\* can be given away. Not so if the worktree started them before a setup had run
\* to its end or after a teardown, if it ever left the branch it was set up for,
\* was set up for none or when git failed, if it was removed without a teardown,
\* and if docker compose did not take them down when it was torn down.
PortsAreReserved ==
  \A p \in Project :
    LET w == startedBy[p]
    IN  w # None /\ ~strayed[w] => slotFile[w] = ports[p] /\ slotFile[w] = ingress[p]

\* A secret that was generated is never replaced, unless two setups have had
\* secret.env read at one time: each completes it and writes all of it.
SecretIsKept ==
  [][~secretRaced /\ secretEnv # None => secretEnv' = secretEnv]_vars

=============================================================================
