-------------------------- MODULE WorktreesProofs --------------------------
(***************************************************************************)
(* Proofs about Worktrees: types, that slots and projects are told apart,  *)
(* that running containers keep their slot, and that a secret is kept, for *)
(* any number of worktrees, branches and slots.                            *)
(***************************************************************************)
EXTENDS Worktrees, TLAPS

----------------------------------------------------------------------------
(* Types.                                                                  *)

\* What a script has read is a slot until .worktree is written, then a secret; a
\* script that goes on has a .worktree.
PickedOK ==
  \A w \in Worktree :
    /\ script[w] \in {"scanned", "claimed"} => picked[w] \in Slot
    /\ script[w] = "secretsRead" => picked[w] \in Secret
    /\ script[w] \in {"written", "secretsRead", "secretsWritten"} => slot[w] # None

TypeInv == TypeOK /\ PickedOK

LEMMA TypeInit == Init => TypeInv
<1> SUFFICES ASSUME Init PROVE TypeOK /\ PickedOK
  BY DEF TypeInv
<1>1. PickedOK
  BY DEF Init, PickedOK
<1>2. TypeOK
  <2>1. HEAD \in Name /\ 0 \in 0 .. MaxMishaps /\ Default \in Slot \union {Default}
    BY WorktreesAssumption DEF Head, Name
  <2>2. \A w \in Worktree : slot[w] = None <=> project[w] = None
    BY DEF Init
  <2> QED
    BY <2>1, <2>2 DEF Init, TypeOK, Head
<1> QED
  BY <1>1, <1>2

LEMMA TypeStep == TypeInv /\ [Next]_vars => TypeInv'
<1> SUFFICES ASSUME TypeInv, [Next]_vars PROVE TypeInv'
  OBVIOUS
<1> USE WorktreesAssumption DEF TypeInv, TypeOK, PickedOK, SetupStep, Idle, Present
<1>1. CASE UNCHANGED vars
  BY <1>1 DEF vars, gitVars, fileVars, scriptVars, dockerVars, ownVars, raceVars
<1>2. CASE Next
  <2> PICK w \in Worktree :
        \/ \E h \in Head : AddWorktree(w, h) \/ Checkout(w, h)
        \/ DeleteDirectory(w) \/ RemoveWorktree(w)
        \/ ScanSlots(w) \/ ClaimSlot(w) \/ WriteWorktreeFile(w)
        \/ ReadSecrets(w) \/ WriteSecrets(w) \/ WriteEnvFiles(w) \/ Interrupt(w)
        \/ Up(w) \/ Stop(w) \/ TearDown(w) \/ ReleaseSlot(w)
    BY <1>2 DEF Next
  <2> USE DEF gitVars, fileVars, scriptVars, dockerVars, ownVars, raceVars
  <2>1. CASE \E h \in Head : AddWorktree(w, h)
    BY <2>1 DEF AddWorktree
  <2>2. CASE \E h \in Head : Checkout(w, h)
    BY <2>2 DEF Checkout, Mishap
  <2>3. CASE DeleteDirectory(w)
    BY <2>3 DEF DeleteDirectory, LoseFiles, Mishap, Name, Head
  <2>4. CASE RemoveWorktree(w)
    BY <2>4 DEF RemoveWorktree, LoseFiles, Mishap, Head, Name
  <2>5. CASE ScanSlots(w)
    BY <2>5 DEF ScanSlots
  <2>6. CASE ClaimSlot(w)
    BY <2>6 DEF ClaimSlot
  <2>7. CASE WriteWorktreeFile(w)
    BY <2>7 DEF WriteWorktreeFile, ProjectFor, Mishap, Name
  <2>8. CASE ReadSecrets(w)
    BY <2>8 DEF ReadSecrets
  <2>9. CASE WriteSecrets(w)
    BY <2>9 DEF WriteSecrets
  <2>10. CASE WriteEnvFiles(w)
    BY <2>10 DEF WriteEnvFiles
  <2>11. CASE Interrupt(w)
    BY <2>11 DEF Interrupt, Mishap
  <2>12. CASE Up(w)
    BY <2>12 DEF Up
  <2>13. CASE Stop(w)
    BY <2>13 DEF Stop, TakeDown
  <2>14. CASE TearDown(w)
    <3>1. strayed' \in [Worktree -> BOOLEAN]
      <4> DEFINE caught == [u \in Worktree |-> strayed[u] \/
                              \E q \in Project : q = TeardownProject(w) /\ startedBy[q] = u]
      <4>1. strayed' = strayed \/ strayed' = caught
        BY <2>14 DEF TearDown
      <4>2. caught \in [Worktree -> BOOLEAN]
        BY Zenon
      <4> QED
        BY <4>1, <4>2
    <3>2. mishaps' \in 0 .. MaxMishaps
      BY <2>14 DEF TearDown, Mishap
    <3>3. /\ ingress' \in [Project -> Slot \union {None}]
          /\ ports' \in [Project -> Slot \union {Default, None}]
          /\ startedBy' \in [Project -> Worktree \union {None}]
      BY <2>14 DEF TearDown, TakeDown
    <3> QED
      BY <2>14, <3>1, <3>2, <3>3 DEF TearDown
  <2>15. CASE ReleaseSlot(w)
    BY <2>15 DEF ReleaseSlot
  <2> QED
    BY <2>1, <2>2, <2>3, <2>4, <2>5, <2>6, <2>7, <2>8, <2>9, <2>10, <2>11, <2>12, <2>13, <2>14, <2>15
<1> QED
  BY <1>1, <1>2

\* Types of the files, of the scripts and of the containers, whatever the
\* scripts and the user do.
THEOREM TypeCorrect == Spec => []TypeOK
<1>1. Spec => []TypeInv
  BY TypeInit, TypeStep, PTL DEF Spec
<1>2. TypeInv => TypeOK
  BY DEF TypeInv
<1> QED
  BY <1>1, <1>2, PTL

----------------------------------------------------------------------------
(* Slots and secrets.                                                      *)

\* Two setups between scan and claim have raced, or picked different slots.
PicksDiffer ==
  \A v, w \in Worktree :
    v # w /\ script[v] = "scanned" /\ script[w] = "scanned" /\ picked[v] = picked[w]
      => slotRaced[v] /\ slotRaced[w]

\* The slot a setup has picked is no other worktree's, and its own if it had one.
PickedIsFree ==
  \A w \in Worktree : script[w] = "scanned" =>
    /\ \A v \in Worktree \ {w} :
         slotFile[v] = picked[w] => slotRaced[v] /\ slotRaced[w]
    /\ slotFile[w] # None => slotFile[w] = picked[w]

\* The secret a setup will write is the one there is, and only one will.
SecretIsRead ==
  ~secretRaced =>
    /\ \A v, w \in Worktree : script[v] = "secretsRead" /\ script[w] = "secretsRead" => v = w
    /\ \A w \in Worktree :
         script[w] = "secretsRead" /\ secretEnv # None => picked[w] = secretEnv

SetupInv == TypeInv /\ PicksDiffer /\ PickedIsFree /\ SlotsDiffer /\ SecretIsRead

LEMMA SetupInit == Init => SetupInv
<1> SUFFICES ASSUME Init PROVE PicksDiffer /\ PickedIsFree /\ SlotsDiffer /\ SecretIsRead
  BY TypeInit DEF SetupInv
<1> QED
  BY DEF Init, PicksDiffer, PickedIsFree, SlotsDiffer, SecretIsRead, SetupStep

LEMMA SetupStepInv == SetupInv /\ [Next]_vars => SetupInv'
<1> SUFFICES ASSUME SetupInv, [Next]_vars
             PROVE (PicksDiffer /\ PickedIsFree /\ SlotsDiffer /\ SecretIsRead)'
  BY TypeStep DEF SetupInv
<1> USE WorktreesAssumption
    DEF SetupInv, TypeInv, TypeOK, PickedOK, PicksDiffer, PickedIsFree, SlotsDiffer, SecretIsRead,
        SetupStep, Idle, Present, gitVars, fileVars, scriptVars, dockerVars, ownVars, raceVars
<1>1. CASE UNCHANGED vars
  BY <1>1 DEF vars
<1>2. CASE Next
  <2> PICK w \in Worktree :
        \/ \E h \in Head : AddWorktree(w, h) \/ Checkout(w, h)
        \/ DeleteDirectory(w) \/ RemoveWorktree(w)
        \/ ScanSlots(w) \/ ClaimSlot(w) \/ WriteWorktreeFile(w)
        \/ ReadSecrets(w) \/ WriteSecrets(w) \/ WriteEnvFiles(w) \/ Interrupt(w)
        \/ Up(w) \/ Stop(w) \/ TearDown(w) \/ ReleaseSlot(w)
    BY <1>2 DEF Next
  <2>1. CASE \E h \in Head : AddWorktree(w, h) \/ Checkout(w, h)
    BY <2>1 DEF AddWorktree, Checkout
  <2>2. CASE DeleteDirectory(w)
    BY <2>2 DEF DeleteDirectory, LoseFiles
  <2>3. CASE RemoveWorktree(w)
    BY <2>3 DEF RemoveWorktree, LoseFiles
  <2>4. CASE ScanSlots(w)
    <3> PICK s \in Slot :
          /\ IF slotFile[w] # None THEN s = slotFile[w] ELSE s \notin Claimed
          /\ picked' = [picked EXCEPT ![w] = s]
      BY <2>4 DEF ScanSlots, LowestUnclaimed
    <3>1. \A v \in Worktree \ {w} : slotFile[v] = s => slotRaced[v] /\ slotRaced[w]
      BY DEF Claimed
    <3>2. \A v \in Worktree : slotRaced[v] => slotRaced'[v]
      BY <2>4 DEF ScanSlots
    <3>3. \A v \in Worktree \ {w} : script[v] = "scanned" => slotRaced'[v] /\ slotRaced'[w]
      <4> SUFFICES ASSUME NEW v \in Worktree \ {w}, script[v] = "scanned"
                   PROVE slotRaced'[v] /\ slotRaced'[w]
        OBVIOUS
      <4>1. Scanning(w)
        BY DEF Scanning
      <4> QED
        BY <2>4, <4>1 DEF ScanSlots
    <3>4. PicksDiffer'
      BY <2>4, <3>2, <3>3 DEF ScanSlots
    <3>5. PickedIsFree'
      BY <2>4, <3>1, <3>2 DEF ScanSlots
    <3>6. SlotsDiffer' /\ SecretIsRead'
      BY <2>4, <3>2 DEF ScanSlots
    <3> QED
      BY <3>4, <3>5, <3>6
  <2>5. CASE ClaimSlot(w)
    BY <2>5 DEF ClaimSlot
  <2>6. CASE WriteWorktreeFile(w)
    BY <2>6 DEF WriteWorktreeFile
  <2>7. CASE ReadSecrets(w)
    <3>1. secretRaced' <=> secretRaced \/ \E v \in Worktree : script[v] = "secretsRead"
      BY <2>7, Zenon DEF ReadSecrets
    <3>2. SecretIsRead'
      BY <2>7, <3>1 DEF ReadSecrets, GenerateSecret
    <3> QED
      BY <2>7, <3>2 DEF ReadSecrets
  <2>8. CASE WriteSecrets(w)
    BY <2>8 DEF WriteSecrets
  <2>9. CASE WriteEnvFiles(w)
    BY <2>9 DEF WriteEnvFiles
  <2>10. CASE Interrupt(w)
    BY <2>10 DEF Interrupt
  <2>11. CASE Up(w)
    BY <2>11 DEF Up
  <2>12. CASE Stop(w)
    BY <2>12 DEF Stop
  <2>13. CASE TearDown(w)
    BY <2>13 DEF TearDown
  <2>14. CASE ReleaseSlot(w)
    BY <2>14 DEF ReleaseSlot
  <2> QED
    BY <2>1, <2>2, <2>3, <2>4, <2>5, <2>6, <2>7, <2>8, <2>9, <2>10, <2>11, <2>12, <2>13, <2>14
<1> QED
  BY <1>1, <1>2

LEMMA SetupAlways == Spec => []SetupInv
  BY SetupInit, SetupStepInv, PTL DEF Spec

\* Unless both scanned before the other had claimed (resolveSlot of
\* setup-worktree.mjs scans and then writes), no two worktrees hold one slot.
THEOREM SlotsAreDifferent == Spec => []SlotsDiffer
<1>1. SetupInv => SlotsDiffer
  BY DEF SetupInv
<1> QED
  BY <1>1, SetupAlways, PTL

\* Unless two setups have had secret.env read at one time, syncKnownSecrets never
\* replaces a secret.
THEOREM SecretStays == Spec => SecretIsKept
<1>1. ASSUME SetupInv, [Next]_vars
      PROVE ~secretRaced /\ secretEnv # None => secretEnv' = secretEnv
  <2>1. CASE UNCHANGED vars
    BY <2>1 DEF vars
  <2>2. CASE \E w \in Worktree : WriteSecrets(w)
    BY <1>1, <2>2 DEF SetupInv, SecretIsRead, WriteSecrets
  <2>3. CASE Next /\ ~(\E w \in Worktree : WriteSecrets(w))
    BY <2>3 DEF Next, AddWorktree, Checkout, DeleteDirectory, RemoveWorktree, ScanSlots, ClaimSlot,
                WriteWorktreeFile, ReadSecrets, WriteEnvFiles, Interrupt, Up, Stop, TearDown,
                ReleaseSlot
  <2> QED
    BY <1>1, <2>1, <2>2, <2>3
<1> QED
  BY <1>1, SetupAlways, PTL DEF Spec, SecretIsKept

----------------------------------------------------------------------------
(* Branches, projects and ports.                                           *)

\* A setup runs in its worktree, and .worktree is a file of it.
InWorktree ==
  \A w \in Worktree : script[w] \in SetupStep \/ project[w] # None => Present(w)

\* A branch is checked out once; a project is that of the branch set up for.
BranchesDiffer ==
  \A v, w \in Worktree :
    git[v] # "none" /\ git[w] # "none" /\ head[v] = head[w] /\ v # w => head[v] = HEAD

ProjectOfBranch ==
  \A w \in Worktree : project[w] # None => project[w] = projectOf[setUpFor[w]]

\* Whoever started containers is still set up for the branch it is on, as long
\* as it has not strayed; after the teardown it is at nothing of it runs.
StartedBySetUp ==
  \A p \in Project, w \in Worktree : startedBy[p] = w /\ ~strayed[w] =>
    /\ git[w] # "none"
    /\ Present(w) => project[w] # None
    /\ head[w] \in Branch
    /\ projectOf[head[w]] = p
    /\ script[w] # "down"

SetUpForHead ==
  \A w \in Worktree : project[w] # None /\ ~strayed[w] =>
    setUpFor[w] = head[w] /\ head[w] \in Branch

\* After a complete setup slot file, .worktree and infra/.env agree, while later
\* setups run too.
FilesAgree ==
  \A w \in Worktree : ready[w] =>
    /\ slotFile[w] # None
    /\ slot[w] = slotFile[w] /\ envSlot[w] = slotFile[w]

StartedPorts ==
  \A p \in Project : startedBy[p] # None => ports[p] # None

\* What is picked, and then in .worktree, is what the slot file says.
SlotIsWritten ==
  \A w \in Worktree :
    /\ script[w] = "claimed" => slotFile[w] = picked[w]
    /\ script[w] \in {"written", "secretsRead", "secretsWritten"} =>
         slot[w] = slotFile[w] /\ slotFile[w] # None

DockerInv ==
  /\ SetupInv
  /\ InWorktree /\ BranchesDiffer /\ ProjectOfBranch /\ SetUpForHead
  /\ FilesAgree /\ SlotIsWritten
  /\ StartedBySetUp /\ StartedPorts /\ PortsAreReserved

LEMMA DockerInit == Init => DockerInv
<1> SUFFICES ASSUME Init
             PROVE /\ InWorktree /\ BranchesDiffer /\ ProjectOfBranch /\ SetUpForHead
                   /\ FilesAgree /\ SlotIsWritten
                   /\ StartedBySetUp /\ StartedPorts /\ PortsAreReserved
  BY SetupInit DEF DockerInv
<1> QED
  BY WorktreesAssumption
  DEF Init, SetupStep, Present, InWorktree, BranchesDiffer, ProjectOfBranch, SetUpForHead,
      FilesAgree, SlotIsWritten, StartedBySetUp, StartedPorts, PortsAreReserved

LEMMA DockerStep == DockerInv /\ [Next]_vars => DockerInv'
<1> SUFFICES ASSUME DockerInv, [Next]_vars
             PROVE /\ (InWorktree /\ BranchesDiffer /\ ProjectOfBranch /\ SetUpForHead)'
                   /\ (FilesAgree /\ SlotIsWritten)'
                   /\ (StartedBySetUp /\ StartedPorts /\ PortsAreReserved)'
  BY SetupStepInv DEF DockerInv
<1> TypeOK /\ PickedOK /\ PickedIsFree
  BY DEF DockerInv, SetupInv, TypeInv
<1> USE WorktreesAssumption
    DEF DockerInv, TypeOK, PickedOK, PickedIsFree, InWorktree, BranchesDiffer, ProjectOfBranch,
        SetUpForHead, FilesAgree, SlotIsWritten, StartedBySetUp, StartedPorts, PortsAreReserved, SetupStep,
        Idle, Present, Head, Name, gitVars, fileVars, scriptVars, dockerVars, ownVars, raceVars
<1>1. CASE UNCHANGED vars
  BY <1>1 DEF vars
<1>2. CASE Next
  <2> PICK w \in Worktree :
        \/ \E h \in Head : AddWorktree(w, h) \/ Checkout(w, h)
        \/ DeleteDirectory(w) \/ RemoveWorktree(w)
        \/ ScanSlots(w) \/ ClaimSlot(w) \/ WriteWorktreeFile(w)
        \/ ReadSecrets(w) \/ WriteSecrets(w) \/ WriteEnvFiles(w) \/ Interrupt(w)
        \/ Up(w) \/ Stop(w) \/ TearDown(w) \/ ReleaseSlot(w)
    BY <1>2 DEF Next
  <2>1. CASE \E h \in Head : AddWorktree(w, h)
    <3>1. (InWorktree /\ BranchesDiffer /\ ProjectOfBranch /\ SetUpForHead)'
      BY <2>1 DEF AddWorktree, MayCheckOut
    <3>2. (FilesAgree /\ SlotIsWritten)'
      BY <2>1 DEF AddWorktree, MayCheckOut
    <3>3. StartedBySetUp'
      BY <2>1 DEF AddWorktree, MayCheckOut
    <3>4. StartedPorts' /\ PortsAreReserved'
      BY <2>1 DEF AddWorktree, MayCheckOut
    <3> QED
      BY <3>1, <3>2, <3>3, <3>4
  <2>2. CASE \E h \in Head : Checkout(w, h)
    <3>0. \A v \in Worktree : ~strayed'[v] => ~strayed[v] /\ (v = w => project[v] = None)
      <4>1. strayed' = [strayed EXCEPT ![w] = strayed[w] \/ project[w] # None \/ ~Idle(w)]
        BY <2>2 DEF Checkout
      <4>2. strayed'[w] = (strayed[w] \/ project[w] # None \/ ~Idle(w))
        BY <4>1
      <4>3. ~strayed'[w] => ~strayed[w] /\ project[w] = None
        BY <4>2, Zenon
      <4>4. \A v \in Worktree \ {w} : strayed'[v] = strayed[v]
        BY <4>1
      <4> QED
        BY <4>3, <4>4
    <3>1. (InWorktree /\ BranchesDiffer /\ ProjectOfBranch /\ SetUpForHead)'
      BY <2>2, <3>0 DEF Checkout, MayCheckOut
    <3>2. (FilesAgree /\ SlotIsWritten)'
      BY <2>2 DEF Checkout, MayCheckOut
    <3>3. StartedBySetUp'
      BY <2>2, <3>0 DEF Checkout, MayCheckOut
    <3>4. StartedPorts' /\ PortsAreReserved'
      BY <2>2, <3>0 DEF Checkout, MayCheckOut
    <3> QED
      BY <3>1, <3>2, <3>3, <3>4
  <2>3. CASE DeleteDirectory(w)
    <3>1. (InWorktree /\ BranchesDiffer /\ ProjectOfBranch /\ SetUpForHead)'
      BY <2>3 DEF DeleteDirectory, LoseFiles
    <3>2. (FilesAgree /\ SlotIsWritten)'
      BY <2>3 DEF DeleteDirectory, LoseFiles
    <3>3. StartedBySetUp'
      BY <2>3 DEF DeleteDirectory, LoseFiles
    <3>4. StartedPorts' /\ PortsAreReserved'
      BY <2>3 DEF DeleteDirectory, LoseFiles
    <3> QED
      BY <3>1, <3>2, <3>3, <3>4
  <2>4. CASE RemoveWorktree(w)
    <3>1. (InWorktree /\ BranchesDiffer /\ ProjectOfBranch /\ SetUpForHead)'
      BY <2>4 DEF RemoveWorktree, LoseFiles
    <3>2. (FilesAgree /\ SlotIsWritten)'
      BY <2>4 DEF RemoveWorktree, LoseFiles
    <3>3. StartedBySetUp'
      BY <2>4 DEF RemoveWorktree, LoseFiles
    <3>4. StartedPorts' /\ PortsAreReserved'
      BY <2>4 DEF RemoveWorktree, LoseFiles
    <3> QED
      BY <3>1, <3>2, <3>3, <3>4
  <2>5. CASE ScanSlots(w)
    <3>1. (InWorktree /\ BranchesDiffer /\ ProjectOfBranch /\ SetUpForHead)'
      BY <2>5 DEF ScanSlots
    <3>2. (FilesAgree /\ SlotIsWritten)'
      BY <2>5 DEF ScanSlots
    <3>3. StartedBySetUp'
      BY <2>5 DEF ScanSlots
    <3>4. StartedPorts' /\ PortsAreReserved'
      BY <2>5 DEF ScanSlots
    <3> QED
      BY <3>1, <3>2, <3>3, <3>4
  <2>6. CASE ClaimSlot(w)
    <3>1. (InWorktree /\ BranchesDiffer /\ ProjectOfBranch /\ SetUpForHead)'
      BY <2>6 DEF ClaimSlot
    <3>2. (FilesAgree /\ SlotIsWritten)'
      BY <2>6 DEF ClaimSlot
    <3>3. StartedBySetUp'
      BY <2>6 DEF ClaimSlot
    <3>4. StartedPorts' /\ PortsAreReserved'
      BY <2>6 DEF ClaimSlot
    <3> QED
      BY <3>1, <3>2, <3>3, <3>4
  <2>7. CASE WriteWorktreeFile(w)
    <3> PICK h \in {head[w], UNKNOWN} :
          /\ project' = [project EXCEPT ![w] = projectOf[h]]
          /\ setUpFor' = [setUpFor EXCEPT ![w] = h]
          /\ strayed' = [strayed EXCEPT ![w] = strayed[w] \/ h \in {HEAD, UNKNOWN}]
      BY <2>7 DEF WriteWorktreeFile, ProjectFor
    <3>0. /\ \A v \in Worktree : ~strayed'[v] => ~strayed[v]
          /\ ~strayed'[w] => h = head[w] /\ h \in Branch
      <4>1. strayed'[w] = (strayed[w] \/ h \in {HEAD, UNKNOWN})
        OBVIOUS
      <4>2. ~strayed'[w] => ~strayed[w] /\ h \notin {HEAD, UNKNOWN}
        BY <4>1, Zenon
      <4>3. \A v \in Worktree \ {w} : strayed'[v] = strayed[v]
        OBVIOUS
      <4> QED
        BY <4>2, <4>3
    <3>1. (InWorktree /\ BranchesDiffer /\ ProjectOfBranch /\ SetUpForHead)'
      BY <2>7, <3>0 DEF WriteWorktreeFile
    <3>2. (FilesAgree /\ SlotIsWritten)'
      BY <2>7 DEF WriteWorktreeFile
    <3>3. StartedBySetUp'
      BY <2>7, <3>0 DEF WriteWorktreeFile
    <3>4. StartedPorts' /\ PortsAreReserved'
      BY <2>7, <3>0 DEF WriteWorktreeFile
    <3> QED
      BY <3>1, <3>2, <3>3, <3>4
  <2>8. CASE ReadSecrets(w)
    <3>1. (InWorktree /\ BranchesDiffer /\ ProjectOfBranch /\ SetUpForHead)'
      BY <2>8 DEF ReadSecrets
    <3>2. (FilesAgree /\ SlotIsWritten)'
      BY <2>8 DEF ReadSecrets
    <3>3. StartedBySetUp'
      BY <2>8 DEF ReadSecrets
    <3>4. StartedPorts' /\ PortsAreReserved'
      BY <2>8 DEF ReadSecrets
    <3> QED
      BY <3>1, <3>2, <3>3, <3>4
  <2>9. CASE WriteSecrets(w)
    <3>1. (InWorktree /\ BranchesDiffer /\ ProjectOfBranch /\ SetUpForHead)'
      BY <2>9 DEF WriteSecrets
    <3>2. (FilesAgree /\ SlotIsWritten)'
      BY <2>9 DEF WriteSecrets
    <3>3. StartedBySetUp'
      BY <2>9 DEF WriteSecrets
    <3>4. StartedPorts' /\ PortsAreReserved'
      BY <2>9 DEF WriteSecrets
    <3> QED
      BY <3>1, <3>2, <3>3, <3>4
  <2>10. CASE WriteEnvFiles(w)
    <3>1. (InWorktree /\ BranchesDiffer /\ ProjectOfBranch /\ SetUpForHead)'
      BY <2>10 DEF WriteEnvFiles
    <3>2. (FilesAgree /\ SlotIsWritten)'
      BY <2>10 DEF WriteEnvFiles
    <3>3. StartedBySetUp'
      BY <2>10 DEF WriteEnvFiles
    <3>4. StartedPorts' /\ PortsAreReserved'
      BY <2>10 DEF WriteEnvFiles
    <3> QED
      BY <3>1, <3>2, <3>3, <3>4
  <2>11. CASE Interrupt(w)
    <3>1. (InWorktree /\ BranchesDiffer /\ ProjectOfBranch /\ SetUpForHead)'
      BY <2>11 DEF Interrupt
    <3>2. (FilesAgree /\ SlotIsWritten)'
      BY <2>11 DEF Interrupt
    <3>3. StartedBySetUp'
      BY <2>11 DEF Interrupt
    <3>4. StartedPorts' /\ PortsAreReserved'
      BY <2>11 DEF Interrupt
    <3> QED
      BY <3>1, <3>2, <3>3, <3>4
  <2>12. CASE Up(w)
    <3>0. /\ \A v \in Worktree : ~strayed'[v] => ~strayed[v]
          /\ ~strayed'[w] => ready[w]
      <4>1. strayed' = [strayed EXCEPT ![w] = strayed[w] \/ ~ready[w]]
        BY <2>12 DEF Up
      <4>2. strayed'[w] = (strayed[w] \/ ~ready[w])
        BY <4>1
      <4>3. ~strayed'[w] => ~strayed[w] /\ ready[w]
        BY <4>2, Zenon
      <4>4. \A v \in Worktree \ {w} : strayed'[v] = strayed[v]
        BY <4>1
      <4> QED
        BY <4>3, <4>4
    <3>1. (InWorktree /\ BranchesDiffer /\ ProjectOfBranch /\ SetUpForHead)'
      BY <2>12, <3>0 DEF Up
    <3>2. (FilesAgree /\ SlotIsWritten)'
      BY <2>12 DEF Up
    <3>3. StartedBySetUp'
      BY <2>12, <3>0 DEF Up
    <3>4. StartedPorts'
      BY <2>12 DEF Up
    <3>5. PortsAreReserved'
      <4> SUFFICES ASSUME NEW p \in Project, startedBy'[p] # None, ~strayed'[startedBy'[p]]
                   PROVE slotFile'[startedBy'[p]] = ports'[p] /\ slotFile'[startedBy'[p]] = ingress'[p]
        OBVIOUS
      <4>1. CASE p = project[w]
        <5>1. ports'[p] = envSlot[w] /\ ingress'[p] = slot[w] /\ startedBy'[p] = w
          BY <2>12, <4>1 DEF Up
        <5> QED
          BY <2>12, <3>0, <5>1 DEF Up
      <4>2. CASE p # project[w]
        <5>1. ports'[p] = ports[p] /\ ingress'[p] = ingress[p] /\ startedBy'[p] = startedBy[p]
          BY <2>12, <4>2 DEF Up
        <5>2. startedBy[p] \in Worktree
          BY <5>1
        <5> QED
          BY <2>12, <3>0, <5>1, <5>2 DEF Up
      <4> QED
        BY <4>1, <4>2
    <3> QED
      BY <3>1, <3>2, <3>3, <3>4, <3>5
  <2>13. CASE Stop(w)
    <3>1. (InWorktree /\ BranchesDiffer /\ ProjectOfBranch /\ SetUpForHead)'
      BY <2>13 DEF Stop, TakeDown
    <3>2. (FilesAgree /\ SlotIsWritten)'
      BY <2>13 DEF Stop, TakeDown
    <3>3. StartedBySetUp'
      BY <2>13 DEF Stop, TakeDown
    <3>4. StartedPorts' /\ PortsAreReserved'
      BY <2>13 DEF Stop, TakeDown
    <3> QED
      BY <3>1, <3>2, <3>3, <3>4
  <2>14. CASE TearDown(w)
    <3>0. \A v \in Worktree : ~strayed'[v] => ~strayed[v]
      <4> DEFINE caught == [u \in Worktree |-> strayed[u] \/
                              \E q \in Project : q = TeardownProject(w) /\ startedBy[q] = u]
      <4>1. strayed' = strayed \/ strayed' = caught
        BY <2>14 DEF TearDown
      <4>2. ASSUME NEW v \in Worktree, ~caught[v] PROVE ~strayed[v]
        BY <4>2, Zenon
      <4> QED
        BY <4>1, <4>2
    <3>5. ASSUME NEW p \in Project, NEW v \in Worktree, startedBy'[p] = v, ~strayed'[v]
          PROVE p # TeardownProject(w) /\ startedBy[p] = v
      <4>1. CASE TakeDown(TeardownProject(w))
        BY <3>5, <4>1 DEF TakeDown
      <4>2. CASE /\ UNCHANGED dockerVars
                 /\ strayed' = [u \in Worktree |-> strayed[u] \/
                                 \E q \in Project : q = TeardownProject(w) /\ startedBy[q] = u]
        <5>1. strayed'[v] = (strayed[v] \/ \E q \in Project : q = TeardownProject(w) /\ startedBy[q] = v)
          BY <4>2
        <5>2. ~(\E q \in Project : q = TeardownProject(w) /\ startedBy[q] = v)
          BY <3>5, <5>1, Zenon
        <5> QED
          BY <3>5, <4>2, <5>2
      <4> QED
        BY <2>14, <4>1, <4>2 DEF TearDown
    <3>1. (InWorktree /\ BranchesDiffer /\ ProjectOfBranch /\ SetUpForHead)'
      BY <2>14, <3>0 DEF TearDown
    <3>2. (FilesAgree /\ SlotIsWritten)'
      BY <2>14 DEF TearDown
    <3>3. StartedBySetUp'
      <4> SUFFICES ASSUME NEW p \in Project, NEW v \in Worktree, startedBy'[p] = v, ~strayed'[v]
                   PROVE /\ git'[v] # "none"
                         /\ Present(v)' => project'[v] # None
                         /\ head'[v] \in Branch
                         /\ projectOf[head'[v]] = p
                         /\ script'[v] # "down"
        OBVIOUS
      <4>1. p # TeardownProject(w) /\ startedBy[p] = v /\ ~strayed[v]
        BY <3>0, <3>5
      <4>2. v = w => p = TeardownProject(w)
        BY <2>14, <4>1 DEF TearDown, TeardownProject
      <4> QED
        BY <2>14, <4>1, <4>2 DEF TearDown
    <3>4. StartedPorts' /\ PortsAreReserved'
      BY <2>14, <3>0 DEF TearDown, TakeDown
    <3> QED
      BY <3>1, <3>2, <3>3, <3>4
  <2>15. CASE ReleaseSlot(w)
    <3>1. (InWorktree /\ BranchesDiffer /\ ProjectOfBranch /\ SetUpForHead)'
      BY <2>15 DEF ReleaseSlot
    <3>2. (FilesAgree /\ SlotIsWritten)'
      BY <2>15 DEF ReleaseSlot
    <3>3. StartedBySetUp'
      BY <2>15 DEF ReleaseSlot
    <3>4. StartedPorts' /\ PortsAreReserved'
      BY <2>15 DEF ReleaseSlot
    <3> QED
      BY <3>1, <3>2, <3>3, <3>4
  <2> QED
    BY <2>1, <2>2, <2>3, <2>4, <2>5, <2>6, <2>7, <2>8, <2>9, <2>10, <2>11, <2>12, <2>13, <2>14, <2>15
<1> QED
  BY <1>1, <1>2

LEMMA DockerAlways == Spec => []DockerInv
  BY DockerInit, DockerStep, PTL DEF Spec

\* One project for two worktrees has one of four causes: branches of one slug, no
\* branch, a failing git (getCurrentBranch's "unknown"), or a branch left.
THEOREM ProjectsAreDifferent == Spec => []ProjectsDiffer
<1>1. DockerInv => ProjectsDiffer
  BY DEF DockerInv, BranchesDiffer, ProjectOfBranch, ProjectsDiffer, Present, Left, SameSlug
<1> QED
  BY <1>1, DockerAlways, PTL

\* Containers that a worktree set up for its branch started keep the slot whose
\* ports they use (releaseSlotFile), with the exceptions PortsAreReserved lists.
THEOREM PortsStayReserved == Spec => []PortsAreReserved
<1>1. DockerInv => PortsAreReserved
  BY DEF DockerInv
<1> QED
  BY <1>1, DockerAlways, PTL

=============================================================================
