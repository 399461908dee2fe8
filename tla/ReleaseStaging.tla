---------------------------- MODULE ReleaseStaging ----------------------------
(***************************************************************************)
(* prepare_code, seal_release and verify_release of                        *)
(* deploy/deployment_transaction.py on one track: a tree of code is        *)
(* published under preparations/, a candidate database is attached to it,  *)
(* and the whole is moved to releases/, from where it can be activated.    *)
(*                                                                         *)
(* The flock lets one command run at a time.  The uploaded candidate       *)
(* belongs to somebody else, who may replace it at any time.  As in        *)
(* ReleaseTransaction a rename is visible at once and durable after the    *)
(* next fsync of a directory; a file is fsynced before it is renamed.      *)
(***************************************************************************)
EXTENDS Naturals

CONSTANTS Id,           \* release ids
          Content,      \* what the uploaded candidate may hold
          Valid,        \* the contents that _candidate_report accepts
          Code,         \* the content of the archive
          NoCandidate,
          MaxUploads    \* bound on the replacements of the upload

ASSUME StagingConstants ==
    /\ Valid \subseteq Content
    /\ NoCandidate \notin Content
    /\ MaxUploads \in Nat

VARIABLES staged,     \* preparations/ and releases/ as programs see them
          kept,       \* what a power loss may leave of them
          upload,     \* the candidate file, and how often it was replaced
          command,    \* the command holding the lock, with its locals
          promised    \* history: what was asked of an id, and acknowledged

svars == <<staged, kept, upload, command, promised>>

\* A tree maps its files to their contents: "code", "candidate" under build/,
\* the copy in progress "tmp", and "env", candidate.env.  The manifest lists
\* the files (_file_hashes) and the digest of the candidate.
Tree(code) == [file \in {"code"} |-> code]
With(tree, file, content) ==
    [f \in DOMAIN tree \cup {file} |-> IF f = file THEN content ELSE tree[f]]
Without(tree, file) == [f \in DOMAIN tree \ {file} |-> tree[f]]

Preparing(tree) == [state |-> "preparing", tree |-> tree, files |-> tree, candidate |-> NoCandidate]
Absent == [state |-> "absent"]

\* _load_release_manifest and _verify_files.
Matches(r, state) == r.state = state /\ r.tree = r.files

\* _candidate_report raises for any content that is not a whole candidate, and
\* _canonical_identity for a manifest that is no receipt of a snapshot.
Reports(content) == content \in Valid
Receipts == [valid : BOOLEAN]

\* verify_release of a directory of releases/.
Verifies(r) ==
    /\ Matches(r, "sealed")
    /\ IF r.candidate = NoCandidate THEN "candidate" \notin DOMAIN r.tree
       ELSE r.tree["candidate"] = r.candidate /\ Reports(r.candidate)

NoCommand == [pc |-> "idle"]

SInit ==
    /\ staged = [preparations |-> [i \in Id |-> Absent], releases |-> [i \in Id |-> Absent]]
    /\ kept = {staged}
    /\ upload \in [content : Content, count : {0}]
    /\ command = NoCommand
    /\ promised = [i \in Id |-> [stage |-> "none", candidate |-> NoCandidate]]

-----------------------------------------------------------------------------
Idle == command.pc = "idle"
Enter(pc) == command' = [command EXCEPT !.pc = pc]
Exit == command' = NoCommand

\* An operation on the directories, and the fsync of one of them.
Write(s) == staged' = s /\ kept' = kept \cup {s}
Fsync == kept' = {staged} /\ UNCHANGED staged
Preparation == staged.preparations[command.id]
Rewrite(r) == Write([staged EXCEPT !.preparations[command.id] = r])
Looks == UNCHANGED <<staged, kept, upload, promised>>

(* prepare_code.  What happens before the rename happens in a temporary tree
   nobody else looks at: it is removed or left behind. *)
BeginPrepare(i) ==
    /\ Idle
    /\ staged.preparations[i] = Absent /\ staged.releases[i] = Absent
    /\ command' = [pc |-> "extract", id |-> i]
    /\ Looks

PublishPreparation ==
    /\ command.pc = "extract"
    /\ Rewrite(Preparing(Tree(Code)))
    /\ Enter("prepareSync")
    /\ UNCHANGED <<upload, promised>>

SyncPreparation ==
    /\ command.pc = "prepareSync"
    /\ Fsync
    /\ promised' = [promised EXCEPT ![command.id].stage = "prepared"]
    /\ Exit
    /\ UNCHANGED upload

(* seal_release.  `want` is the SHA-256 asked for, NoCandidate without a candidate;
   `receipt` the canonical manifest. *)
BeginSeal(i, want, receipt) ==
    /\ Idle
    /\ staged.releases[i] = Absent
    /\ Matches(staged.preparations[i], "preparing")
    /\ command' = [pc |-> "validate", id |-> i, want |-> want, receipt |-> receipt]
    /\ promised' = [promised EXCEPT ![i].candidate = want]
    /\ UNCHANGED <<staged, kept, upload>>

\* The inputs are validated before a byte of the preparation changes.
Validate ==
    /\ command.pc = "validate"
    /\ IF command.want = NoCandidate THEN Enter("manifest")
       ELSE IF command.receipt.valid /\ Reports(upload.content) /\ upload.content = command.want
       THEN Enter("copy") ELSE Exit
    /\ Looks

Copy ==
    /\ command.pc = "copy"
    /\ Rewrite([Preparation EXCEPT !.tree = With(@, "tmp", upload.content)])
    /\ Enter("attach")
    /\ UNCHANGED <<upload, promised>>

Attach ==
    /\ command.pc = "attach"
    /\ LET tree == Preparation.tree
       IN Rewrite([Preparation EXCEPT
                     !.tree = Without(With(tree, "candidate", tree["tmp"]), "tmp")])
    /\ Enter("compare")
    /\ UNCHANGED <<upload, promised>>

\* Faulty: the copy is taken to be what was validated.
CompareNothing ==
    /\ command.pc = "compare"
    /\ Fsync
    /\ Enter("env")
    /\ UNCHANGED <<upload, promised>>

\* The report of the attached copy must be that of the validated upload.
Compare ==
    /\ command.pc = "compare"
    /\ Fsync
    /\ IF Preparation.tree["candidate"] = command.want THEN Enter("env") ELSE Exit
    /\ UNCHANGED <<upload, promised>>

WriteEnv ==
    /\ command.pc = "env"
    /\ Rewrite([Preparation EXCEPT !.tree = With(@, "env", command.want)])
    /\ Enter("manifest")
    /\ UNCHANGED <<upload, promised>>

WriteManifest ==
    /\ command.pc = "manifest"
    /\ Rewrite([Preparation EXCEPT !.state = "sealed", !.candidate = command.want,
                                   !.files = Preparation.tree])
    /\ Enter("publish")
    /\ UNCHANGED <<upload, promised>>

\* After another look at files and imports the directory is moved.
PublishRelease ==
    /\ command.pc = "publish"
    /\ Matches(Preparation, "sealed")
    /\ Write([preparations |-> [staged.preparations EXCEPT ![command.id] = Absent],
              releases |-> [staged.releases EXCEPT ![command.id] = Preparation]])
    /\ Enter("sealSync")
    /\ UNCHANGED <<upload, promised>>

\* Faulty: the success is reported before the rename is durable.
SyncReleaseSkipped ==
    /\ command.pc = "sealSync"
    /\ promised' = [promised EXCEPT ![command.id].stage = "sealed"]
    /\ Exit
    /\ UNCHANGED <<staged, kept, upload>>

SyncRelease ==
    /\ command.pc = "sealSync"
    /\ Fsync
    /\ promised' = [promised EXCEPT ![command.id].stage = "sealed"]
    /\ Exit
    /\ UNCHANGED upload

\* An exception (a failed import, a full disk) or a kill at any point.
Abort == ~Idle /\ Exit /\ Looks

LosePower ==
    /\ staged' \in kept
    /\ kept' = {staged'}
    /\ Exit
    /\ UNCHANGED <<upload, promised>>

ReplaceUpload(content) ==
    /\ upload.count < MaxUploads /\ content # upload.content
    /\ upload' = [content |-> content, count |-> upload.count + 1]
    /\ UNCHANGED <<staged, kept, command, promised>>

-----------------------------------------------------------------------------
Seal ==
    \/ \E i \in Id, want \in Content \cup {NoCandidate}, receipt \in Receipts :
          BeginSeal(i, want, receipt)
    \/ Validate \/ Copy \/ Attach \/ Compare \/ WriteEnv
    \/ WriteManifest \/ PublishRelease \/ SyncRelease

SNext ==
    \/ \E i \in Id : BeginPrepare(i)
    \/ PublishPreparation \/ SyncPreparation
    \/ Seal
    \/ Abort \/ LosePower
    \/ \E content \in Content : ReplaceUpload(content)

SSpec == SInit /\ [][SNext]_svars

-----------------------------------------------------------------------------
(* Properties.                                                             *)

(* What is under releases/, now or after a power loss, passes verify_release
   and holds the candidate its seal was asked for, however often the upload
   was replaced and the command cut in between. *)
SealedIsWhole ==
    \A s \in kept : \A i \in Id :
        LET r == s.releases[i]
        IN r # Absent => Verifies(r) /\ r.candidate = promised[i].candidate

(* A prepare-code or seal that reported success is not undone by a power
   loss: the id is still prepared, or sealed, afterwards. *)
StagedIsDurable ==
    \A s \in kept : \A i \in Id :
        /\ promised[i].stage = "sealed" => s.releases[i] # Absent
        /\ promised[i].stage = "prepared" =>
              s.preparations[i] # Absent \/ s.releases[i] # Absent

=============================================================================
