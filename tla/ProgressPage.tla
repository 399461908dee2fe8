---------------------------- MODULE ProgressPage ----------------------------
(***************************************************************************)
(* What the public progress page says of the selected entries.  Once an    *)
(* hour each host counts which rows of its shard the candidate of its      *)
(* active release still lacks (write_top20k_quality_snapshot.py) and keeps *)
(* the counts in a file.  Its API reads that file only, and has to find    *)
(* out whether it still speaks of this dataset and of this candidate       *)
(* (progress_validation.py).  The Worker asks both hosts and says `ready`  *)
(* if the counts of both shards leave nothing open.                        *)
(*                                                                         *)
(* Meanwhile releases are activated and rolled back, datasets are replaced *)
(* and rows completed, between any two file operations of these programs.  *)
(* A file is known by its device and inode: `dataset` and `link` are those *)
(* of the dataset and of the candidate that the `current` link leads to.   *)
(***************************************************************************)
EXTENDS Naturals

CONSTANTS Host,        \* the hosts, each under the number of its own shard
          Candidate,   \* candidates, each the file of one release
          Absent,
          Full,        \* those with 20000 rows in all
          Serves,      \* the shards whose timers are set up on a host
          MaxEvents    \* bound: activations, replaced datasets and scans of a host

Shard == Host

ASSUME PageConstants ==
    /\ Absent \notin Candidate /\ Full \subseteq Candidate
    /\ Serves \in [Host -> SUBSET Shard]
    /\ MaxEvents \in [Host -> Nat]

VARIABLES link,       \* the candidate of the active release of a host
          dataset,    \* the dataset file of a host
          complete,   \* the candidates whose rows of a shard have no gap in it
          scan,       \* the running quality scan of a host
          snapshot,   \* top20k-quality-shard-N.json on a host
          answer,     \* the request that the API of a host is serving
          page,       \* what the Worker answers until its cache expires
          events

files == <<link, dataset, complete>>
pvars == <<files, events, scan, snapshot, answer, page>>

NoCounts == [kept |-> FALSE]
Counts == [kept : {TRUE}, dataset : Nat, candidate : Candidate, digest : Candidate,
           open : BOOLEAN]

NoScan == [pc |-> "off"]
Scan == {NoScan}
        \cup [pc : {"stated"}, shard : Shard, dataset : Nat, candidate : Candidate]
        \cup [pc : {"counted", "same"}, shard : Shard, dataset : Nat,
              candidate : Candidate, digest : Candidate, open : BOOLEAN]

\* An answer without `top20k`, and one that is an error or does not come.
NoAnswer == [pc |-> "none"]
Asked == [pc |-> "asked"]
Failed == [pc |-> "failed"]
Plain(s) == [pc |-> "answered", shard |-> s, counted |-> FALSE]
Answer == {NoAnswer, Asked, Failed} \cup {Plain(s) : s \in Shard}
          \cup [pc : {"dataset"}, shard : Shard, counts : Counts]
          \cup [pc : {"candidate", "digest", "again"}, shard : Shard, counts : Counts,
                true : BOOLEAN]
          \cup [pc : {"answered"}, shard : Shard, counted : {TRUE}, digest : Candidate,
                open : BOOLEAN, true : BOOLEAN]

NoPage == [shown |-> FALSE, ready |-> FALSE]

PInit ==
    /\ link \in [Host -> Candidate \cup {Absent}]
    /\ dataset = [h \in Host |-> 0] /\ complete = [h \in Host |-> {}]
    /\ scan = [h \in Host |-> NoScan]
    /\ snapshot = [h \in Host |-> [s \in Shard |-> NoCounts]]
    /\ answer = [h \in Host |-> NoAnswer]
    /\ page = NoPage
    /\ events = [h \in Host |-> 0]

-----------------------------------------------------------------------------
(* What events under the programs.                                        *)

Event(h) ==
    /\ events[h] < MaxEvents[h]
    /\ events' = [events EXCEPT ![h] = @ + 1]

Change(h) ==
    /\ Event(h)
    /\ UNCHANGED <<scan, snapshot, answer, page>>

\* A release is activated, or rolled back to; its candidate may be one that
\* the host has had before.
Relink(h) ==
    /\ Change(h)
    /\ \E c \in (Candidate \cup {Absent}) \ {link[h]} : link' = [link EXCEPT ![h] = c]
    /\ UNCHANGED <<dataset, complete>>

\* Another file takes the dataset's place, with gaps of its own.
ReplaceDataset(h) ==
    /\ Change(h)
    /\ dataset' = [dataset EXCEPT ![h] = @ + 1]
    /\ complete' = [complete EXCEPT ![h] = {}]
    /\ UNCHANGED link

\* Writers fill gaps and open none.  Bound: the gaps of another candidate than
\* the linked one count as filled when it is linked.
FillGaps(h) ==
    /\ link[h] # Absent
    /\ \E s \in Serves[h] :
          /\ <<link[h], s>> \notin complete[h]
          /\ complete' = [complete EXCEPT ![h] = @ \cup {<<link[h], s>>}]
    /\ UNCHANGED <<link, dataset, events, scan, snapshot, answer, page>>

-----------------------------------------------------------------------------
(* The quality snapshots of a host.                                        *)

Scanning(h, state) ==
    /\ scan' = [scan EXCEPT ![h] = state]
    /\ UNCHANGED <<files, answer, page>>

\* write_quality_snapshot notes which files it is about to read.
StartScan(h, s) ==
    /\ scan[h] = NoScan /\ s \in Serves[h] /\ link[h] # Absent
    /\ Scanning(h, [pc |-> "stated", shard |-> s, dataset |-> dataset[h],
                    candidate |-> link[h]])
    /\ Event(h) /\ UNCHANGED snapshot

Counting(h, pc, digest, open) ==
    [pc |-> pc, shard |-> scan[h].shard, dataset |-> scan[h].dataset,
     candidate |-> scan[h].candidate, digest |-> digest, open |-> open]

\* quality_report opens both and counts the rows of the candidate it opened.
CountGaps(h) ==
    /\ scan[h].pc = "stated" /\ link[h] # Absent
    /\ Scanning(h, Counting(h, "counted", link[h],
                            <<link[h], scan[h].shard>> \notin complete[h]))
    /\ UNCHANGED <<snapshot, events>>

\* Faulty: the dataset is not compared.
SameDatasetAssumed(h) ==
    /\ scan[h].pc = "counted"
    /\ Scanning(h, [scan[h] EXCEPT !.pc = "same", !.dataset = dataset[h]])
    /\ UNCHANGED <<snapshot, events>>

\* The dataset is the one noted before.
SameDataset(h) ==
    /\ scan[h].pc = "counted" /\ dataset[h] = scan[h].dataset
    /\ Scanning(h, Counting(h, "same", scan[h].digest, scan[h].open))
    /\ UNCHANGED <<snapshot, events>>

\* And so is the candidate: the counts are kept.
KeepCounts(h) ==
    /\ scan[h].pc = "same" /\ link[h] = scan[h].candidate
    /\ snapshot' = [snapshot EXCEPT ![h][scan[h].shard] =
          [kept |-> TRUE, dataset |-> scan[h].dataset, candidate |-> scan[h].candidate,
           digest |-> scan[h].digest, open |-> scan[h].open]]
    /\ Scanning(h, NoScan) /\ UNCHANGED events

\* A file has been replaced, the scan fails or is out of time.
DropScan(h) == scan[h] # NoScan /\ Scanning(h, NoScan) /\ UNCHANGED <<snapshot, events>>

\* Counts that are older than three hours count for nothing.
Outdate(h, s) ==
    /\ snapshot[h][s] # NoCounts
    /\ snapshot' = [snapshot EXCEPT ![h][s] = NoCounts]
    /\ UNCHANGED <<files, events, scan, answer, page>>

-----------------------------------------------------------------------------
(* The API of a host.                                                      *)

Answering(h, state) ==
    /\ answer' = [answer EXCEPT ![h] = state]
    /\ UNCHANGED <<files, events, scan, snapshot, page>>

\* Each of the shards' timers replaces its progress file every five minutes, so
\* that any of them may be the newest.
NewestProgress(h) == Serves[h]

\* collection_progress answers for the shard of the newest progress file in
\* its directory, and reads that shard's counts.
ReadCounts(h) ==
    /\ answer[h] = Asked
    /\ \E s \in NewestProgress(h) :
         Answering(h, IF ~snapshot[h][s].kept THEN Plain(s)
                      ELSE [pc |-> "dataset", shard |-> s, counts |-> snapshot[h][s]])

\* validate_top20k_quality_snapshot goes on to the next check, or raises.
Check(h, here, next, passes) ==
    /\ answer[h].pc = here
    /\ Answering(h, IF passes THEN next ELSE Plain(answer[h].shard))

Validating(h, pc, true) ==
    [pc |-> pc, shard |-> answer[h].shard, counts |-> answer[h].counts, true |-> true]

\* The dataset, and then the candidate, must be the files that were counted.
\* History: `true` is whether the counted digest has no gap at that moment.
CheckDataset(h) ==
    Check(h, "dataset",
          Validating(h, "candidate",
              <<answer[h].counts.digest, answer[h].shard>> \in complete[h]),
          dataset[h] = answer[h].counts.dataset)

CheckCandidate(h) ==
    Check(h, "candidate", Validating(h, "digest", answer[h].true),
          link[h] = answer[h].counts.candidate)

\* Its digest must be the counted one, and it must still be there.
CheckDigest(h) ==
    Check(h, "digest", Validating(h, "again", answer[h].true),
          link[h] = answer[h].counts.digest)

CheckAgain(h) ==
    Check(h, "again",
          [pc |-> "answered", shard |-> answer[h].shard, counted |-> TRUE,
           digest |-> answer[h].counts.digest, open |-> answer[h].counts.open,
           true |-> answer[h].true],
          link[h] = answer[h].counts.candidate)

\* A time-out, an unreachable host, an error.
LoseAnswer(h) ==
    /\ answer[h].pc \notin {"none", "answered", "failed"}
    /\ Answering(h, Failed)

-----------------------------------------------------------------------------
(* The Worker.                                                             *)

\* Nothing is cached: combinedProgressResponse asks both hosts.
Ask ==
    /\ page = NoPage /\ \A h \in Host : answer[h] = NoAnswer
    /\ answer' = [h \in Host |-> Asked]
    /\ UNCHANGED <<files, events, scan, snapshot, page>>

\* Every shard has an answer.
AllShards ==
    /\ \A h \in Host : answer[h].pc = "answered"
    /\ \A s \in Shard : \E h \in Host : answer[h].shard = s

Counted == \A h \in Host : answer[h].counted
Digests == {answer[h].digest : h \in Host}

\* qualityAvailable
Available == Counted /\ \E c \in Candidate : Digests = {c}

\* The page, if every shard has answered.
Combined ==
    IF ~Available THEN [shown |-> TRUE, ready |-> FALSE]
    ELSE [shown |-> TRUE,
          ready |-> Digests \subseteq Full /\ \A h \in Host : ~answer[h].open,
          digests |-> Digests,
          true |-> \A s \in Shard : \E h \in Host : answer[h].shard = s /\ answer[h].true]

\* A page is cached, an error is not.
Combine ==
    /\ \A h \in Host : answer[h].pc \in {"answered", "failed"}
    /\ page' = IF AllShards THEN Combined ELSE NoPage
    /\ answer' = [h \in Host |-> NoAnswer]
    /\ UNCHANGED <<files, events, scan, snapshot>>

\* After a minute, or earlier, the cache has no page.
Expire ==
    /\ page # NoPage /\ page' = NoPage
    /\ UNCHANGED <<files, events, scan, snapshot, answer>>

-----------------------------------------------------------------------------
ScanStep(h) ==
    \/ \E s \in Shard : StartScan(h, s) \/ Outdate(h, s)
    \/ CountGaps(h) \/ SameDataset(h) \/ KeepCounts(h) \/ DropScan(h)

ApiStep(h) ==
    \/ ReadCounts(h) \/ CheckDataset(h) \/ CheckCandidate(h) \/ CheckDigest(h)
    \/ CheckAgain(h) \/ LoseAnswer(h)

PNext ==
    \/ Ask \/ Combine \/ Expire
    \/ \E h \in Host : \/ Relink(h) \/ ReplaceDataset(h) \/ FillGaps(h)
                       \/ ScanStep(h) \/ ApiStep(h)

PSpec == PInit /\ [][PNext]_pvars

-----------------------------------------------------------------------------
(* Properties.                                                             *)

\* Type correctness, also of the record that a pc has.
PTypeOK ==
    /\ link \in [Host -> Candidate \cup {Absent}] /\ dataset \in [Host -> Nat]
    /\ complete \in [Host -> SUBSET (Candidate \X Shard)]
    /\ events \in [Host -> Nat]
    /\ scan \in [Host -> Scan]
    /\ snapshot \in [Host -> [Shard -> Counts \cup {NoCounts}]]
    /\ answer \in [Host -> Answer]
    /\ page.ready \in BOOLEAN

(* A page that says `ready` is right: all rows of both shards of one candidate
   with 20000 rows had no gap left in the datasets of their hosts when these
   were asked, though the counts may be hours old, and releases and datasets
   have been exchanged while they were counted, kept and checked.           *)
ReadyIsTrue ==
    page.ready => page.true /\ \E c \in Full : page.digests = {c}
=============================================================================
