----------------------------- MODULE RepairProofs -----------------------------
(***************************************************************************)
(* The repair of a selection is safe for every number of hosts, every      *)
(* selection and any number of writes before, between and after its steps. *)
(* A repaired row is recognised by its marker only, so the invariant says  *)
(* what a marker is worth (Marked), that a running service still has the   *)
(* rows it read (Restartable), and what no repair may do to a definition   *)
(* that is there (KeepsDefinitions).                                       *)
(***************************************************************************)
EXTENDS RepairProtocol, RepairCollectorState, TLAPS

\* What a repair's marker says of a row, a repair has written to that row.
Marked ==
    \A r \in Row : data[r].mark.by # 0 =>
        <<data[r].mark.by, r, data[r].mark.payload>> \in repaired

\* A service can be started again, and what it still has to do is queued and
\* as it was read.
Restartable(h) ==
    run[h] # Off =>
        /\ Preflight(run[h].by, h, Row)
        /\ DOMAIN run[h].todo \subseteq Queue(run[h].by)
        /\ \A r \in DOMAIN run[h].todo : run[h].todo[r] = data[r]

\* A repair does not replace a definition that the candidate has.
KeepsDefinitions ==
    \A c \in sealed, r \in Row, p \in Payload :
        <<c, r, p>> \in repaired /\ Base(c)[r].definition # "none"
            => p[1] = Base(c)[r].definition

IInv ==
    /\ TypeOK /\ Marked /\ DeltaIsRepaired /\ KeepsDefinitions
    /\ \A h \in Host : Restartable(h)

-----------------------------------------------------------------------------
(* Values.                                                                 *)

\* Every entry has a host.
LEMMA OwnerIsHost == \A r \in Row : Owner(r) \in Host
  BY RepairConstants, SMT DEF Owner, Host

\* A new candidate leaves the earlier ones as they are.
LEMMA AppendKeeps ==
    ASSUME NEW S, NEW s \in Seq(S), NEW e \in S
    PROVE  /\ Append(s, e) \in Seq(S) /\ Len(Append(s, e)) = Len(s) + 1
           /\ DOMAIN s \subseteq DOMAIN Append(s, e)
           /\ \A i \in DOMAIN s : Append(s, e)[i] = s[i]
  OBVIOUS

\* An entry that a repair may write: its provenance and marker are those of
\* the entry it was computed from, and so is a definition that was there.
LEMMA EnrichmentFacts ==
    ASSUME NEW e \in Entries, NEW x \in Enrichments(e)
    PROVE  /\ x \in Entries
           /\ x.source = e.source
           /\ e.definition # "none" => x.definition = e.definition
<1>1. PICK definition \in Found, zh \in Translation, more \in BOOLEAN :
        x = Filled(e, definition, zh, more)
  BY DEF Enrichments
<1>2. (e.other \/ more) \in BOOLEAN
  OBVIOUS
<1> QED
  BY <1>1, <1>2, RepairConstants DEF Filled, Entries

\* What the marker of a written entry is.
LEMMA MarkerFacts ==
    ASSUME NEW e \in Entries, NEW by \in 0 .. MaxCandidates, NEW at \in Nat
    PROVE  LET x == WithMarker(e, by, at) IN
           /\ x \in Entries
           /\ x.source = e.source
           /\ x.mark.by = by /\ x.mark.payload = PayloadOf(e)
           /\ PayloadOf(x) = PayloadOf(e)
           /\ PayloadOf(e) \in Payload /\ PayloadOf(e)[1] = e.definition
  BY DEF WithMarker, PayloadOf, Entries, Marker, Payload

LEMMA UnrepairedFacts ==
    ASSUME NEW e \in Columns
    PROVE  Unrepaired(e) \in Entries /\ Unrepaired(e).mark.by = 0
  BY RepairConstants DEF Unrepaired, PayloadOf, Columns, Entries, Marker, Payload

-----------------------------------------------------------------------------
(* The types.                                                              *)

THEOREM TypeInit == Init => TypeOK
<1> SUFFICES ASSUME Init PROVE TypeOK
  OBVIOUS
<1>1. data \in [Row -> Entries]
  BY UnrepairedFacts, RepairConstants DEF Init
<1>2. /\ NoRows \in [DOMAIN NoRows -> Entries] /\ NoRows \in [DOMAIN NoRows -> DeltaRows]
      /\ DOMAIN NoRows = {}
  BY DEF NoRows
<1>3. /\ made \in Seq([Row -> Entries]) /\ Len(made) <= MaxCandidates
      /\ sealed \subseteq DOMAIN made
  BY RepairConstants DEF Init
<1>4. \A h \in Host :
        /\ run[h] = Off /\ run[h].todo = NoRows
        /\ delta[h] = NoDelta /\ delta[h].rows = NoRows
  BY DEF Init, Off, NoDelta
<1>5. CandidateTypes
  BY <1>1, <1>3 DEF Init, CandidateTypes
<1>6. HostTypes
  BY <1>2, <1>4 DEF Init, HostTypes
<1>7. CentralTypes
  BY RepairConstants DEF Init, CentralTypes
<1> QED
  BY <1>5, <1>6, <1>7 DEF TypeOK

LEMMA PrepareTypes == TypeOK /\ Prepare => TypeOK'
<1> SUFFICES ASSUME TypeOK, Prepare PROVE TypeOK'
  OBVIOUS
<1>1. [r \in Row |-> Unrepaired(Replica[r])] \in [Row -> Entries]
  BY UnrepairedFacts, RepairConstants
<1>2. 0 \in Host
  BY RepairConstants DEF Host
<1> QED
  BY <1>1, <1>2 DEF TypeOK, CandidateTypes, HostTypes, CentralTypes, Prepare

LEMMA RefreshTypes == TypeOK /\ RefreshOwner => TypeOK'
<1> SUFFICES ASSUME TypeOK, RefreshOwner PROVE TypeOK'
  OBVIOUS
<1> DEFINE base == [r \in Row |-> IF Owner(r) = draft.next THEN data[r] ELSE draft.base[r]]
<1>1. draft.next \in Host /\ base \in [Row -> Entries]
  BY DEF TypeOK, CandidateTypes, HostTypes, CentralTypes, RefreshOwner
<1>2. draft.next < HostCount - 1 => draft.next + 1 \in Host
  BY <1>1, RepairConstants DEF Host
<1>3. /\ made' \in Seq([Row -> Entries]) /\ Len(made') <= MaxCandidates
      /\ DOMAIN made \subseteq DOMAIN made'
  <2>1. \/ made' = made
        \/ made' = Append(made, base) /\ Len(made) + 1 <= MaxCandidates
    BY RepairConstants DEF TypeOK, CandidateTypes, RefreshOwner
  <2> HIDE DEF base
  <2>2. CASE made' = made
    BY <2>2 DEF TypeOK, CandidateTypes
  <2>3. CASE made' = Append(made, base) /\ Len(made) + 1 <= MaxCandidates
    BY <1>1, <2>3, AppendKeeps DEF TypeOK, CandidateTypes
  <2> QED
    BY <2>1, <2>2, <2>3
<1>4. CandidateTypes'
  BY <1>1, <1>2, <1>3 DEF TypeOK, CandidateTypes, RefreshOwner
<1>5. HostTypes' /\ CentralTypes'
  BY DEF TypeOK, HostTypes, CentralTypes, RefreshOwner
<1> QED
  BY <1>4, <1>5 DEF TypeOK

LEMMA SealTypes == ASSUME NEW c \in DOMAIN made PROVE TypeOK /\ Seal(c) => TypeOK'
  BY DEF TypeOK, CandidateTypes, HostTypes, CentralTypes, Seal

LEMMA ActivateTypes ==
    ASSUME NEW c, NEW h \in Host PROVE TypeOK /\ Activate(c, h) => TypeOK'
  BY DEF TypeOK, CandidateTypes, HostTypes, CentralTypes, Activate

LEMMA CollectTypes == ASSUME NEW r \in Row PROVE TypeOK /\ Collect(r) => TypeOK'
<1> SUFFICES ASSUME TypeOK, Collect(r) PROVE TypeOK'
  OBVIOUS
<1>1. data[r] \in Entries /\ data[r].mark.at + 1 \in Nat
  BY DEF TypeOK, CandidateTypes, HostTypes, CentralTypes, Entries, Marker
<1>2. PICK e \in Enrichments(data[r]) :
        data' = [data EXCEPT ![r] = WithMarker(e, 0, data[r].mark.at + 1)]
  BY DEF Collect
<1>3. WithMarker(e, 0, data[r].mark.at + 1) \in Entries
  BY <1>1, EnrichmentFacts, MarkerFacts, RepairConstants
<1>4. data' \in [Row -> Entries]
  BY <1>2, <1>3 DEF TypeOK, CandidateTypes, HostTypes, CentralTypes
<1>5. CandidateTypes' /\ HostTypes'
  BY <1>4 DEF TypeOK, CandidateTypes, HostTypes, Collect
<1>6. CentralTypes'
  BY RepairConstants DEF TypeOK, CentralTypes, Collect
<1> QED
  BY <1>5, <1>6 DEF TypeOK

LEMMA PrefillTypes == ASSUME NEW r \in Row PROVE TypeOK /\ Prefill(r) => TypeOK'
<1> SUFFICES ASSUME TypeOK, Prefill(r) PROVE TypeOK'
  OBVIOUS
<1>1. PICK more \in BOOLEAN, source \in BOOLEAN :
        data' = [data EXCEPT ![r].other = @ \/ more, ![r].source = @ \/ source]
  BY DEF Prefill
<1>2. (data[r].other \/ more) \in BOOLEAN /\ (data[r].source \/ source) \in BOOLEAN
  OBVIOUS
<1>3. data[r] \in Entries
  BY DEF TypeOK, CandidateTypes, HostTypes, CentralTypes
<1>4. data' \in [Row -> Entries]
  BY <1>1, <1>2, <1>3 DEF TypeOK, CandidateTypes, HostTypes, CentralTypes, Entries
<1>5. CandidateTypes' /\ HostTypes'
  BY <1>4 DEF TypeOK, CandidateTypes, HostTypes, Prefill
<1>6. CentralTypes'
  BY RepairConstants DEF TypeOK, CentralTypes, Prefill
<1> QED
  BY <1>5, <1>6 DEF TypeOK

LEMMA EnrichTypes == ASSUME NEW r \in Row PROVE TypeOK /\ Enrich(r) => TypeOK'
<1> SUFFICES ASSUME TypeOK, Enrich(r) PROVE TypeOK'
  OBVIOUS
<1>1. PICK definition \in Found \ {"none"}, zh \in Translation \ {"none"},
          source \in BOOLEAN :
          central' \in {[central EXCEPT ![r].definition = definition],
                        [central EXCEPT ![r].definition_zh = zh],
                        [central EXCEPT ![r].other = TRUE],
                        [central EXCEPT ![r].source = @ \/ source]}
  BY DEF Enrich
<1>2. central[r] \in Columns /\ (central[r].source \/ source) \in BOOLEAN
  BY DEF TypeOK, CentralTypes
<1>3. /\ [central[r] EXCEPT !.definition = definition] \in Columns
      /\ [central[r] EXCEPT !.definition_zh = zh] \in Columns
      /\ [central[r] EXCEPT !.other = TRUE] \in Columns
  BY <1>2, RepairConstants DEF Columns
<1>4. [central[r] EXCEPT !.source = @ \/ source] \in Columns
  BY <1>2 DEF Columns
<1>5. central' \in [Row -> Columns]
  BY <1>1, <1>3, <1>4 DEF TypeOK, CentralTypes
<1>6. CandidateTypes' /\ HostTypes'
  BY DEF TypeOK, CandidateTypes, HostTypes, Enrich
<1>7. CentralTypes'
  BY <1>5, RepairConstants DEF TypeOK, CentralTypes, Enrich
<1> QED
  BY <1>6, <1>7 DEF TypeOK

LEMMA StartTypes == ASSUME NEW h \in Host PROVE TypeOK /\ StartRepair(h) => TypeOK'
<1> SUFFICES ASSUME TypeOK, StartRepair(h) PROVE TypeOK'
  OBVIOUS
<1> DEFINE rows == {q \in Queue(current[h]) \cap Owned(h) : Gaps(data[q]) # {}}
           todo == [r \in rows |-> data[r]]
<1>1. run' = [run EXCEPT ![h] = [by |-> current[h], todo |-> todo]]
  BY DEF StartRepair
<1>2. rows \subseteq Owned(h) /\ rows \subseteq Row
  BY DEF Owned
<1>3. todo \in [rows -> Entries] /\ DOMAIN todo = rows
  BY <1>2 DEF TypeOK, CandidateTypes, HostTypes, CentralTypes
<1>4. current[h] \in sealed
  BY DEF TypeOK, CandidateTypes, HostTypes, CentralTypes, StartRepair
<1> HIDE DEF todo, rows
<1>5. /\ run'[h].by \in sealed /\ run'[h].todo = todo
      /\ \A g \in Host \ {h} : run'[g] = run[g]
      /\ DOMAIN run' = Host
  BY <1>1, <1>4 DEF TypeOK, HostTypes
<1>6. HostTypes'
  BY <1>2, <1>3, <1>5 DEF TypeOK, HostTypes, StartRepair
<1>7. CandidateTypes' /\ CentralTypes'
  BY DEF TypeOK, CandidateTypes, CentralTypes, StartRepair
<1> QED
  BY <1>6, <1>7 DEF TypeOK

LEMMA RepairTypes ==
    ASSUME NEW h \in Host, NEW r \in Row PROVE TypeOK /\ RepairRow(h, r) => TypeOK'
<1> SUFFICES ASSUME TypeOK, RepairRow(h, r) PROVE TypeOK'
  OBVIOUS
<1> DEFINE todo == [q \in DOMAIN run[h].todo \ {r} |-> run[h].todo[q]]
<1>1. /\ run[h].todo[r] \in Entries /\ data[r] \in Entries
      /\ data[r].mark.at + 1 \in Nat
  BY DEF TypeOK, CandidateTypes, HostTypes, CentralTypes, RepairRow, Entries, Marker
<1>2. run[h].by \in sealed /\ run[h].by \in 0 .. MaxCandidates
  BY RepairConstants DEF TypeOK, CandidateTypes, HostTypes, RepairRow, Off, NoRows
<1>3. PICK e \in Enrichments(run[h].todo[r]) :
        /\ data' = [data EXCEPT ![r] = WithMarker(e, run[h].by, data[r].mark.at + 1)]
        /\ repaired' = repaired \cup {<<run[h].by, r, PayloadOf(e)>>}
  BY DEF RepairRow
<1>4. e \in Entries
  BY <1>1, EnrichmentFacts
<1>5. /\ WithMarker(e, run[h].by, data[r].mark.at + 1) \in Entries
      /\ PayloadOf(e) \in Payload
  BY <1>1, <1>2, <1>4, MarkerFacts
<1>6. data' \in [Row -> Entries] /\ repaired' \subseteq sealed \X Row \X Payload
  BY <1>2, <1>3, <1>5 DEF TypeOK, CandidateTypes, HostTypes, CentralTypes
<1>7. run' = [run EXCEPT ![h] = [by |-> run[h].by, todo |-> todo]]
  BY DEF RepairRow, TypeOK, HostTypes
<1>8. /\ todo \in [DOMAIN todo -> Entries]
      /\ DOMAIN todo \subseteq Owned(h)
  BY DEF TypeOK, CandidateTypes, HostTypes, CentralTypes
<1> HIDE DEF todo
<1>9. HostTypes'
  BY <1>2, <1>7, <1>8 DEF TypeOK, HostTypes, RepairRow
<1>10. CandidateTypes'
  BY <1>6 DEF TypeOK, CandidateTypes, RepairRow
<1>11. CentralTypes'
  BY <1>6, RepairConstants DEF TypeOK, CentralTypes, RepairRow
<1> QED
  BY <1>9, <1>10, <1>11 DEF TypeOK

LEMMA StopTypes == ASSUME NEW h \in Host PROVE TypeOK /\ StopRepair(h) => TypeOK'
<1> SUFFICES ASSUME TypeOK, StopRepair(h) PROVE TypeOK'
  OBVIOUS
<1>1. Off.todo = NoRows /\ NoRows \in [DOMAIN NoRows -> Entries] /\ DOMAIN NoRows = {}
  BY DEF Off, NoRows
<1> QED
  BY <1>1 DEF TypeOK, CandidateTypes, HostTypes, CentralTypes, StopRepair

LEMMA ExportTypes == ASSUME NEW h \in Host PROVE TypeOK /\ Export(h) => TypeOK'
<1> SUFFICES ASSUME TypeOK, Export(h) PROVE TypeOK'
  OBVIOUS
<1> DEFINE c == current[h]
           rows == Queue(c) \cap Owned(h)
           file == [r \in rows |->
                      [changed |-> Changed(c, r, data[r]), definition |-> data[r].definition,
                       definition_zh |-> data[r].definition_zh, other |-> data[r].other]]
<1>1. delta' = [delta EXCEPT ![h] = [candidate |-> c, rows |-> file]]
  BY DEF Export
<1>2. rows \subseteq Owned(h) /\ rows \subseteq Row
  BY DEF Owned
<1>3. \A r \in Row : Changed(c, r, data[r]) \subseteq Column
  BY DEF Changed, Allowed, GapColumns, Gaps, Column
<1>4. \A r \in Row : data[r] \in Entries
  BY DEF TypeOK, CandidateTypes, HostTypes, CentralTypes
<1>5. file \in [rows -> DeltaRows] /\ DOMAIN file = rows
  BY <1>2, <1>3, <1>4 DEF DeltaRows, Entries
<1>6. c \in sealed
  BY DEF TypeOK, CandidateTypes, HostTypes, CentralTypes, Export
<1> HIDE DEF file, rows, c
<1> QED
  BY <1>1, <1>2, <1>5, <1>6 DEF TypeOK, CandidateTypes, HostTypes, CentralTypes, Export

LEMMA ApplyTypes == ASSUME NEW c PROVE TypeOK /\ Apply(c) => TypeOK'
<1> SUFFICES ASSUME TypeOK, Apply(c) PROVE TypeOK'
  OBVIOUS
<1>1. ASSUME NEW r \in Queue(c) PROVE MergedRow(r, central[r]) \in Columns
  <2>1. r \in Row /\ Owner(r) \in Host
    BY OwnerIsHost DEF Queue
  <2>2. r \in DOMAIN delta[Owner(r)].rows
    BY <2>1 DEF Apply, ValidUnion, Owned, Queue
  <2>3. DeltaRow(r) \in DeltaRows /\ central[r] \in Columns
    BY <2>1, <2>2 DEF TypeOK, CandidateTypes, HostTypes, CentralTypes, DeltaRow
  <2> HIDE DEF DeltaRow
  <2> QED
    BY <2>3 DEF MergedRow, DeltaRows, Columns
<1>2. central' \in [Row -> Columns]
  BY <1>1 DEF TypeOK, CandidateTypes, HostTypes, CentralTypes, Apply
<1>3. applied'.candidate \in sealed /\ applied'.times \in 0 .. MaxCandidates
  BY RepairConstants DEF TypeOK, CandidateTypes, HostTypes, CentralTypes, Apply
<1> QED
  BY <1>2, <1>3 DEF TypeOK, CandidateTypes, HostTypes, CentralTypes, Apply

\* Every step keeps the types.
THEOREM TypeStep == TypeOK /\ [Next]_vars => TypeOK'
<1> SUFFICES ASSUME TypeOK, [Next]_vars PROVE TypeOK'
  OBVIOUS
<1>1. CASE Prepare
  BY <1>1, PrepareTypes
<1>2. CASE RefreshOwner
  BY <1>2, RefreshTypes
<1>3. ASSUME NEW r \in Row, Collect(r) \/ Prefill(r) \/ Enrich(r) PROVE TypeOK'
  BY <1>3, CollectTypes, PrefillTypes, EnrichTypes
<1>4. ASSUME NEW h \in Host, StartRepair(h) \/ StopRepair(h) \/ Export(h) PROVE TypeOK'
  BY <1>4, StartTypes, StopTypes, ExportTypes
<1>5. ASSUME NEW h \in Host, NEW r \in Row, RepairRow(h, r) PROVE TypeOK'
  BY <1>5, RepairTypes
<1>6. ASSUME NEW c \in DOMAIN made, Seal(c) \/ Apply(c) \/ \E h \in Host : Activate(c, h)
      PROVE  TypeOK'
  BY <1>6, SealTypes, ApplyTypes, ActivateTypes
<1>7. CASE UNCHANGED vars
  BY <1>7 DEF vars, TypeOK, CandidateTypes, HostTypes, CentralTypes
<1> QED
  BY <1>1, <1>2, <1>3, <1>4, <1>5, <1>6, <1>7 DEF Next

-----------------------------------------------------------------------------
(* The invariant: steps that write no entry.                               *)

\* Nothing of an earlier candidate is lost: made and sealed only grow.
CandidatesKept ==
    /\ \A c \in DOMAIN made : c \in DOMAIN made' /\ made'[c] = made[c]
    /\ sealed \subseteq sealed'

LEMMA RefreshKeeps == TypeOK /\ RefreshOwner => CandidatesKept
<1> SUFFICES ASSUME TypeOK, RefreshOwner PROVE CandidatesKept
  OBVIOUS
<1> DEFINE base == [r \in Row |-> IF Owner(r) = draft.next THEN data[r] ELSE draft.base[r]]
<1>1. base \in [Row -> Entries] /\ made \in Seq([Row -> Entries])
  BY DEF TypeOK, CandidateTypes, RefreshOwner
<1>2. (made' = made \/ made' = Append(made, base)) /\ sealed' = sealed
  BY DEF RefreshOwner
<1> HIDE DEF base
<1> QED
  BY <1>1, <1>2, AppendKeeps DEF CandidatesKept

\* The queue of a candidate and what passes its preflight depend on the
\* candidate and on the entries of the host only.
LEMMA QueueKept ==
    ASSUME CandidatesKept, NEW c \in DOMAIN made PROVE Queue(c)' = Queue(c)
  BY DEF CandidatesKept, Queue, Base

LEMMA PreflightKept ==
    ASSUME CandidatesKept, NEW c \in DOMAIN made, NEW h \in Host,
           \A r \in Owned(h) : data'[r] = data[r], Preflight(c, h, Row)
    PROVE  Preflight(c, h, Row)'
  BY QueueKept DEF CandidatesKept, Preflight, Authorized, SameIdentity, Base

\* A service that the step leaves alone, with the entries of its host.
LEMMA RestartableKept ==
    ASSUME TypeOK, CandidatesKept, NEW h \in Host, Restartable(h), run'[h] = run[h],
           \A r \in Owned(h) : data'[r] = data[r]
    PROVE  Restartable(h)'
<1> SUFFICES ASSUME run[h] # Off PROVE Restartable(h)'
  BY DEF Restartable, Off, NoRows
<1>1. PICK c \in DOMAIN made : c = run[h].by
  BY DEF TypeOK, HostTypes, CandidateTypes
<1>2. Preflight(c, h, Row)'
  BY <1>1, PreflightKept DEF Restartable
<1>3. Queue(c)' = Queue(c)
  BY QueueKept
<1>4. /\ DOMAIN run[h].todo \subseteq Queue(c) /\ DOMAIN run[h].todo \subseteq Owned(h)
      /\ \A r \in DOMAIN run[h].todo : run[h].todo[r] = data[r]
  BY <1>1 DEF Restartable, TypeOK, HostTypes
<1>5. run'[h].by = c /\ run'[h].todo = run[h].todo
  BY <1>1
<1> QED
  BY <1>2, <1>3, <1>4, <1>5 DEF Restartable

\* A step that writes no entry keeps the invariant.
LEMMA SteadyStep ==
    ASSUME IInv, TypeOK', CandidatesKept,
           data' = data, repaired' = repaired, delta' = delta,
           \A h \in Host : run'[h] = run[h] \/ run'[h] = Off
    PROVE  IInv'
<1>1. Marked' /\ DeltaIsRepaired'
  BY DEF IInv, Marked, DeltaIsRepaired
<1>2. KeepsDefinitions'
  <2> SUFFICES ASSUME NEW c \in sealed', NEW r \in Row, NEW p \in Payload,
                      <<c, r, p>> \in repaired, Base(c)'[r].definition # "none"
               PROVE  p[1] = Base(c)'[r].definition
    BY DEF KeepsDefinitions
  <2>1. c \in sealed /\ c \in DOMAIN made
    BY DEF IInv, TypeOK, CentralTypes, CandidateTypes
  <2>2. Base(c)' = Base(c)
    BY <2>1 DEF CandidatesKept, Base
  <2> QED
    BY <2>1, <2>2 DEF IInv, KeepsDefinitions
<1>3. ASSUME NEW h \in Host PROVE Restartable(h)'
  <2>1. CASE run'[h] = run[h]
    BY <2>1, RestartableKept DEF IInv
  <2>2. CASE run'[h] = Off
    BY <2>2 DEF Restartable
  <2> QED
    BY <2>1, <2>2
<1> QED
  BY <1>1, <1>2, <1>3 DEF IInv

\* What a service has read when it starts is what the entries are.
LEMMA StartStep == ASSUME NEW h \in Host PROVE IInv /\ StartRepair(h) => IInv'
<1> SUFFICES ASSUME IInv, StartRepair(h) PROVE IInv'
  OBVIOUS
<1>1. TypeOK' /\ CandidatesKept
  BY StartTypes DEF IInv, StartRepair, CandidatesKept
<1>2. Marked' /\ DeltaIsRepaired' /\ KeepsDefinitions'
  BY DEF IInv, StartRepair, Marked, DeltaIsRepaired, KeepsDefinitions, Base
<1>3. PICK c \in DOMAIN made : c = current[h]
  BY DEF IInv, TypeOK, HostTypes, CandidateTypes, StartRepair
<1> DEFINE rows == {q \in Queue(c) \cap Owned(h) : Gaps(data[q]) # {}}
           todo == [r \in rows |-> data[r]]
<1>4. run' = [run EXCEPT ![h] = [by |-> c, todo |-> todo]]
  BY <1>3 DEF StartRepair
<1>5. Preflight(c, h, Row)'
  BY <1>1, <1>3, PreflightKept DEF StartRepair
<1>6. Queue(c)' = Queue(c)
  BY <1>1, QueueKept
<1>7. DOMAIN todo \subseteq Queue(c) /\ \A r \in DOMAIN todo : todo[r] = data[r]
  OBVIOUS
<1>8. ASSUME NEW g \in Host PROVE Restartable(g)'
  <2> HIDE DEF todo, rows
  <2>1. CASE g = h
    <3>1. run'[h].by = c /\ run'[h].todo = todo
      BY <1>4 DEF IInv, TypeOK, HostTypes
    <3> QED
      BY <2>1, <3>1, <1>5, <1>6, <1>7 DEF Restartable, StartRepair
  <2>2. CASE g # h
    BY <2>2, <1>1, <1>4, RestartableKept DEF IInv, TypeOK, HostTypes, StartRepair
  <2> QED
    BY <2>1, <2>2
<1> QED
  BY <1>1, <1>2, <1>8 DEF IInv

\* What an export puts into its file, a repair has written: a queued row that
\* has no gap any more is not the candidate's.
LEMMA ExportStep == ASSUME NEW h \in Host PROVE IInv /\ Export(h) => IInv'
<1> SUFFICES ASSUME IInv, Export(h) PROVE IInv'
  OBVIOUS
<1>1. TypeOK' /\ CandidatesKept
  BY ExportTypes DEF IInv, Export, CandidatesKept
<1>2. Marked' /\ KeepsDefinitions'
  BY DEF IInv, Export, Marked, KeepsDefinitions, Base
<1>3. PICK c \in sealed : c = current[h] /\ c # 0
  BY RepairConstants DEF IInv, TypeOK, HostTypes, CandidateTypes, Export
<1> DEFINE rows == Queue(c) \cap Owned(h)
           file == [r \in rows |->
                      [changed |-> Changed(c, r, data[r]), definition |-> data[r].definition,
                       definition_zh |-> data[r].definition_zh, other |-> data[r].other]]
<1>4. delta' = [delta EXCEPT ![h] = [candidate |-> c, rows |-> file]] /\ repaired' = repaired
  BY <1>3 DEF Export
<1>5. ASSUME NEW r \in rows PROVE <<c, r, PayloadOf(file[r])>> \in repaired
  <2>1. /\ r \in Row /\ Gaps(data[r]) = {} /\ Gaps(Base(c)[r]) # {} /\ Authorized(c, r)
    BY <1>3 DEF Queue, Export, Preflight
  <2>2. data[r].mark.by = c /\ data[r].mark.payload = PayloadOf(data[r])
    BY <2>1 DEF Authorized
  <2>3. <<c, r, PayloadOf(data[r])>> \in repaired
    BY <2>1, <2>2, <1>3 DEF IInv, Marked
  <2>4. PayloadOf(file[r]) = PayloadOf(data[r])
    BY DEF PayloadOf
  <2> QED
    BY <2>3, <2>4
<1>6. DeltaIsRepaired'
  <2> SUFFICES ASSUME NEW g \in Host, NEW r \in DOMAIN delta'[g].rows
               PROVE  <<delta'[g].candidate, r, PayloadOf(delta'[g].rows[r])>> \in repaired
    BY <1>4 DEF DeltaIsRepaired, PayloadOf
  <2>1. DOMAIN file = rows
    OBVIOUS
  <2> HIDE DEF file, rows
  <2>2. CASE g = h
    BY <2>1, <2>2, <1>4, <1>5 DEF IInv, TypeOK, HostTypes
  <2>3. CASE g # h
    BY <2>3, <1>4 DEF IInv, TypeOK, HostTypes, DeltaIsRepaired
  <2> QED
    BY <2>2, <2>3
<1>7. ASSUME NEW g \in Host PROVE Restartable(g)'
  BY <1>1, RestartableKept DEF IInv, Export
<1> QED
  BY <1>1, <1>2, <1>6, <1>7 DEF IInv

-----------------------------------------------------------------------------
(* The invariant: steps that write an entry.                               *)

\* A write of another program, on a host where no repair runs: the marker is
\* an ordinary one, or stays what it was.
LEMMA OtherWriteStep ==
    ASSUME IInv, NEW r \in Row, Collect(r) \/ Prefill(r) PROVE IInv'
<1>1. TypeOK'
  BY CollectTypes, PrefillTypes DEF IInv
<1>2. CandidatesKept
  BY DEF Collect, Prefill, CandidatesKept
<1>3. /\ run[Owner(r)] = Off /\ run' = run /\ repaired' = repaired /\ delta' = delta
      /\ made' = made /\ sealed' = sealed
  BY DEF Collect, Prefill
<1>4. data' \in [Row -> Entries] /\ data \in [Row -> Entries]
  BY <1>1 DEF IInv, TypeOK, CandidateTypes
<1>5. /\ \A q \in Row \ {r} : data'[q] = data[q]
      /\ data'[r].mark.by = 0 \/ data'[r].mark = data[r].mark
  <2>1. CASE Collect(r)
    <3>1. PICK e \in Enrichments(data[r]) :
            data' = [data EXCEPT ![r] = WithMarker(e, 0, data[r].mark.at + 1)]
      BY <2>1 DEF Collect
    <3>2. e \in Entries /\ data[r].mark.at + 1 \in Nat /\ 0 \in 0 .. MaxCandidates
      BY <1>4, EnrichmentFacts, RepairConstants DEF Entries, Marker
    <3>3. WithMarker(e, 0, data[r].mark.at + 1).mark.by = 0
      BY <3>2, MarkerFacts
    <3> QED
      BY <3>1, <3>3, <1>4
  <2>2. CASE Prefill(r)
    <3>1. PICK more \in BOOLEAN, source \in BOOLEAN :
            data' = [data EXCEPT ![r].other = @ \/ more, ![r].source = @ \/ source]
      BY <2>2 DEF Prefill
    <3> QED
      BY <3>1, <1>4 DEF Entries
  <2> QED
    BY <2>1, <2>2
<1>6. Marked' /\ DeltaIsRepaired' /\ KeepsDefinitions'
  BY <1>3, <1>5 DEF IInv, Marked, DeltaIsRepaired, KeepsDefinitions, Base
<1>7. ASSUME NEW h \in Host PROVE Restartable(h)'
  <2>1. CASE run[h] = Off
    BY <2>1, <1>3 DEF Restartable
  <2>2. CASE run[h] # Off
    <3>1. \A q \in Owned(h) : q \in Row /\ q # r
      BY <2>2, <1>3 DEF Owned
    <3> QED
      BY <3>1, <1>1, <1>2, <1>3, <1>5, RestartableKept DEF IInv
  <2> QED
    BY <2>1, <2>2
<1> QED
  BY <1>1, <1>6, <1>7 DEF IInv

\* A repair writes a row that is as it was read: what it writes passes the
\* next preflight, and a definition that the candidate has is still the one
\* that the row has, from the candidate or from an earlier repair for it.
LEMMA RepairStep ==
    ASSUME IInv, NEW h \in Host, NEW r \in Row, RepairRow(h, r) PROVE IInv'
<1>1. TypeOK'
  BY RepairTypes DEF IInv
<1>2. CandidatesKept
  BY DEF RepairRow, CandidatesKept
<1>3. PICK c \in sealed : c = run[h].by /\ c \in DOMAIN made /\ c # 0
  BY RepairConstants
     DEF IInv, TypeOK, HostTypes, CandidateTypes, RepairRow, Off, NoRows
<1>4. run[h] # Off /\ r \in DOMAIN run[h].todo
  BY DEF RepairRow, Off, NoRows
<1>5. /\ r \in Queue(c) /\ r \in Owned(h) /\ run[h].todo[r] = data[r]
      /\ Authorized(c, r) /\ SameIdentity(c, r) /\ Preflight(c, h, Row)
  BY <1>3, <1>4 DEF IInv, Restartable, TypeOK, HostTypes, Preflight
<1>6. /\ data \in [Row -> Entries] /\ data[r] \in Entries /\ data[r].mark.at + 1 \in Nat
      /\ c \in 0 .. MaxCandidates
  BY <1>3, RepairConstants DEF IInv, TypeOK, CandidateTypes, Entries, Marker
<1>7. PICK e \in Enrichments(data[r]) :
        /\ data' = [data EXCEPT ![r] = WithMarker(e, c, data[r].mark.at + 1)]
        /\ repaired' = repaired \cup {<<c, r, PayloadOf(e)>>}
  BY <1>3, <1>5 DEF RepairRow
<1> DEFINE x == WithMarker(e, c, data[r].mark.at + 1)
           todo == [q \in DOMAIN run[h].todo \ {r} |-> run[h].todo[q]]
<1>8. /\ e \in Entries /\ e.source = data[r].source
      /\ data[r].definition # "none" => e.definition = data[r].definition
  BY <1>6, EnrichmentFacts
<1>9. /\ x \in Entries /\ x.source = e.source /\ x.mark.by = c
      /\ x.mark.payload = PayloadOf(e) /\ PayloadOf(x) = PayloadOf(e)
      /\ PayloadOf(e) \in Payload /\ PayloadOf(e)[1] = e.definition
  BY <1>6, <1>8, MarkerFacts
<1>10. run' = [run EXCEPT ![h] = [by |-> c, todo |-> todo]] /\ delta' = delta
  BY <1>3 DEF RepairRow
<1>11. made' = made /\ sealed' = sealed
  BY DEF RepairRow
<1>12. \A q \in DOMAIN todo : q # r /\ q \in DOMAIN run[h].todo /\ todo[q] = run[h].todo[q]
  OBVIOUS
<1> HIDE DEF x, todo
<1>13. data'[r] = x /\ \A q \in Row \ {r} : data'[q] = data[q]
  BY <1>6, <1>7 DEF x
<1>14. Marked' /\ DeltaIsRepaired'
  BY <1>7, <1>9, <1>10, <1>13 DEF IInv, Marked, DeltaIsRepaired
<1>15. ASSUME Base(c)[r].definition # "none" PROVE e.definition = Base(c)[r].definition
  <2>1. CASE data[r] = Base(c)[r]
    BY <2>1, <1>8, <1>15
  <2>2. CASE data[r].mark.by = c /\ data[r].mark.payload = PayloadOf(data[r])
    <3>1. /\ <<c, r, PayloadOf(data[r])>> \in repaired
          /\ PayloadOf(data[r]) \in Payload /\ PayloadOf(data[r])[1] = data[r].definition
      BY <2>2, <1>3, <1>6 DEF IInv, Marked, PayloadOf, Payload, Entries
    <3>2. data[r].definition = Base(c)[r].definition
      BY <3>1, <1>15 DEF IInv, KeepsDefinitions
    <3> QED
      BY <3>2, <1>8, <1>15
  <2> QED
    BY <2>1, <2>2, <1>5 DEF Authorized
<1>16. KeepsDefinitions'
  BY <1>7, <1>9, <1>11, <1>15 DEF IInv, KeepsDefinitions, Base
<1>17. Preflight(c, h, Row)'
  <2>1. Queue(c)' = Queue(c) /\ Base(c)' = Base(c)
    BY <1>2, <1>3, QueueKept DEF CandidatesKept, Base
  <2>2. ASSUME NEW q \in Owned(h) PROVE Authorized(c, q)' /\ SameIdentity(c, q)'
    <3>1. CASE q = r
      BY <3>1, <2>1, <1>5, <1>8, <1>9, <1>13 DEF Authorized, SameIdentity
    <3>2. CASE q # r
      <4>1. data'[q] = data[q] /\ Authorized(c, q)
        BY <3>2, <1>5, <1>13 DEF Owned, Preflight
      <4> QED
        BY <4>1, <2>1, <1>5 DEF Authorized, SameIdentity, Preflight
    <3> QED
      BY <3>1, <3>2
  <2> QED
    BY <2>2 DEF Preflight
<1>18. ASSUME NEW g \in Host PROVE Restartable(g)'
  <2>1. CASE g = h
    <3>1. run'[h].by = c /\ run'[h].todo = todo
      BY <1>10 DEF IInv, TypeOK, HostTypes
    <3>2. Queue(c)' = Queue(c)
      BY <1>2, <1>3, QueueKept
    <3>3. DOMAIN todo \subseteq Queue(c)
      BY <1>3, <1>4, <1>12 DEF IInv, Restartable
    <3>4. \A q \in DOMAIN todo : todo[q] = data'[q]
      BY <1>3, <1>4, <1>12, <1>13 DEF IInv, Restartable, TypeOK, HostTypes, Owned
    <3> QED
      BY <2>1, <3>1, <3>2, <3>3, <3>4, <1>17 DEF Restartable
  <2>2. CASE g # h
    <3>1. \A q \in Owned(g) : q \in Row /\ q # r
      BY <2>2, <1>5 DEF Owned
    <3>2. run'[g] = run[g] /\ \A q \in Owned(g) : data'[q] = data[q]
      BY <2>2, <3>1, <1>10, <1>13 DEF IInv, TypeOK, HostTypes
    <3> QED
      BY <3>2, <1>2, RestartableKept DEF IInv
  <2> QED
    BY <2>1, <2>2
<1> QED
  BY <1>1, <1>14, <1>16, <1>18 DEF IInv

-----------------------------------------------------------------------------
(* The theorems.                                                           *)

LEMMA InvariantInit == Init => IInv
<1> SUFFICES ASSUME Init PROVE IInv
  OBVIOUS
<1>1. TypeOK
  BY TypeInit
<1>2. Marked
  BY UnrepairedFacts, RepairConstants DEF Init, Marked
<1>3. DeltaIsRepaired /\ KeepsDefinitions
  BY DEF Init, DeltaIsRepaired, KeepsDefinitions, NoDelta, NoRows
<1>4. \A h \in Host : Restartable(h)
  BY DEF Init, Restartable
<1> QED
  BY <1>1, <1>2, <1>3, <1>4 DEF IInv

LEMMA InvariantStep == IInv /\ [Next]_vars => IInv'
<1> SUFFICES ASSUME IInv, [Next]_vars PROVE IInv'
  OBVIOUS
<1>1. TypeOK'
  BY TypeStep DEF IInv
<1>2. CASE Prepare
  BY <1>1, <1>2, SteadyStep DEF Prepare, CandidatesKept
<1>3. CASE RefreshOwner
  BY <1>1, <1>3, SteadyStep, RefreshKeeps DEF RefreshOwner, IInv
<1>4. ASSUME NEW r \in Row, Collect(r) \/ Prefill(r) PROVE IInv'
  BY <1>4, OtherWriteStep
<1>5. ASSUME NEW r \in Row, Enrich(r) PROVE IInv'
  BY <1>1, <1>5, SteadyStep DEF Enrich, CandidatesKept
<1>6. ASSUME NEW h \in Host, StartRepair(h) PROVE IInv'
  BY <1>6, StartStep
<1>7. ASSUME NEW h \in Host, StopRepair(h) PROVE IInv'
  <2>1. \A g \in Host : run'[g] = run[g] \/ run'[g] = Off
    BY <1>7 DEF StopRepair, IInv, TypeOK, HostTypes
  <2> QED
    BY <1>1, <1>7, <2>1, SteadyStep DEF StopRepair, CandidatesKept
<1>8. ASSUME NEW h \in Host, Export(h) PROVE IInv'
  BY <1>8, ExportStep
<1>9. ASSUME NEW h \in Host, NEW r \in Row, RepairRow(h, r) PROVE IInv'
  BY <1>9, RepairStep
<1>10. ASSUME NEW c \in DOMAIN made, Seal(c) PROVE IInv'
  BY <1>1, <1>10, SteadyStep DEF Seal, CandidatesKept
<1>11. ASSUME NEW c \in DOMAIN made, Apply(c) PROVE IInv'
  BY <1>1, <1>11, SteadyStep DEF Apply, CandidatesKept
<1>12. ASSUME NEW c \in DOMAIN made, NEW h \in Host, Activate(c, h) PROVE IInv'
  BY <1>1, <1>12, SteadyStep DEF Activate, CandidatesKept
<1>13. CASE UNCHANGED vars
  BY <1>1, <1>13, SteadyStep DEF vars, CandidatesKept
<1> QED
  BY <1>2, <1>3, <1>4, <1>5, <1>6, <1>7, <1>8, <1>9, <1>10, <1>11, <1>12, <1>13 DEF Next

\* The strengthening of the safety invariants is inductive.
THEOREM RepairInvariant == Spec => []IInv
  BY InvariantInit, InvariantStep, PTL DEF Spec

\* Candidates, services, deltas and the canonical snapshot keep their types.
THEOREM RepairTypesHold == Spec => []TypeOK
<1>1. IInv => TypeOK
  BY DEF IInv
<1> QED
  BY <1>1, RepairInvariant, PTL

\* A repair that stops after any row can be started again, and what it is
\* about to write it computes from the row as it is.
THEOREM RepairsRestart == Spec => []RepairCanRestart
<1>1. IInv => RepairCanRestart
  BY DEF IInv, Restartable, RepairCanRestart
<1> QED
  BY <1>1, RepairInvariant, PTL

\* Every entry with a gap on a host that repairs is in its queue: the
\* preflight admits no other difference from the candidate.
THEOREM GapsAreQueued == Spec => []NoGapEscapes
<1>1. ASSUME IInv, NEW h \in Host, run[h] # Off, NEW r \in Owned(h), Gaps(data[r]) # {}
      PROVE  r \in Queue(run[h].by)
  <2>1. r \in Row /\ Authorized(run[h].by, r)
    BY <1>1 DEF IInv, Restartable, Preflight, Owned
  <2> QED
    BY <2>1, <1>1 DEF Authorized, Queue
<1>2. IInv => NoGapEscapes
  BY <1>1 DEF NoGapEscapes
<1> QED
  BY <1>2, RepairInvariant, PTL

\* A delta file holds what a repair for its candidate wrote, and nothing else.
THEOREM DeltasAreRepairs == Spec => []DeltaIsRepaired
<1>1. IInv => DeltaIsRepaired
  BY DEF IInv
<1> QED
  BY <1>1, RepairInvariant, PTL

-----------------------------------------------------------------------------
(* Merging.                                                                *)

\* The row of a valid union for a queued entry: a repair wrote it, it has no
\* gap, and it says which of its columns are not the candidate's.
LEMMA UnionRow ==
    ASSUME IInv, NEW c \in sealed, ValidUnion(c), NEW r \in Queue(c)
    PROVE  /\ r \in Row /\ DeltaRow(r) \in DeltaRows
           /\ DeltaRow(r).changed = Changed(c, r, DeltaRow(r))
           /\ Gaps(DeltaRow(r)) = {}
           /\ <<c, r, PayloadOf(DeltaRow(r))>> \in repaired
           /\ PayloadOf(DeltaRow(r)) \in Payload
<1>1. r \in Row /\ Owner(r) \in Host
  BY OwnerIsHost DEF Queue
<1>2. r \in DOMAIN delta[Owner(r)].rows /\ delta[Owner(r)].candidate = c
  BY <1>1 DEF ValidUnion, Owned
<1>3. r \in Rows
  BY <1>1, <1>2 DEF Rows
<1>4. DeltaRow(r) \in DeltaRows
  BY <1>1, <1>2 DEF IInv, TypeOK, HostTypes, DeltaRow
<1>5. DeltaRow(r).changed = Changed(c, r, DeltaRow(r)) /\ Gaps(DeltaRow(r)) = {}
  BY <1>3 DEF ValidUnion
<1>6. <<c, r, PayloadOf(DeltaRow(r))>> \in repaired
  BY <1>1, <1>2 DEF IInv, DeltaIsRepaired, DeltaRow
<1>7. PayloadOf(DeltaRow(r)) \in Payload
  BY <1>4 DEF PayloadOf, Payload, DeltaRows
<1> QED
  BY <1>1, <1>4, <1>5, <1>6, <1>7

\* What may differ in it: the translation, and the definition if the
\* candidate has none.
LEMMA ChangedColumns ==
    ASSUME NEW c, NEW r \in Queue(c), NEW e
    PROVE  /\ "definition_zh" \in Changed(c, r, e) <=>
                  e.definition_zh # Base(c)[r].definition_zh
           /\ "definition" \in Changed(c, r, e) <=>
                  /\ Base(c)[r].definition = "none"
                  /\ e.definition # Base(c)[r].definition
           /\ Changed(c, r, e) \subseteq {"definition", "definition_zh"}
<1>1. "definition" \in Gaps(Base(c)[r]) <=> Base(c)[r].definition = "none"
  BY DEF Gaps
<1>2. /\ Gaps(Base(c)[r]) \subseteq {"definition", "definition_zh"}
      /\ Gaps(Base(c)[r]) # {}
  BY DEF Gaps, Queue
<1>3. /\ "definition_zh" \in Allowed(c, r)
      /\ "definition" \in Allowed(c, r) <=> Base(c)[r].definition = "none"
      /\ Allowed(c, r) \subseteq {"definition", "definition_zh"}
  BY <1>1, <1>2 DEF Allowed, GapColumns
<1> QED
  BY <1>3 DEF Changed

\* The step of a merge: where the canonical row has neither the candidate's
\* column nor the delta's there is a conflict.
LEMMA ExactRow ==
    ASSUME IInv, NEW c \in sealed, ValidUnion(c), NEW r \in Queue(c),
           NEW row \in Columns, Conflicts(c, r, row) = {}
    PROVE  \A column \in Column : MergedRow(r, row)[column] # row[column] =>
              /\ row[column] = Base(c)[r][column]
              /\ \E x \in repaired :
                    x[1] = c /\ x[2] = r /\ x[3][Place[column]] = MergedRow(r, row)[column]
<1> DEFINE d == DeltaRow(r)
           x == <<c, r, PayloadOf(d)>>
<1>1. x \in repaired
  BY UnionRow
<1>2. /\ x[1] = c /\ x[2] = r
      /\ x[3][Place["definition"]] = d.definition
      /\ x[3][Place["definition_zh"]] = d.definition_zh
  BY DEF PayloadOf, Place
<1>3. \A column \in d.changed : row[column] \in {Base(c)[r][column], d[column]}
  BY DEF Conflicts
<1> HIDE DEF d, x
<1>4. /\ MergedRow(r, row).definition # row.definition =>
            "definition" \in d.changed /\ MergedRow(r, row).definition = d.definition
      /\ MergedRow(r, row).definition_zh # row.definition_zh =>
            "definition_zh" \in d.changed /\ MergedRow(r, row).definition_zh = d.definition_zh
      /\ MergedRow(r, row).other = row.other
  BY DEF MergedRow, Columns, d
<1> QED
  BY <1>1, <1>2, <1>3, <1>4 DEF Column

\* What a merge changes in the canonical snapshot a repair for its candidate
\* wrote, over what the candidate has.
THEOREM MergesAreExact == Spec => MergeIsExact
<1> DEFINE Exact ==
      applied' # applied =>
        LET c == applied'.candidate IN
        /\ \A r \in Row : \A column \in Column :
            central'[r][column] # central[r][column] =>
                /\ r \in Queue(c) /\ central[r][column] = Base(c)[r][column]
                /\ \E x \in repaired :
                    x[1] = c /\ x[2] = r /\ x[3][Place[column]] = central'[r][column]
        /\ \A r \in Row : central'[r].source = central[r].source
        /\ \A r \in Queue(c) : Gaps(central'[r]) = {}
<1>1. ASSUME IInv, NEW c \in DOMAIN made, Apply(c) PROVE Exact
  <2>1. applied'.candidate = c /\ c \in sealed /\ ValidUnion(c)
    BY <1>1 DEF Apply
  <2>2. central' = [r \in Row |-> IF r \in Queue(c) THEN MergedRow(r, central[r])
                                  ELSE central[r]]
    BY <1>1 DEF Apply
  <2>3. \A r \in Queue(c) : Conflicts(c, r, central[r]) = {} /\ Gaps(MergedRow(r, central[r])) = {}
    BY <1>1 DEF Apply, Merges
  <2>4. \A r \in Row : central[r] \in Columns
    BY <1>1 DEF IInv, TypeOK, CentralTypes
  <2>5. \A r \in Row : MergedRow(r, central[r]).source = central[r].source
    BY <2>4 DEF MergedRow, Columns
  <2>6. \A r \in Queue(c) : r \in Row
    BY DEF Queue
  <2>7. ASSUME NEW r \in Row, NEW column \in Column,
               central'[r][column] # central[r][column]
        PROVE  /\ r \in Queue(c) /\ central[r][column] = Base(c)[r][column]
               /\ \E x \in repaired :
                    x[1] = c /\ x[2] = r /\ x[3][Place[column]] = central'[r][column]
    <3>1. r \in Queue(c) /\ central'[r] = MergedRow(r, central[r])
      BY <2>2, <2>7
    <3> QED
      BY <3>1, <1>1, <2>1, <2>3, <2>4, <2>7, ExactRow
  <2> QED
    BY <2>1, <2>2, <2>3, <2>5, <2>6, <2>7
<1>2. ASSUME IInv, [Next]_vars PROVE [Exact]_vars
  <2>1. ASSUME applied' # applied, ~ UNCHANGED vars PROVE \E c \in DOMAIN made : Apply(c)
    BY <1>2, <2>1 DEF Next, vars, Prepare, RefreshOwner, Collect, Prefill, Enrich, StartRepair,
                      StopRepair, Export, RepairRow, Seal, Activate
  <2> QED
    BY <1>1, <1>2, <2>1
<1> QED
  BY <1>2, RepairInvariant, PTL DEF Spec, MergeIsExact

\* A valid union closes the gaps of the candidate's own rows: what it changes
\* in one and what it leaves there make up the row that the repair wrote.
LEMMA UnionClosesRow ==
    ASSUME IInv, NEW c \in sealed, ValidUnion(c), NEW r \in Queue(c)
    PROVE  LET row == ColumnsOf(Base(c)[r]) IN
           Conflicts(c, r, row) = {} /\ Gaps(MergedRow(r, row)) = {}
<1> DEFINE d == DeltaRow(r)
           b == Base(c)[r]
           row == ColumnsOf(b)
<1>1. /\ r \in Row /\ d \in DeltaRows /\ d.changed = Changed(c, r, d) /\ Gaps(d) = {}
      /\ <<c, r, PayloadOf(d)>> \in repaired /\ PayloadOf(d) \in Payload
  BY UnionRow
<1>2. b \in Entries
  BY <1>1 DEF IInv, TypeOK, CandidateTypes, Base
<1>3. /\ row \in Columns /\ row.definition = b.definition
      /\ row.definition_zh = b.definition_zh
  BY <1>2 DEF ColumnsOf, Entries, Columns
<1>4. /\ "definition_zh" \in d.changed <=> d.definition_zh # b.definition_zh
      /\ "definition" \in d.changed <=> b.definition = "none" /\ d.definition # b.definition
      /\ d.changed \subseteq {"definition", "definition_zh"}
  BY <1>1, ChangedColumns
<1>5. b.definition # "none" => d.definition = b.definition
  BY <1>1 DEF IInv, KeepsDefinitions, PayloadOf
<1> HIDE DEF d, b, row
<1>6. Conflicts(c, r, row) = {}
  BY <1>3, <1>4 DEF Conflicts, d, b
<1>7. /\ MergedRow(r, row).definition = d.definition
      /\ MergedRow(r, row).definition_zh = d.definition_zh
  BY <1>3, <1>4, <1>5 DEF MergedRow, Columns, d
<1>8. Gaps(MergedRow(r, row)) = Gaps(d)
  BY <1>7 DEF Gaps
<1> QED
  BY <1>1, <1>6, <1>8 DEF row, b

\* The deltas of all hosts can be merged into a snapshot that is still the
\* candidate's, whatever was written around the repairs.
THEOREM UnmovedUnions == Spec => []UnmovedTakesUnion
<1>1. ASSUME IInv, NEW c \in sealed, ValidUnion(c)
      PROVE  Merges(c, [r \in Row |-> ColumnsOf(Base(c)[r])], CanonicalRank)
  <2>1. ASSUME NEW r \in Queue(c)
        PROVE  /\ ColumnsOf(Base(c)[r]).source = Base(c)[r].source
               /\ Conflicts(c, r, ColumnsOf(Base(c)[r])) = {}
               /\ Gaps(MergedRow(r, ColumnsOf(Base(c)[r]))) = {}
    BY <1>1, UnionClosesRow DEF ColumnsOf
  <2>2. \A r \in Queue(c) : r \in Row
    BY DEF Queue
  <2> QED
    BY <2>1, <2>2 DEF Merges
<1>2. IInv => UnmovedTakesUnion
  BY <1>1 DEF UnmovedTakesUnion
<1> QED
  BY <1>2, RepairInvariant, PTL

-------------------------------------------------------------------------------
(***************************************************************************)
(* The repair is alone with its database, and what it stopped comes back,  *)
(* for every choice of enabled and conflicting units.                      *)
(***************************************************************************)

\* Where a unit stands in QuiesceOrder, and in RestoreOrder.
OfHost(c) == IF c = "micro" THEN 1 ELSE 2
QuiescePlace(u) ==
    OfHost(u[2]) + (CASE u[1] = "timer" -> 0 [] u[1] = "watch" -> 2
                      [] u[1] = "recover" -> 4 [] u[1] = "collector" -> 6)
RestorePlace(u) ==
    OfHost(u[2]) + (CASE u[1] = "collector" -> 0 [] u[1] = "recover" -> 2
                      [] u[1] = "watch" -> 4 [] u[1] = "timer" -> 6)

\* The first `n` units have been stopped.
Quiesced(n) ==
    \/ repair.pc = "quiesce" /\ n < repair.k
    \/ repair.pc \in {"check", "main"}

\* What has been stopped stays down: nothing that might start it is up.
StaysDown ==
    /\ repair.pc = "quiesce" => repair.k \in 1 .. 8
    /\ \A u \in Unit : Quiesced(QuiescePlace(u)) => unit[u] = "inactive"

OwedIsDown == \A u \in owed : unit[u] = "inactive"

\* Until the snapshot is there nothing has been stopped that was up when read, and
\* afterwards it is what was read.
SnapshotIsRead ==
    /\ repair.pc = "capture" => repair.read = Nothing
    /\ repair.pc = "read" => repair.k \in 1 .. 8
    /\ repair.pc \in {"read", "publish"} => marker = Nothing
    /\ repair.pc \in {"quiesce", "check", "main"} => marker = repair.read
    /\ repair.pc \in {"capture", "read", "publish"} => \A u \in owed : ~Up(repair.read[u])

\* What is owed and was up is still to be restored.
OwedIsRestored ==
    repair.pc = "restore" =>
       /\ \A u \in owed : Up(repair.read[u]) =>
             marker = repair.read /\ repair.k <= RestorePlace(u)
       /\ repair.read # Nothing /\ marker # Nothing => marker = repair.read

TakeInv ==
    TakeoverTypeOK /\ StaysDown /\ OwedIsDown /\ SnapshotIsRead /\ OwedIsRestored
        /\ CapturedResume

-----------------------------------------------------------------------------
(* Units and orders.                                                       *)

LEMMA UnitFacts ==
    /\ \A u \in Unit : /\ u = <<u[1], u[2]>> /\ u[1] \in Kind /\ u[2] \in CollectorName
                       /\ QuiescePlace(u) \in 1 .. 8 /\ RestorePlace(u) \in 1 .. 8
    /\ \A kind \in Kind, c \in CollectorName : <<kind, c>> \in Unit
    /\ CollectorUnit \subseteq Unit
  BY DEF Unit, Kind, CollectorName, CollectorUnit, QuiescePlace, RestorePlace, OfHost

LEMMA OrderLengths == Len(ReadOrder) = 8 /\ Len(QuiesceOrder) = 8 /\ Len(RestoreOrder) = 8
  BY DEF ReadOrder, QuiesceOrder, RestoreOrder

LEMMA Orders ==
    ASSUME NEW n \in 1 .. 8
    PROVE  /\ ReadOrder[n] \in Unit /\ QuiesceOrder[n] \in Unit /\ RestoreOrder[n] \in Unit
           /\ QuiescePlace(QuiesceOrder[n]) = n /\ RestorePlace(RestoreOrder[n]) = n
  <1>1. \/ n = 1 \/ n = 2 \/ n = 3 \/ n = 4 \/ n = 5 \/ n = 6 \/ n = 7 \/ n = 8
    OBVIOUS
  <1>2. ReadOrder[n] \in Unit /\ QuiesceOrder[n] \in Unit /\ RestoreOrder[n] \in Unit
    BY <1>1 DEF ReadOrder, QuiesceOrder, RestoreOrder, Unit, Kind, CollectorName
  <1>3. QuiescePlace(QuiesceOrder[n]) = n /\ RestorePlace(RestoreOrder[n]) = n
    BY <1>1 DEF QuiesceOrder, RestoreOrder, QuiescePlace, RestorePlace, OfHost
  <1>4. QED
    BY <1>2, <1>3

\* Every unit has a place of its own.
LEMMA Places ==
    ASSUME NEW u \in Unit, NEW v \in Unit
    PROVE  /\ QuiescePlace(u) = QuiescePlace(v) => u = v
           /\ RestorePlace(u) = RestorePlace(v) => u = v
  BY DEF Unit, Kind, CollectorName, QuiescePlace, RestorePlace, OfHost

\* What may start a unit is stopped before it.
LEMMA StartersFirst ==
    ASSUME NEW c \in CollectorName, NEW d \in CollectorName
    PROVE  /\ QuiescePlace(<<"timer", c>>) < QuiescePlace(<<"watch", d>>)
           /\ QuiescePlace(<<"watch", c>>) < QuiescePlace(<<"recover", d>>)
           /\ QuiescePlace(<<"recover", c>>) < QuiescePlace(<<"collector", d>>)
  BY DEF CollectorName, QuiescePlace, OfHost

LEMMA QuiescedDown ==
    ASSUME NEW m \in Nat, NEW n \in Nat, m < n, TakeoverTypeOK, Quiesced(n) PROVE Quiesced(m)
  BY DEF Quiesced, TakeoverTypeOK

LEMMA TypeFacts ==
    ASSUME TakeoverTypeOK
    PROVE  /\ DOMAIN unit = Unit /\ \A u \in Unit : unit[u] \in State
           /\ DOMAIN repair = {"pc", "k", "read"} /\ repair.k \in 1 .. 9
           /\ repair.pc \in Running \cup {"off", "restore"}
           /\ DOMAIN repair.read = Unit /\ DOMAIN marker = Unit
  BY OrderLengths DEF TakeoverTypeOK

LEMMA GoToFields ==
    ASSUME TakeoverTypeOK, NEW p, NEW n, NEW y, y = [repair EXCEPT !.pc = p, !.k = n]
    PROVE  y = [pc |-> p, k |-> n, read |-> repair.read]
  <1>1. repair = [pc |-> repair.pc, k |-> repair.k, read |-> repair.read]
    BY DEF TakeoverTypeOK
  <1>2. DOMAIN y = {"pc", "k", "read"} /\ y.pc = p /\ y.k = n /\ y.read = repair.read
    BY <1>1
  <1>3. y = [field \in {"pc", "k", "read"} |-> y[field]]
    BY <1>1
  <1>4. QED
    BY <1>2, <1>3

\* A step of the repair that goes to `p`, at index `n`.
LEMMA GoToType ==
    ASSUME TakeoverTypeOK, NEW p \in Running \cup {"off", "restore"}, NEW n \in 1 .. 9,
           repair' = [repair EXCEPT !.pc = p, !.k = n],
           unit' \in [Unit -> State], marker' \in [Unit -> State \cup {NoState}],
           owed' \subseteq Unit
    PROVE  /\ TakeoverTypeOK'
           /\ repair'.pc = p /\ repair'.k = n /\ repair'.read = repair.read
  <1>1. repair.read \in [Unit -> State \cup {NoState}]
    BY DEF TakeoverTypeOK
  <1>2. repair' = [pc |-> p, k |-> n, read |-> repair.read]
    BY GoToFields
  <1>3. QED
    BY <1>1, <1>2, OrderLengths DEF TakeoverTypeOK

-----------------------------------------------------------------------------
LEMMA TakeInitInv == TakeoverInit => TakeInv
  <1> SUFFICES ASSUME TakeoverInit PROVE TakeInv
    OBVIOUS
  <1>1. TakeoverTypeOK
    BY OrderLengths DEF TakeoverInit, TakeoverTypeOK, RepairOff, Nothing, State
  <1>2. QED
    BY <1>1 DEF TakeoverInit, TakeInv, StaysDown, Quiesced, OwedIsDown, SnapshotIsRead,
                OwedIsRestored, CapturedResume, RepairOff, Nothing

\* A step that stops nothing and starts nothing that is stopped, and may end the
\* repair.
LEMMA SideInv ==
    ASSUME TakeInv, unit' \in [Unit -> State], marker' = marker,
           owed' \subseteq owed, \A u \in owed' : unit'[u] = "inactive",
           \/ repair' = repair
           \/ repair.pc \in Running /\ repair' = [repair EXCEPT !.pc = "restore", !.k = 1],
           \A u \in Unit : Quiesced(QuiescePlace(u)) => unit'[u] = "inactive"
    PROVE  TakeInv'
  <1>1. TakeoverTypeOK /\ DOMAIN repair = {"pc", "k", "read"}
    BY TypeFacts DEF TakeInv
  <1>2. TakeoverTypeOK'
    <2>1. marker' \in [Unit -> State \cup {NoState}] /\ owed' \subseteq Unit
      BY <1>1 DEF TakeoverTypeOK
    <2>2. CASE repair' = repair
      BY <1>1, <2>1, <2>2 DEF TakeoverTypeOK
    <2>3. CASE repair' = [repair EXCEPT !.pc = "restore", !.k = 1]
      <3>1. "restore" \in Running \cup {"off", "restore"} /\ 1 \in 1 .. 9
        OBVIOUS
      <3>2. QED
        BY <1>1, <2>1, <2>3, <3>1, GoToType
    <2>4. QED
      BY <2>2, <2>3
  <1>3. OwedIsDown'
    BY DEF OwedIsDown
  <1>4. CASE repair' = repair
    <2>1. StaysDown'
      BY <1>4 DEF TakeInv, StaysDown, Quiesced
    <2>2. SnapshotIsRead' /\ OwedIsRestored' /\ CapturedResume'
      BY <1>4 DEF TakeInv, SnapshotIsRead, OwedIsRestored, CapturedResume
    <2>3. QED
      BY <1>2, <1>3, <2>1, <2>2 DEF TakeInv
  <1>5. CASE repair.pc \in Running /\ repair' = [repair EXCEPT !.pc = "restore", !.k = 1]
    <2>1. repair'.pc = "restore" /\ repair'.k = 1 /\ repair'.read = repair.read
      BY <1>1, <1>5
    <2>2. StaysDown' /\ SnapshotIsRead' /\ CapturedResume'
      <3>1. StaysDown' /\ SnapshotIsRead'
        BY <2>1 DEF StaysDown, Quiesced, SnapshotIsRead
      <3>2. repair.read # Nothing /\ marker # Nothing => marker = repair.read
        BY <1>5 DEF TakeInv, SnapshotIsRead, Running
      <3>3. QED
        BY <2>1, <3>1, <3>2 DEF CapturedResume
    <2>3. OwedIsRestored'
      <3>1. \A u \in owed : Up(repair.read[u]) => marker = repair.read /\ u \in Unit
        BY <1>1, <1>5 DEF TakeInv, SnapshotIsRead, Running, TakeoverTypeOK
      <3>2. \A u \in Unit : 1 <= RestorePlace(u)
        BY UnitFacts
      <3>3. repair.read # Nothing /\ marker # Nothing => marker = repair.read
        BY <1>5 DEF TakeInv, SnapshotIsRead, Running
      <3>4. QED
        BY <2>1, <3>1, <3>2, <3>3 DEF OwedIsRestored
    <2>4. QED
      BY <1>2, <1>3, <2>2, <2>3 DEF TakeInv
  <1>6. QED
    BY <1>4, <1>5

LEMMA SystemdInv ==
    ASSUME TakeInv, NEW c \in CollectorName,
           Exit(c) \/ Start(c) \/ Elapse(c) \/ Watch(c) \/ Recover(c)
    PROVE  TakeInv'
  <1> DEFINE col == <<"collector", c>>
             rec == <<"recover", c>>
             wat == <<"watch", c>>
             tim == <<"timer", c>>
             Stays(u) == Quiesced(QuiescePlace(u)) => unit'[u] = "inactive"
  <1>1. /\ col \in Unit /\ rec \in Unit /\ wat \in Unit /\ tim \in Unit
        /\ col # rec /\ wat # rec
    BY UnitFacts DEF Kind
  <1>2. DOMAIN unit = Unit /\ \A u \in Unit : unit[u] \in State
    BY TypeFacts DEF TakeInv
  <1>3. \A u \in Unit : Quiesced(QuiescePlace(u)) => unit[u] = "inactive"
    BY DEF TakeInv, StaysDown
  <1>4. /\ Quiesced(QuiescePlace(wat)) => Quiesced(QuiescePlace(tim))
        /\ Quiesced(QuiescePlace(rec)) => Quiesced(QuiescePlace(wat))
        /\ Quiesced(QuiescePlace(col)) => Quiesced(QuiescePlace(rec))
    <2>1. \A u \in Unit : QuiescePlace(u) \in Nat
      BY UnitFacts
    <2>2. QED
      BY <1>1, <2>1, StartersFirst, QuiescedDown DEF TakeInv
  <1> HIDE DEF col, rec, wat, tim
  <1>5. /\ marker' = marker /\ Owe({})
        /\ \/ repair' = repair
           \/ repair.pc \in Running /\ repair' = [repair EXCEPT !.pc = "restore", !.k = 1]
    BY DEF Exit, Start, Elapse, Watch, Recover, AfterStart, StopsRepair
  <1>6. unit' \in [Unit -> State] /\ \A u \in Unit : Stays(u)
    <2>1. CASE Exit(c)
      <3>1. PICK state \in {"inactive", "activating"} : unit' = [unit EXCEPT ![col] = state]
        BY <2>1 DEF Exit, col
      <3>2. unit[col] = "active"
        BY <2>1 DEF Exit, col
      <3>3. QED
        BY <1>1, <1>2, <1>3, <3>1, <3>2 DEF State
    <2>2. CASE Start(c)
      <3>1. PICK state \in {"inactive", unit[rec]} :
               unit' = [unit EXCEPT ![col] = "active", ![rec] = state]
        BY <2>2 DEF Start, col, rec
      <3>2. unit[col] \in {"activating", "deactivating"}
        BY <2>2 DEF Start, col
      <3>3. QED
        BY <1>1, <1>2, <1>3, <3>1, <3>2 DEF State
    <2>3. CASE Elapse(c)
      <3>1. unit[tim] = "active" /\ unit' = [unit EXCEPT ![wat] = "activating"]
        BY <2>3 DEF Elapse, tim, wat
      <3>2. QED
        BY <1>1, <1>2, <1>3, <1>4, <3>1 DEF State
    <2>4. CASE Watch(c)
      <3>1. PICK state \in {"activating", unit[rec]} :
               unit' = [unit EXCEPT ![wat] = "inactive", ![rec] = state]
        BY <2>4 DEF Watch, wat, rec
      <3>2. unit[wat] = "activating"
        BY <2>4 DEF Watch, wat
      <3>3. QED
        BY <1>1, <1>2, <1>3, <1>4, <3>1, <3>2 DEF State
    <2>5. CASE Recover(c)
      <3>1. \/ unit' = [unit EXCEPT ![col] = "deactivating"]
            \/ unit' = [unit EXCEPT ![col] = "active", ![rec] = "inactive"]
        BY <2>5 DEF Recover, col, rec
      <3>2. unit[rec] = "activating"
        BY <2>5 DEF Recover, rec
      <3>3. QED
        BY <1>1, <1>2, <1>3, <1>4, <3>1, <3>2 DEF State
    <2>6. QED
      BY <2>1, <2>2, <2>3, <2>4, <2>5
  <1>7. owed' \subseteq owed /\ \A u \in owed' : unit'[u] = "inactive"
    BY <1>5 DEF Owe
  <1>8. QED
    BY <1>5, <1>6, <1>7, SideInv

LEMMA RebootInv ==
    ASSUME RebootHost PROVE TakeInv'
  <1>1. TakeoverTypeOK'
    BY OrderLengths DEF RebootHost, TakeoverTypeOK, RepairOff, Nothing, State
  <1>2. QED
    BY <1>1 DEF RebootHost, TakeInv, StaysDown, Quiesced, OwedIsDown, SnapshotIsRead,
                OwedIsRestored, CapturedResume, RepairOff

-----------------------------------------------------------------------------
(* The steps of the repair.                                                *)

LEMMA BeginInv ==
    ASSUME TakeInv, BeginRepair PROVE TakeInv'
  <1>1. /\ repair'.pc = "capture" /\ repair'.k = 1 /\ repair'.read = Nothing
        /\ repair' = [pc |-> "capture", k |-> 1, read |-> Nothing]
    BY DEF BeginRepair, RepairOff
  <1>2. ConflictsWith \subseteq Unit
    BY UnitConstants, UnitFacts
  <1>3. owed' \subseteq Unit /\ \A u \in owed' : unit'[u] = "inactive"
    BY <1>2 DEF BeginRepair, Owe, TakeInv, TakeoverTypeOK
  <1>4. unit' \in [Unit -> State]
    BY DEF BeginRepair, TakeInv, TakeoverTypeOK, State
  <1>5. TakeoverTypeOK'
    <2>1. marker' \in [Unit -> State \cup {NoState}]
      BY DEF BeginRepair, TakeInv, TakeoverTypeOK
    <2>2. Nothing \in [Unit -> State \cup {NoState}] /\ "capture" \in Running
      BY DEF Nothing, Running
    <2>3. QED
      BY <1>1, <1>3, <1>4, <2>1, <2>2, OrderLengths DEF TakeoverTypeOK
  <1>6. \A u \in owed' : ~Up(Nothing[u])
    BY <1>3 DEF Nothing, NoState, Up
  <1>7. QED
    BY <1>1, <1>3, <1>5, <1>6 DEF TakeInv, StaysDown, Quiesced, OwedIsDown, SnapshotIsRead,
                                  OwedIsRestored, CapturedResume

LEMMA CaptureInv ==
    ASSUME TakeInv, Capture PROVE TakeInv'
  <1>1. PICK p \in {"read", "restore"} : repair' = [repair EXCEPT !.pc = p, !.k = 1]
    BY DEF Capture, GoTo
  <1>2. p \in Running \cup {"off", "restore"} /\ 1 \in 1 .. 9
    BY DEF Running
  <1>3. TakeoverTypeOK' /\ repair'.pc = p /\ repair'.k = 1 /\ repair'.read = repair.read
    <2>1. Nothing \in [Unit -> State \cup {NoState}]
      BY DEF Nothing
    <2>2. /\ unit' \in [Unit -> State] /\ marker' \in [Unit -> State \cup {NoState}]
          /\ owed' \subseteq Unit
      BY <2>1 DEF Capture, TakeInv, TakeoverTypeOK
    <2>3. QED
      BY <1>1, <1>2, <2>2, GoToType DEF TakeInv
  <1>4. repair.read = Nothing /\ \A u \in owed : ~Up(repair.read[u])
    BY DEF TakeInv, SnapshotIsRead, Capture
  <1>5. marker' = Nothing /\ unit' = unit /\ owed' = owed
    BY DEF Capture
  <1>6. OwedIsDown'
    BY <1>5 DEF TakeInv, OwedIsDown
  <1>7. QED
    BY <1>3, <1>4, <1>5, <1>6 DEF TakeInv, StaysDown, Quiesced, SnapshotIsRead,
                                  OwedIsRestored, CapturedResume

LEMMA ReadInv ==
    ASSUME TakeInv, Read PROVE TakeInv'
  <1>1. TakeoverTypeOK /\ repair.pc = "read" /\ repair.k \in 1 .. 8
    BY DEF TakeInv, SnapshotIsRead, Read
  <1>2. PICK u \in Unit : u = ReadOrder[repair.k]
    BY <1>1, Orders
  <1>3. PICK p \in {"read", "publish"}, n \in 1 .. 8 :
           repair' = [repair EXCEPT !.read[u] = unit[u], !.pc = p, !.k = n]
    <2>1. CASE repair.k = 8
      BY <1>1, <1>2, <2>1, OrderLengths DEF Read
    <2>2. CASE repair.k # 8
      <3>1. repair.k + 1 \in 1 .. 8
        BY <1>1, <2>2
      <3>2. repair' = [repair EXCEPT !.read[u] = unit[u], !.pc = "read", !.k = repair.k + 1]
        BY <1>1, <1>2, <2>2, OrderLengths DEF Read
      <3>3. QED
        BY <3>1, <3>2
    <2>3. QED
      BY <2>1, <2>2
  <1>4. PICK r \in [Unit -> State \cup {NoState}] : r = [repair.read EXCEPT ![u] = unit[u]]
    BY <1>1 DEF TakeoverTypeOK
  <1>5. repair'.pc = p /\ repair'.k = n /\ repair'.read = r /\ repair' = [pc |-> p, k |-> n, read |-> r]
    <2>1. repair = [pc |-> repair.pc, k |-> repair.k, read |-> repair.read]
      BY <1>1 DEF TakeoverTypeOK
    <2>2. /\ DOMAIN repair' = {"pc", "k", "read"}
          /\ repair'.pc = p /\ repair'.k = n /\ repair'.read = r
      BY <1>3, <1>4, <2>1
    <2>3. repair' = [field \in {"pc", "k", "read"} |-> repair'[field]]
      BY <1>3, <2>1
    <2>4. QED
      BY <2>2, <2>3
  <1>6. unit' = unit /\ marker' = marker /\ owed' = owed
    BY DEF Read
  <1>7. TakeoverTypeOK'
    BY <1>1, <1>5, <1>6, OrderLengths DEF TakeoverTypeOK, Running
  <1>8. \A w \in owed : ~Up(r[w])
    <2>1. \A w \in owed : w \in Unit /\ unit[w] = "inactive" /\ ~Up(repair.read[w])
      BY <1>1 DEF TakeInv, OwedIsDown, SnapshotIsRead, TakeoverTypeOK
    <2>2. DOMAIN repair.read = Unit
      BY <1>1 DEF TakeoverTypeOK
    <2>3. \A w \in Unit : r[w] = IF w = u THEN unit[u] ELSE repair.read[w]
      BY <1>4, <2>2
    <2>4. QED
      BY <2>1, <2>3 DEF Up
  <1>9. marker' = Nothing /\ OwedIsDown'
    BY <1>1, <1>6 DEF TakeInv, SnapshotIsRead, OwedIsDown
  <1>10. QED
    BY <1>5, <1>6, <1>7, <1>8, <1>9
       DEF TakeInv, StaysDown, Quiesced, SnapshotIsRead, OwedIsRestored, CapturedResume

LEMMA PublishInv ==
    ASSUME TakeInv, Publish PROVE TakeInv'
  <1>1. unit' = unit /\ owed' = owed /\ marker' = repair.read
    BY DEF Publish
  <1>2. TakeoverTypeOK' /\ repair'.pc = "quiesce" /\ repair'.k = 1 /\ repair'.read = repair.read
    <2>1. "quiesce" \in Running \cup {"off", "restore"} /\ 1 \in 1 .. 9
      BY DEF Running
    <2>2. repair' = [repair EXCEPT !.pc = "quiesce", !.k = 1]
      BY DEF Publish, GoTo
    <2>3. /\ unit' \in [Unit -> State] /\ marker' \in [Unit -> State \cup {NoState}]
          /\ owed' \subseteq Unit
      BY <1>1 DEF TakeInv, TakeoverTypeOK
    <2>4. QED
      BY <2>1, <2>2, <2>3, GoToType DEF TakeInv
  <1>3. StaysDown'
    <2>1. \A u \in Unit : ~(QuiescePlace(u) < 1)
      BY UnitFacts
    <2>2. QED
      BY <1>2, <2>1 DEF StaysDown, Quiesced
  <1>4. OwedIsDown' /\ SnapshotIsRead'
    BY <1>1, <1>2 DEF TakeInv, OwedIsDown, SnapshotIsRead
  <1>5. QED
    BY <1>2, <1>3, <1>4 DEF TakeInv, OwedIsRestored, CapturedResume

\* Stopping the unit at a place leaves every unit of an earlier place down.
LEMMA StoppedStaysDown ==
    ASSUME TakeoverTypeOK, NEW u \in Unit, Stopped(u, unit'), NEW w \in Unit,
           \/ w = u
           \/ unit[w] = "inactive" /\ QuiescePlace(w) < QuiescePlace(u)
    PROVE  unit'[w] = "inactive"
  <1>1. DOMAIN unit = Unit
    BY TypeFacts
  <1>2. PICK rec \in Unit : rec = <<"recover", u[2]>>
    BY UnitFacts DEF Kind
  <1>3. u[1] = "watch" => QuiescePlace(u) < QuiescePlace(rec) /\ rec # u
    <2>1. ASSUME u[1] = "watch" PROVE QuiescePlace(u) < QuiescePlace(rec) /\ rec # u
      <3>1. u = <<"watch", u[2]>> /\ u[2] \in CollectorName
        BY <2>1, UnitFacts
      <3>2. QuiescePlace(<<"watch", u[2]>>) < QuiescePlace(<<"recover", u[2]>>)
        BY <3>1, StartersFirst
      <3>3. QED
        BY <1>2, <3>1, <3>2
    <2>2. QED
      BY <2>1
  <1>4. CASE unit' = [unit EXCEPT ![u] = "inactive"]
    BY <1>1, <1>4
  <1>5. CASE u[1] = "watch" /\ unit' = [unit EXCEPT ![u] = "inactive", ![rec] = "activating"]
    <2>1. w # rec
      <3>1. QuiescePlace(w) \in 1 .. 8 /\ QuiescePlace(u) \in 1 .. 8 /\ QuiescePlace(rec) \in 1 .. 8
        BY UnitFacts
      <3>2. QED
        BY <1>3, <1>5, <3>1
    <2>2. QED
      BY <1>1, <1>5, <2>1
  <1>6. QED
    BY <1>2, <1>4, <1>5 DEF Stopped

LEMMA StoppedType ==
    ASSUME TakeoverTypeOK, NEW u \in Unit, Stopped(u, unit') PROVE unit' \in [Unit -> State]
  BY DEF Stopped, TakeoverTypeOK, State

LEMMA QuiesceInv ==
    ASSUME TakeInv, Quiesce PROVE TakeInv'
  <1>1. TakeoverTypeOK /\ repair.pc = "quiesce" /\ repair.k \in 1 .. 8 /\ marker = repair.read
    BY DEF TakeInv, StaysDown, SnapshotIsRead, Quiesce
  <1>2. PICK u \in Unit : u = QuiesceOrder[repair.k] /\ QuiescePlace(u) = repair.k
    BY <1>1, Orders
  <1>3. Stopped(u, unit')
    BY <1>2 DEF Quiesce
  <1>4. owed' \subseteq Unit /\ OwedIsDown'
    BY <1>1, <1>2 DEF Quiesce, Owe, TakeoverTypeOK, OwedIsDown
  <1>5. PICK p \in {"quiesce", "check"}, n \in 1 .. 9 :
           /\ repair' = [repair EXCEPT !.pc = p, !.k = n]
           /\ IF p = "quiesce" THEN n = repair.k + 1 /\ n \in 1 .. 8 ELSE repair.k = 8
    <2>1. CASE repair.k = 8
      BY <1>1, <2>1, OrderLengths DEF Quiesce, GoTo
    <2>2. CASE repair.k # 8
      <3>1. repair.k + 1 \in 1 .. 8
        BY <1>1, <2>2
      <3>2. repair = [pc |-> repair.pc, k |-> repair.k, read |-> repair.read]
        BY <1>1 DEF TakeoverTypeOK
      <3>3. repair' = [repair EXCEPT !.k = repair.k + 1]
        BY <1>1, <2>2, OrderLengths DEF Quiesce, GoTo
      <3>4. PICK y : y = [repair EXCEPT !.pc = "quiesce", !.k = repair.k + 1]
        OBVIOUS
      <3>5. y = [pc |-> "quiesce", k |-> repair.k + 1, read |-> repair.read]
        BY <1>1, <3>4, GoToFields
      <3>6. repair' = [pc |-> "quiesce", k |-> repair.k + 1, read |-> repair.read]
        <4>1. /\ DOMAIN repair' = {"pc", "k", "read"}
              /\ repair'.pc = "quiesce" /\ repair'.k = repair.k + 1 /\ repair'.read = repair.read
          BY <1>1, <3>2, <3>3
        <4>2. repair' = [field \in {"pc", "k", "read"} |-> repair'[field]]
          BY <3>2, <3>3
        <4>3. QED
          BY <4>1, <4>2
      <3>7. repair' = [repair EXCEPT !.pc = "quiesce", !.k = repair.k + 1]
        BY <3>4, <3>5, <3>6
      <3>8. repair.k + 1 \in 1 .. 9
        BY <3>1
      <3>9. PICK n \in 1 .. 9 : n = repair.k + 1
        BY <3>8
      <3>10. QED
        BY <3>1, <3>7, <3>9
    <2>3. QED
      BY <2>1, <2>2
  <1>6. TakeoverTypeOK' /\ repair'.pc = p /\ repair'.k = n /\ repair'.read = repair.read
    <2>1. p \in Running \cup {"off", "restore"}
      BY DEF Running
    <2>2. unit' \in [Unit -> State]
      BY <1>1, <1>3, StoppedType
    <2>3. marker' = marker /\ marker' \in [Unit -> State \cup {NoState}]
      BY <1>1 DEF Quiesce, TakeoverTypeOK
    <2>4. QED
      BY <1>1, <1>4, <1>5, <2>1, <2>2, <2>3, GoToType
  <1>7. StaysDown'
    <2>1. SUFFICES ASSUME NEW w \in Unit, Quiesced(QuiescePlace(w))' PROVE unit'[w] = "inactive"
      BY <1>5, <1>6 DEF StaysDown
    <2>2. QuiescePlace(w) \in 1 .. 8
      BY UnitFacts
    <2>3. QuiescePlace(w) <= repair.k
      BY <1>1, <1>5, <1>6, <2>1, <2>2 DEF Quiesced
    <2>4. CASE QuiescePlace(w) = repair.k
      <3>1. w = u
        BY <1>2, <2>4, Places
      <3>2. QED
        BY <1>1, <1>3, <3>1, StoppedStaysDown
    <2>5. CASE QuiescePlace(w) < repair.k
      <3>1. unit[w] = "inactive"
        BY <1>1, <2>5 DEF TakeInv, StaysDown, Quiesced
      <3>2. QED
        BY <1>1, <1>2, <1>3, <2>5, <3>1, StoppedStaysDown
    <2>6. QED
      BY <1>1, <2>2, <2>3, <2>4, <2>5
  <1>8. SnapshotIsRead'
    BY <1>1, <1>6 DEF SnapshotIsRead, Quiesce
  <1>9. QED
    BY <1>4, <1>6, <1>7, <1>8 DEF TakeInv, OwedIsRestored, CapturedResume

LEMMA EndInv ==
    ASSUME TakeInv, unit' = unit, marker' = marker, owed' = owed, repair.pc \in Running,
           repair' = [repair EXCEPT !.pc = "restore", !.k = 1]
    PROVE  TakeInv'
  <1>1. unit' \in [Unit -> State]
    BY DEF TakeInv, TakeoverTypeOK
  <1>2. \A u \in owed' : unit'[u] = "inactive"
    BY DEF TakeInv, OwedIsDown
  <1>3. \A u \in Unit : Quiesced(QuiescePlace(u)) => unit'[u] = "inactive"
    BY DEF TakeInv, StaysDown
  <1>4. QED
    BY <1>1, <1>2, <1>3, SideInv

LEMMA CheckInv ==
    ASSUME TakeInv, CheckQuiet PROVE TakeInv'
  <1>1. unit' = unit /\ marker' = marker /\ owed' = owed /\ repair.pc = "check"
    BY DEF CheckQuiet
  <1>2. PICK p \in {"restore", "main"} : repair' = [repair EXCEPT !.pc = p, !.k = 1]
    BY DEF CheckQuiet, GoTo
  <1>3. CASE p = "restore"
    BY <1>1, <1>2, <1>3, EndInv DEF Running
  <1>4. CASE p = "main"
    <2>1. TakeoverTypeOK' /\ repair'.pc = "main" /\ repair'.k = 1 /\ repair'.read = repair.read
      <3>1. "main" \in Running \cup {"off", "restore"} /\ 1 \in 1 .. 9
        BY DEF Running
      <3>2. /\ unit' \in [Unit -> State] /\ marker' \in [Unit -> State \cup {NoState}]
            /\ owed' \subseteq Unit
        BY <1>1 DEF TakeInv, TakeoverTypeOK
      <3>3. QED
        BY <1>2, <1>4, <3>1, <3>2, GoToType DEF TakeInv
    <2>2. StaysDown'
      BY <1>1, <2>1 DEF TakeInv, StaysDown, Quiesced
    <2>3. OwedIsDown' /\ SnapshotIsRead'
      BY <1>1, <2>1 DEF TakeInv, OwedIsDown, SnapshotIsRead
    <2>4. QED
      BY <2>1, <2>2, <2>3 DEF TakeInv, OwedIsRestored, CapturedResume
  <1>5. QED
    BY <1>2, <1>3, <1>4

LEMMA RestoreInv ==
    ASSUME TakeInv, Restore PROVE TakeInv'
  <1>1. /\ TakeoverTypeOK /\ repair.pc = "restore" /\ repair.k \in 1 .. 8
        /\ marker # Nothing /\ marker' = marker
    <2>1. repair.k \in 1 .. 9 /\ repair.k <= 8
      BY TypeFacts, OrderLengths DEF TakeInv, Restore
    <2>2. QED
      BY <2>1 DEF TakeInv, Restore
  <1>2. PICK u \in Unit : u = RestoreOrder[repair.k] /\ RestorePlace(u) = repair.k
    BY <1>1, Orders
  <1>3. IF Up(marker[u]) THEN unit' = [unit EXCEPT ![u] = IF u[1] \in {"watch", "recover"}
                                                         THEN "activating" ELSE "active"]
        ELSE Stopped(u, unit')
    BY <1>2 DEF Restore, RestoredUnits
  <1>4. unit' \in [Unit -> State] /\ (Up(marker[u]) => unit'[u] # "inactive")
    <2>1. CASE Up(marker[u])
      BY <1>1, <1>3, <2>1 DEF TakeoverTypeOK, State
    <2>2. CASE ~Up(marker[u])
      BY <1>1, <1>3, <2>2, StoppedType
    <2>3. QED
      BY <2>1, <2>2
  <1>5. owed' \subseteq owed /\ \A w \in owed' : unit'[w] = "inactive"
    BY DEF Restore, Owe
  <1>6. /\ repair'.pc = "restore" /\ repair'.k = repair.k + 1 /\ repair'.read = repair.read
        /\ repair' = [pc |-> "restore", k |-> repair.k + 1, read |-> repair.read]
    <2>1. repair = [pc |-> repair.pc, k |-> repair.k, read |-> repair.read]
      BY <1>1 DEF TakeoverTypeOK
    <2>2. repair' = [repair EXCEPT !.k = repair.k + 1]
      BY DEF Restore
    <2>3. /\ DOMAIN repair' = {"pc", "k", "read"}
          /\ repair'.pc = "restore" /\ repair'.k = repair.k + 1 /\ repair'.read = repair.read
      BY <1>1, <2>1, <2>2
    <2>4. repair' = [field \in {"pc", "k", "read"} |-> repair'[field]]
      BY <2>1, <2>2
    <2>5. QED
      BY <2>3, <2>4
  <1>7. TakeoverTypeOK'
    <2>1. repair.read \in [Unit -> State \cup {NoState}] /\ repair.k + 1 \in 1 .. 9
      BY <1>1 DEF TakeoverTypeOK
    <2>2. marker' \in [Unit -> State \cup {NoState}] /\ owed' \subseteq Unit
      BY <1>1, <1>5 DEF TakeoverTypeOK
    <2>3. QED
      BY <1>4, <1>6, <2>1, <2>2, OrderLengths DEF TakeoverTypeOK
  <1>8. \A w \in owed' : Up(repair.read[w]) => marker = repair.read /\ repair.k + 1 <= RestorePlace(w)
    <2>1. SUFFICES ASSUME NEW w \in owed', Up(repair.read[w])
                   PROVE  marker = repair.read /\ repair.k + 1 <= RestorePlace(w)
      OBVIOUS
    <2>2. w \in Unit /\ marker = repair.read /\ repair.k <= RestorePlace(w)
      BY <1>1, <1>5, <2>1 DEF TakeInv, OwedIsRestored, TakeoverTypeOK
    <2>3. RestorePlace(w) # repair.k
      <3>1. SUFFICES ASSUME RestorePlace(w) = repair.k PROVE FALSE
        OBVIOUS
      <3>2. w = u
        BY <1>2, <2>2, <3>1, Places
      <3>3. QED
        BY <1>4, <1>5, <2>1, <2>2, <3>2
    <2>4. RestorePlace(w) \in 1 .. 8
      BY <2>2, UnitFacts
    <2>5. QED
      BY <1>1, <2>2, <2>3, <2>4
  <1>9. repair.read # Nothing /\ marker # Nothing => marker = repair.read
    BY <1>1 DEF TakeInv, OwedIsRestored
  <1>10. OwedIsRestored' /\ CapturedResume'
    BY <1>1, <1>6, <1>8, <1>9 DEF OwedIsRestored, CapturedResume
  <1>11. OwedIsDown'
    BY <1>5 DEF OwedIsDown
  <1>12. QED
    BY <1>6, <1>7, <1>10, <1>11 DEF TakeInv, StaysDown, Quiesced, SnapshotIsRead

\* The repair is off: with the snapshot gone what is owed was not up.
LEMMA OffInv ==
    ASSUME TakeInv, unit' = unit, owed' = owed, marker' \in {marker, Nothing},
           repair' = [repair EXCEPT !.pc = "off", !.k = 1],
           marker' = Nothing => \A u \in owed : ~Up(repair.read[u])
    PROVE  TakeInv'
  <1>1. TakeoverTypeOK' /\ repair'.pc = "off" /\ repair'.read = repair.read
    <2>1. "off" \in Running \cup {"off", "restore"} /\ 1 \in 1 .. 9
      OBVIOUS
    <2>2. Nothing \in [Unit -> State \cup {NoState}]
      BY DEF Nothing
    <2>3. /\ unit' \in [Unit -> State] /\ marker' \in [Unit -> State \cup {NoState}]
          /\ owed' \subseteq Unit
      BY <2>2 DEF TakeInv, TakeoverTypeOK
    <2>4. QED
      BY <2>1, <2>3, GoToType DEF TakeInv
  <1>2. OwedIsDown'
    BY DEF TakeInv, OwedIsDown
  <1>3. CapturedResume'
    BY <1>1 DEF CapturedResume
  <1>4. QED
    BY <1>1, <1>2, <1>3 DEF TakeInv, StaysDown, Quiesced, SnapshotIsRead, OwedIsRestored

LEMMA FinishInv ==
    ASSUME TakeInv, Finish PROVE TakeInv'
  <1>1. \A u \in owed : ~Up(repair.read[u])
    <2>1. SUFFICES ASSUME NEW u \in owed, Up(repair.read[u]) PROVE FALSE
      OBVIOUS
    <2>2. u \in Unit /\ marker = repair.read /\ repair.k <= RestorePlace(u)
      BY <2>1 DEF TakeInv, OwedIsRestored, TakeoverTypeOK, Finish
    <2>3. RestorePlace(u) \in 1 .. 8 /\ repair.k \in 1 .. 9
      BY <2>2, UnitFacts, TypeFacts DEF TakeInv
    <2>4. marker = Nothing
      BY <2>2, <2>3, OrderLengths DEF Finish
    <2>5. QED
      BY <2>1, <2>2, <2>4 DEF Nothing, NoState, Up
  <1>2. /\ unit' = unit /\ owed' = owed /\ marker' = Nothing
        /\ repair' = [repair EXCEPT !.pc = "off", !.k = 1]
    BY DEF Finish
  <1>3. QED
    BY <1>1, <1>2, OffInv

LEMMA RestoreFailsInv ==
    ASSUME TakeInv, RestoreFails PROVE TakeInv'
  BY OffInv DEF RestoreFails, GoTo

LEMMA TakeNextInv == TakeInv /\ [TakeoverNext]_takeoverVars => TakeInv'
  <1> SUFFICES ASSUME TakeInv, [TakeoverNext]_takeoverVars PROVE TakeInv'
    OBVIOUS
  <1>1. CASE Systemd
    BY <1>1, SystemdInv DEF Systemd
  <1>2. CASE Repair
    <2>1. CASE End
      BY <2>1, EndInv DEF End, GoTo
    <2>2. QED
      BY <1>2, <2>1, BeginInv, CaptureInv, ReadInv, PublishInv, QuiesceInv, CheckInv,
         RestoreInv, FinishInv, RestoreFailsInv DEF Repair
  <1>3. CASE RebootHost
    BY <1>3, RebootInv
  <1>4. CASE UNCHANGED takeoverVars
    BY <1>4 DEF takeoverVars, TakeInv, TakeoverTypeOK, StaysDown, Quiesced, OwedIsDown,
                SnapshotIsRead, OwedIsRestored, CapturedResume
  <1>5. QED
    BY <1>1, <1>2, <1>3, <1>4 DEF TakeoverNext

(* The repair of a shard takes over from the collectors as intended, whichever
   units are enabled and whatever timers, watchdogs, failures and reboots do
   meanwhile: TakeInv, of which the two promises below are consequences.       *)
THEOREM TakeoverInvariant == TakeoverSpec => []TakeInv
  <1>1. TakeInv /\ [TakeoverNext]_takeoverVars => TakeInv'
    BY TakeNextInv
  <1>2. QED
    BY <1>1, TakeInitInv, PTL DEF TakeoverSpec

(* No ordinary collector runs or is about to run while the repair writes: each
   unit that could start one is stopped before it (quiesce of
   repair_collector_state.sh).                                                *)
THEOREM RepairWritesAlone == TakeoverSpec => []OneWriter
  <1>1. TakeInv => OneWriter
    <2>1. SUFFICES ASSUME TakeInv, repair.pc = "main", NEW u \in CollectorUnit
                   PROVE  unit[u] = "inactive"
      BY DEF OneWriter
    <2>2. u \in Unit
      BY UnitFacts
    <2>3. QED
      BY <2>1, <2>2 DEF TakeInv, StaysDown, Quiesced
  <1>2. QED
    BY <1>1, TakeoverInvariant, PTL

(* Wherever the repair is cut, what was up when it read the units, and what it
   stopped since, is started again before it is over; and it replays no snapshot
   but its own (restore and the trap of repair_collector_state.sh).            *)
THEOREM CollectorsComeBack == TakeoverSpec => []CapturedResume
  <1>1. TakeInv => CapturedResume
    BY DEF TakeInv
  <1>2. QED
    BY <1>1, TakeoverInvariant, PTL

===============================================================================
