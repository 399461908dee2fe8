------------------------ MODULE EdgeTranslationBatcher ------------------------
(***************************************************************************)
(* EdgeTranslationBatcher of tools/enrich_oxford_scope.py against          *)
(* enrichmentTranslationBatch of the Worker.  A definition is split into   *)
(* chunks; the flusher lines up the chunks of a batch of callers, posts    *)
(* them in slices, and gives each caller its chunks joined again.  Nothing *)
(* but the position in the reply says which chunk a translation is of.     *)
(*                                                                         *)
(* As in EdgeDictionaryBatcher an action runs from one await to the next.  *)
(* There are no retries here.  A chunk is <<its text, its number>>, and    *)
(* the translation of a chunk is modelled by the chunk.                    *)
(***************************************************************************)
EXTENDS Naturals, Sequences, SequencesExt

CONSTANTS Text,           \* what translate is called for, a caller each
          ChunksOf,       \* how many chunks a text has
          Wide,           \* chunks of at most 480 code points that are more than
                          \* 480 UTF-16 units, which the Worker measures
          TBatchSize,     \* batch_size
          RequestLimit,   \* 32 texts of a POST
          Missing         \* the empty translation

ASSUME TranslationConstants ==
    /\ ChunksOf \in [Text -> Nat]
    /\ TBatchSize \in Nat \ {0}
    /\ RequestLimit \in Nat \ {0}
    /\ Wide \subseteq Text \X (Nat \ {0})

VARIABLES waiting,      \* callers in `pending`
          translator,   \* the flusher task, with its locals
          translation   \* what each caller's future holds

tvars == <<waiting, translator, translation>>

\* translation_chunks: none for a text of blanks, all of them in order.
Chunks(c) == [i \in 1 .. ChunksOf[c] |-> <<c, i>>]
TextsOf(batch) == FlattenSeq([i \in DOMAIN batch |-> Chunks(batch[i])])

\* The flusher before it takes a batch, and with a batch to post; `got` is
\* what is known of the chunks that were posted.
Asleep == [pc |-> "none", batch |-> <<>>, got |-> <<>>]
Awake == [Asleep EXCEPT !.pc = "flush"]

NotCalled == [state |-> "idle"]
Outstanding == [state |-> "waiting"]

TInit ==
    /\ waiting = <<>>
    /\ translator = Asleep
    /\ translation = [c \in Text |-> NotCalled]

-----------------------------------------------------------------------------
(* The Worker.                                                             *)

Accepted(texts) ==
    LET kept[n \in 0 .. Len(texts)] ==
            IF n = 0 THEN <<>>
            ELSE IF texts[n] \in Wide THEN kept[n - 1] ELSE Append(kept[n - 1], texts[n])
    IN kept[Len(texts)]

\* One translation per accepted text, empty if both providers fail.
Translations(texts) ==
    LET kept == Accepted(texts)
    IN {[i \in DOMAIN kept |-> IF i \in found THEN kept[i] ELSE Missing] :
            found \in SUBSET DOMAIN kept}

\* What the POST of a slice ends with: status 200 and translations, another
\* status, or none (a transport error, a body that is not JSON).
Outcomes(texts) ==
    [status : {"ok"}, translations : Translations(texts)]
        \cup [status : {"refused", "none"}, translations : {<<>>}]

-----------------------------------------------------------------------------
(* The batcher.                                                            *)

RequestTranslation(c) ==
    /\ translation[c] = NotCalled
    /\ waiting' = Append(waiting, c)
    /\ translation' = [translation EXCEPT ![c] = Outstanding]
    /\ translator' = IF translator.pc = "none" THEN Awake ELSE translator

\* The results of chunks that are posted, by position in the slice.  A reply
\* that is too short leaves the rest without translation.
Slice(texts, start) ==
    SubSeq(texts, start + 1,
           IF Len(texts) < start + RequestLimit THEN Len(texts) ELSE start + RequestLimit)
Results(slice, outcome) ==
    [i \in DOMAIN slice |->
        [status |-> outcome.status,
         value |-> IF i \in DOMAIN outcome.translations
                   THEN outcome.translations[i] ELSE Missing]]

\* Faulty: the callers share one cursor that moves by one per caller.
OwnResultsMisaligned(batch, got, i) == SubSeq(got, i, i + ChunksOf[batch[i]] - 1)

\* chunk_owners and values_by_owner: the results of the batch's i-th caller.
OwnResults(batch, got, i) ==
    LET before == Len(TextsOf(SubSeq(batch, 1, i - 1)))
    IN SubSeq(got, before + 1, before + ChunksOf[batch[i]])

Answered(own) ==
    LET complete == own # <<>> /\ \A i \in DOMAIN own : own[i].value # Missing
        statuses == {own[i].status : i \in DOMAIN own}
    IN [state |-> "answered",
        value |-> IF complete THEN [i \in DOMAIN own |-> own[i].value] ELSE <<>>,
        status |-> IF complete THEN "ok"
                   ELSE IF "refused" \in statuses THEN "refused"
                   ELSE IF "ok" \in statuses THEN "ok" ELSE "none"]

\* The futures of the batch are set, and the flusher looks for another one.
Settle(batch, got) ==
    /\ translation' = [c \in Text |->
          IF \E i \in DOMAIN batch : batch[i] = c
          THEN Answered(OwnResults(batch, got, CHOOSE i \in DOMAIN batch : batch[i] = c))
          ELSE translation[c]]
    /\ translator' = Awake

\* A batch without any text is answered without a POST.
TakeTexts ==
    /\ translator.pc = "flush"
    /\ LET n == IF Len(waiting) < TBatchSize THEN Len(waiting) ELSE TBatchSize
           batch == SubSeq(waiting, 1, n)
       IN /\ waiting' = SubSeq(waiting, n + 1, Len(waiting))
          /\ IF n = 0
             THEN translator' = Asleep /\ UNCHANGED translation
             ELSE IF TextsOf(batch) = <<>>
             THEN Settle(batch, <<>>)
             ELSE /\ translator' = [pc |-> "post", batch |-> batch, got |-> <<>>]
                  /\ UNCHANGED translation

\* Faulty: an error that is not caught ends the flusher task.
PostAnswersDies(outcome) ==
    /\ translator.pc = "post"
    /\ LET texts == TextsOf(translator.batch)
           got == translator.got
                    \o Results(Slice(texts, Len(translator.got)), outcome)
       IN IF outcome.status = "none"
          THEN translator' = [translator EXCEPT !.pc = "dead"] /\ UNCHANGED translation
          ELSE IF Len(got) < Len(texts)
          THEN translator' = [translator EXCEPT !.got = got] /\ UNCHANGED translation
          ELSE Settle(translator.batch, got)
    /\ UNCHANGED waiting

\* A slice is answered; another one follows, or the batch is settled.
PostAnswers(outcome) ==
    /\ translator.pc = "post"
    /\ LET texts == TextsOf(translator.batch)
           got == translator.got
                    \o Results(Slice(texts, Len(translator.got)), outcome)
       IN IF Len(got) < Len(texts)
          THEN translator' = [translator EXCEPT !.got = got] /\ UNCHANGED translation
          ELSE Settle(translator.batch, got)
    /\ UNCHANGED waiting

-----------------------------------------------------------------------------
Posted == Slice(TextsOf(translator.batch), Len(translator.got))
FlushTexts == TakeTexts \/ (\E outcome \in Outcomes(Posted) : PostAnswers(outcome))
TNext == (\E c \in Text : RequestTranslation(c)) \/ FlushTexts

\* The event loop runs the flusher, and httpx ends every POST.
TSpec == TInit /\ [][TNext]_tvars /\ WF_tvars(FlushTexts)

-----------------------------------------------------------------------------
(* Properties.                                                             *)

(* A text that is answered with a translation gets its own, whole and in
   order: never that of a text batched with it, nor a prefix, whatever slices
   the chunks were posted in, failed or came back short. *)
AnswersOwnText ==
    \A c \in Text : translation[c].state = "answered" =>
        translation[c].value \in {<<>>, Chunks(c)}

(* Every text handed in is answered, also one without chunks, and whatever
   the Worker replies to any slice. *)
EveryTextReturns ==
    \A c \in Text : translation[c] = Outstanding ~> translation[c] # Outstanding
=============================================================================
