----------------------------- MODULE Synthesis ------------------------------
(***************************************************************************)
(* The answer of AnswerSynthesisService (agent/brain/synthesis.py): the    *)
(* results of the steps are cut to the prompt's room, the model drafts an  *)
(* answer, as a stream or at once, and fix_terminology (agent/brain/       *)
(* terminology.py) has it rewritten and corrected by up to four more calls *)
(* of the model, each of which may fail or answer with anything.           *)
(* A text is the set of what can be wrong with it:                         *)
(*   english   words the terminology library does not allow                *)
(*   echo      pieces of the prompt that asked for it                      *)
(*   stale     a wording that a hard replacement removes                   *)
(*   violates  a term explained wrongly, or not at all, when replaced      *)
(*   meta      a mark of the polishing, or lines about the words to keep   *)
(***************************************************************************)
EXTENDS ModelClient, ContextBudget

CONSTANTS Results \* sequences of lengths: what the steps of a plan may have returned

ASSUME ResultsAssumption == Results \subseteq Seq(Nat)

Flaws == {"english", "echo", "stale", "violates", "meta"}
Forms == {"sync", "async"} \* synthesize or synthesize_async

VARIABLES step,     \* where the answer stands
          form,     \* which of the two services runs
          lens,     \* lengths of the steps' results
          shares,   \* lengths with which they enter the prompt
          draft,    \* original_answer
          text,     \* final_answer
          helped,   \* a call for the terminology has answered
          polished  \* rounds of the loop after the correction

answer == <<step, form, lens, shares, draft, text, helped, polished>>
vars == <<client, answer>>

Steps == {"idle", "gathered", "draft", "rewrite", "check", "fix", "polish", "end"}

Init ==
    /\ ClientInit /\ kind = "ask"
    /\ step = "idle" /\ form = "sync" /\ lens = <<>> /\ shares = <<>>
    /\ draft = {} /\ text = {} /\ helped = FALSE /\ polished = 0

Fresh == draft' = {} /\ text' = {} /\ helped' = FALSE /\ polished' = 0
Idle == step = "idle" /\ Fresh

\* The answer is returned; nothing of the calls it took is kept.
Return ==
    /\ step = "end" /\ step' = "idle" /\ Fresh
    /\ kind' = "ask" /\ at' = "idle" /\ attempt' = 0 /\ fallback' = FALSE
    /\ out' = <<>> /\ lines' = 0 /\ canceled' = FALSE /\ whole' = FALSE /\ last' = "none"
    /\ form' = "sync" /\ UNCHANGED <<lens, shares>>

\* A canceled request gets its text without the model.
AnswerCanceled(f) ==
    /\ Idle /\ step' = "end" /\ form' = f
    /\ UNCHANGED <<client, lens, shares>>

Gather(f, given, short) ==
    /\ Idle /\ step' = "gathered" /\ form' = f
    /\ lens' = given /\ shares' = Shares(given, short)
    /\ UNCHANGED client

Plain == IF form = "async" THEN "ask_async" ELSE "ask"

\* Every later call leaves the cancel event alone.
Consult == Call(Plain, FALSE)

\* ask_stream_fn with the event of the running request, or ask_fn.
Draft(streamed, c) ==
    /\ step = "gathered"
    /\ step' = "draft" /\ lens' = <<>> /\ shares' = <<>>
    /\ IF streamed THEN Call(IF form = "async" THEN "stream_async" ELSE "stream", c)
                   ELSE Call(Plain, FALSE)
    /\ UNCHANGED <<form, draft, text, helped, polished>>

Kept == UNCHANGED <<form, lens, shares, draft>>

\* An exception of the first call leaves the service.
DraftFails ==
    /\ step = "draft" /\ at = "failed"
    /\ step' = "end" /\ Kept /\ UNCHANGED <<client, text, helped, polished>>

\* What may be left of a text when the part before a mark, or the lines about words to keep,
\* are cut away: less of everything, but an explanation may go with them.
Cut(t) == IF "meta" \in t THEN {p \in SUBSET Flaws : p \ {"violates"} \subseteq t} ELSE {t}

\* _cleanup_meta_text: a text is cut; one that has pieces of the prompt also behind the mark
\* is replaced by the draft, of which the lines are cut then.
Cleanup(t, original) ==
    {p \in Cut(t) : "echo" \notin p} \cup (IF "echo" \in t THEN Cut(original) ELSE {})
Replace(t) == t \ {"stale"}

\* The draft is there.  Only words of three letters or more have it rewritten.
BeginTerms(t) ==
    /\ step = "draft" /\ at = "done"
    /\ draft' = t
    /\ \/ "english" \in t /\ step' = "rewrite" /\ text' = t /\ Consult
       \/ step' = "check" /\ UNCHANGED client /\ \E p \in Cleanup(t, t) : text' = Replace(p)
    /\ UNCHANGED <<form, lens, shares, helped, polished>>

\* A call that failed leaves the text as it was.
Rewritten(t) ==
    /\ step = "rewrite" /\ Over
    /\ step' = "check"
    /\ \/ at = "done" /\ helped' = TRUE /\ \E p \in Cleanup(t, draft) : text' = Replace(p)
       \/ at = "failed" /\ helped' = helped /\ \E p \in Cleanup(text, draft) : text' = Replace(p)
    /\ Kept /\ UNCHANGED <<client, polished>>

\* The result, stripped of the prompt's pieces a last time.
Finish_Wrong(t) == step' = "end" /\ text' = t
Finish(t) == step' = "end" /\ text' \in Cleanup(t, draft)

Check ==
    /\ step = "check"
    /\ \/ "violates" \in text /\ step' = "fix" /\ Consult /\ text' = text
       \/ "violates" \notin text /\ Finish(text) /\ UNCHANGED client
    /\ Kept /\ UNCHANGED <<helped, polished>>

\* The correction failed: the text is returned as it is.
FixFails ==
    /\ step = "fix" /\ at = "failed"
    /\ step' = "end" /\ Kept /\ UNCHANGED <<client, text, helped, polished>>

\* The next round of the loop for text t, or its end.
PolishOn(t, round) ==
    IF round < 2 /\ "english" \in t
    THEN step' = "polish" /\ text' = t /\ polished' = round /\ Consult
    ELSE Finish(Replace(t)) /\ polished' = round /\ UNCHANGED client

Fixed(t) ==
    /\ step = "fix" /\ at = "done"
    /\ helped' = TRUE /\ PolishOn(t, 0) /\ Kept

Polished(t) ==
    /\ step = "polish" /\ Over /\ Kept
    /\ IF at = "done" THEN helped' = TRUE /\ PolishOn(t, polished + 1)
       ELSE helped' = helped /\ Finish(Replace(text)) /\ UNCHANGED <<client, polished>>

Ask == \/ \E f \in Forms : AnswerCanceled(f) \/ \E r \in Results, s \in SUBSET (1..3) : Gather(f, r, s)
Work == \/ \E b, c \in BOOLEAN : Draft(b, c)
        \/ DraftFails \/ Return \/ Check \/ FixFails
        \/ \E t \in SUBSET Flaws : BeginTerms(t) \/ Rewritten(t) \/ Fixed(t) \/ Polished(t)

Model == ClientStep /\ UNCHANGED answer
Cancel == CancelCall /\ UNCHANGED answer
Next == Ask \/ Work \/ Model \/ Cancel

\* Every read has a timeout, and a service that has its answer goes on.
Spec == Init /\ [][Next]_vars /\ WF_vars(Model) /\ WF_vars(Work)

\* A server that lets no stream go on for ever: the code, which has no limit for a whole
\* stream, cannot see to that.
ServerStops == StreamStops /\ UNCHANGED answer
ServedSpec == Spec /\ WF_vars(ServerStops)

-----------------------------------------------------------------------------
TypeOK ==
    /\ ClientTypeOK
    /\ step \in Steps /\ form \in Forms /\ helped \in BOOLEAN /\ polished \in 0..2
    /\ lens \in Seq(Nat) /\ shares \in Seq(Nat) /\ DOMAIN lens = DOMAIN shares
    /\ draft \subseteq Flaws /\ text \subseteq Flaws

\* The prompt keeps within its room before the whole is cut once more, and no result of a
\* step that said something vanishes from it, as long as there is a character for each.
\* Nor is room wasted while a result is cut, unless another is shorter than the minimum.
RoomIsShared ==
    Len(lens) <= MaxContext - (Len(lens) - 1) =>
        /\ Joined(shares) <= MaxContext
        /\ \A i \in DOMAIN lens : lens[i] > 0 => shares[i] > 0
        /\ (\E i \in DOMAIN lens : shares[i] < lens[i]) =>
              Joined(shares) = MaxContext \/ \E i \in DOMAIN lens : lens[i] < MinEach

\* Whatever the model answers to the calls for the terminology, the result has pieces of
\* a prompt only if the draft has, and a wording that should be replaced only if the last
\* cleanup has put the draft back, or what it leaves of it.  When none of those calls
\* answers and there is nothing to cut, it is the draft with its wordings replaced.
OnlyTheDraftSlips ==
    step = "end" => /\ "echo" \in text => "echo" \in draft
                    /\ "stale" \in text => text \in Cut(draft)
                    /\ ~helped /\ draft \cap {"echo", "meta"} = {} => text = Replace(draft)

\* Every answer that is begun ends, however often a call is refused, garbled, broken or
\* canceled, if no stream goes on for ever.
AnswerEnds == step = "gathered" ~> step = "end"

-----------------------------------------------------------------------------
\* What the settings say and the program does not keep: stream_timeout is the longest time a
\* streamed answer is waited for (config_metadata.py:57).  So a stream that has not said
\* anything yet says something, ends or fails.
StreamIsAwaitedInTime == at = "reading" /\ out = <<>> ~> at # "reading" \/ out # <<>>
=============================================================================
