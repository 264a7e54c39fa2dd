---------------------------- MODULE ModelClient -----------------------------
(***************************************************************************)
(* One call of the language model (utils/ollama_client.py), at a time, in  *)
(* its four forms: ask_ollama and ask_ollama_stream on requests, and their *)
(* _async twins on httpx, which fall back to ask_ollama when the last      *)
(* attempt is refused.  The server may answer, refuse for now (a status of *)
(* _RETRYABLE_STATUS_CODES) or for good, send something that is no JSON,   *)
(* break the connection before or within a stream, or simply end it.       *)
(***************************************************************************)
EXTENDS Naturals, Sequences

CONSTANTS MaxAttempts, \* LLM_RETRY_MAX_ATTEMPTS
          MaxLines     \* bound: the chunks of a stream that out lists, and the circle in
                       \* which its lines are counted

ASSUME ClientAssumption == MaxAttempts \in Nat \ {0} /\ MaxLines \in Nat \ {0}

Kinds == {"ask", "stream", "ask_async", "stream_async"}

VARIABLES kind,     \* the form of the call
          at,       \* idle, post, backoff, reading, done or failed
          attempt,  \* counted from 0, as in the code
          fallback, \* the call is in the synchronous fallback of an asynchronous one
          out,      \* the chunks handed to the caller: where each comes from
          lines,    \* lines read from the stream of this attempt, counted in a circle
          canceled, \* cancel_event
          whole,    \* the text ended with the server's "done"
          last      \* the server's last answer

client == <<kind, at, attempt, fallback, out, lines, canceled, whole, last>>

\* What the code at hand is: the fallback is an ask_ollama of its own.
mode == IF fallback THEN "ask" ELSE kind
Streaming == mode \in {"stream", "stream_async"}
Async == mode \in {"ask_async", "stream_async"}
LastAttempt == attempt = MaxAttempts - 1
Over == at \in {"done", "failed"}
\* emitted_any: this attempt has handed out a chunk.
Emitted == \E i \in DOMAIN out : out[i] = attempt

ClientInit ==
    /\ kind \in Kinds /\ at = "idle" /\ attempt = 0 /\ fallback = FALSE
    /\ out = <<>> /\ lines = 0 /\ canceled = FALSE /\ whole = FALSE /\ last = "none"

\* A call begins, with a cancel event that may be set already.
Call(k, c) ==
    /\ at \in {"idle", "done", "failed"}
    /\ kind' = k /\ at' = "post" /\ attempt' = 0 /\ fallback' = FALSE
    /\ out' = <<>> /\ lines' = 0 /\ canceled' = c /\ whole' = FALSE /\ last' = "none"

Same == UNCHANGED <<kind, canceled>>

\* time.sleep(_backoff_sleep_seconds(attempt)), for as long as attempts are left.
BackOff == at' = "backoff" /\ UNCHANGED <<attempt, fallback, out, whole>> /\ lines' = 0
GiveUp == at' = "failed" /\ UNCHANGED <<attempt, fallback, out, lines, whole>>

\* The end of one request, with the server's answer a.
Reply(a) == at = "post" /\ last' = a /\ Same

\* asyncio.to_thread(ask_ollama, ...): a whole call with attempts of its own.
FallBack == at' = "post" /\ attempt' = 0 /\ fallback' = TRUE /\ UNCHANGED <<out, lines, whole>>

\* The text of a call that is no stream; the fallback of a stream yields it as one chunk.
Answer ==
    /\ ~Streaming /\ Reply("ok")
    /\ at' = "done" /\ whole' = TRUE /\ out' = Append(out, IF fallback THEN MaxAttempts ELSE attempt)
    /\ UNCHANGED <<attempt, fallback, lines>>

\* 200, and no JSON: for requests that is a RequestException, for httpx it is not.
Garbled ==
    /\ ~Streaming /\ Reply("garbled")
    /\ IF Async \/ LastAttempt THEN GiveUp ELSE BackOff

Refused ==
    /\ Reply("transient")
    /\ \/ ~LastAttempt /\ BackOff
       \/ LastAttempt /\ ~Async /\ GiveUp
       \/ LastAttempt /\ Async /\ FallBack

\* Refused for good, or answered with a JSON value that is no object.
Denied == Reply("fatal") /\ GiveUp

\* RequestException or RequestError: it never leads to the fallback.
Unreachable ==
    /\ Reply("network")
    /\ IF LastAttempt THEN GiveUp ELSE BackOff

Connect ==
    /\ Streaming /\ Reply("ok")
    /\ at' = "reading" /\ UNCHANGED <<attempt, fallback, out, lines, whole>>

Retry_Wrong ==
    /\ at = "backoff"
    /\ at' = "post" /\ attempt' = attempt
    /\ UNCHANGED <<fallback, out, lines, whole, last>> /\ Same

Retry ==
    /\ at = "backoff"
    /\ at' = "post" /\ attempt' = attempt + 1
    /\ UNCHANGED <<fallback, out, lines, whole, last>> /\ Same

Reading == at = "reading" /\ UNCHANGED <<attempt, fallback, last>> /\ Same
StopReading == at' = "done" /\ UNCHANGED <<out, lines>>

\* Nothing limits the lines of a stream; each read has a timeout of its own.
ReadOn == at' = at /\ lines' = (lines + 1) % (MaxLines + 1)
HandOver == out' = IF Len(out) < MaxLines THEN Append(out, attempt) ELSE out

Chunk_Wrong ==
    /\ Reading /\ whole' = FALSE /\ HandOver
    /\ \/ canceled /\ at' = "done" /\ lines' = lines
       \/ ~canceled /\ ReadOn

\* A chunk; the event is looked at before it is handed out.
Chunk ==
    /\ Reading /\ whole' = FALSE
    /\ \/ canceled /\ StopReading
       \/ ~canceled /\ ReadOn /\ HandOver

\* An empty or broken line: the asynchronous reader looks at the event here too.
SkipLine ==
    /\ Reading /\ whole' = FALSE
    /\ \/ canceled /\ Async /\ StopReading
       \/ ~(canceled /\ Async) /\ ReadOn /\ out' = out

StreamDone == Reading /\ StopReading /\ whole' = ~(canceled /\ Async)
\* The connection is closed without "done": an end like any other.
StreamEnds == Reading /\ StopReading /\ whole' = FALSE

Broken_Wrong ==
    /\ at = "reading" /\ last' = "network" /\ Same
    /\ IF LastAttempt THEN GiveUp ELSE BackOff

Broken ==
    /\ at = "reading" /\ last' = "network" /\ Same
    /\ IF Emitted \/ LastAttempt THEN GiveUp ELSE BackOff

\* What the server, or the network, may do to a stream at any time.
StreamStops == StreamDone \/ StreamEnds \/ Broken

CancelCall ==
    /\ ~canceled /\ ~Over /\ at # "idle" /\ kind \in {"stream", "stream_async"}
    /\ canceled' = TRUE
    /\ UNCHANGED <<kind, at, attempt, fallback, out, lines, whole, last>>

ClientStep == Answer \/ Garbled \/ Refused \/ Denied \/ Unreachable \/ Connect \/ Retry
              \/ Chunk \/ SkipLine \/ StreamStops

-----------------------------------------------------------------------------
ClientTypeOK ==
    /\ kind \in Kinds /\ at \in {"idle", "post", "backoff", "reading", "done", "failed"}
    /\ attempt \in 0..(MaxAttempts - 1)
    /\ out \in Seq(0..MaxAttempts) /\ lines \in 0..MaxLines
    /\ fallback \in BOOLEAN /\ canceled \in BOOLEAN /\ whole \in BOOLEAN
    /\ last \in {"none", "ok", "garbled", "transient", "fatal", "network"}

\* A retry never repeats text the user has already seen: all that a call hands out comes
\* from one attempt, or from the fallback alone.
OneAnswer == \A i, j \in DOMAIN out : out[i] = out[j]

\* Once the caller has canceled, a stream hands out nothing more, but for the fallback's
\* text, which nobody asks for the event.
CanceledIsSilent ==
    [][canceled /\ Len(out') > Len(out) => fallback]_client
=============================================================================
