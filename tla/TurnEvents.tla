------------------------------ MODULE TurnEvents ------------------------------
(***************************************************************************)
(* How a turn's notifications become events of the job's log: the          *)
(* AttemptEventWriter of runtime/src/events.rs, from its activation for a  *)
(* turn to the event that ends the wait.                                   *)
(*                                                                         *)
(* Streamed text is coalesced into chunks of about Limit bytes, whole      *)
(* characters only; any other event, and any change of stream, flushes     *)
(* what is pending first; the completion of an item carries only the text  *)
(* that was not streamed, compacted.  A character is its place in the      *)
(* order in which the server sent things, its width in bytes, and whether  *)
(* it is ink, white space or the end of a line (of any kind).              *)
(***************************************************************************)
EXTENDS Naturals, Sequences, Functions

CONSTANTS
  Messages,     \* agent messages of the turn
  Reasonings,   \* reasoning items, with a summary of several parts
  Commands,     \* command executions, with output
  Parts,        \* parts of a reasoning summary
  Limit,        \* CHUNK_BYTES
  Glyphs,       \* the characters: their width in bytes and their form
  MaxDelta,     \* bound: characters of one delta
  MaxSent,      \* bound: characters and events the server sends
  StoreFails    \* an event may fail to persist

ASSUME LimitAssumption == Limit \in Nat \ {0}
ASSUME GlyphsAssumption == Glyphs \subseteq [width : 1..4, form : {"ink", "space", "newline"}]
ASSUME PartsAssumption == Parts \subseteq Nat /\ 0 \in Parts
ASSUME WriterBoundsAssumption == MaxDelta \in Nat /\ MaxSent \in Nat
ASSUME StoreAssumption == StoreFails \in BOOLEAN

VARIABLES
  text,      \* what the server has sent or completed of each stream
  done,      \* items it has completed
  clock,     \* characters and events sent so far
  pending,   \* TextCoalescer.pending
  streamed,  \* StreamedContent: streams of which a chunk was persisted
  log,       \* the events persisted for the turn
  status     \* open, ended, failed (an event was not persisted), reported

writerVars == <<text, done, clock, pending, streamed, log, status>>

Items == Messages \cup Reasonings \cup Commands
Keys == {k \in Items \X Parts : k[1] \in Reasonings \/ k[2] = 0}
KeysOf(item) == {k \in Keys : k[1] = item}
NoText == [key |-> << >>, text |-> << >>]

\* Texts of at most MaxDelta characters sent after the clock's value.
Texts ==
  UNION {{[i \in 1..n |-> [at |-> clock + i, width |-> g[i].width, form |-> g[i].form]]
             : g \in [1..n -> Glyphs]} : n \in 0..MaxDelta}

Bytes(s) ==
  LET sum[i \in 1..(Len(s) + 1)] == IF i = Len(s) + 1 THEN 0 ELSE s[i].width + sum[i + 1]
  IN sum[1]

WriterInit ==
  /\ text = [k \in Keys |-> << >>] /\ done = {} /\ clock = 0
  /\ pending = NoText /\ streamed = {} /\ log = << >> /\ status = "open"

(***************************************************************************)
(* TextCoalescer.                                                          *)
(***************************************************************************)
Chunk(key, s) == [kind |-> "chunk", key |-> key, text |-> s]

\* utf8_prefix: the characters that fit the limit, and one at least.
Utf8Prefix(s) ==
  LET fitting == {n \in 1..Len(s) : n = 1 \/ Bytes(SubSeq(s, 1, n)) <= Limit}
  IN CHOOSE n \in fitting : \A m \in fitting : m <= n

\* The loop of push: full chunks are cut off while the limit is reached.
Cut(s) ==
  LET from[i \in 1..(Len(s) + 1)] ==
        LET rest == SubSeq(s, i, Len(s)) IN
        IF Bytes(rest) < Limit THEN [ready |-> << >>, rest |-> rest]
        ELSE LET n == Utf8Prefix(rest)
                 next == from[i + n]
             IN [ready |-> <<SubSeq(rest, 1, n)>> \o next.ready, rest |-> next.rest]
  IN from[1]

\* flush: the chunk that was pending, unless it is empty.
Flushed == IF pending.text = << >> THEN << >> ELSE <<Chunk(pending.key, pending.text)>>

\* push: what is ready to persist, and what stays pending.
Push(key, delta) ==
  LET kept == IF pending.key = key THEN pending.text ELSE << >>
      cut == Cut(kept \o delta)
  IN [ready |-> (IF pending.key = key THEN << >> ELSE Flushed)
                  \o [i \in DOMAIN cut.ready |-> Chunk(key, cut.ready[i])],
      pending |-> [key |-> key, text |-> cut.rest]]

(***************************************************************************)
(* Persisting: the events go out one by one, and the first that fails ends *)
(* the wait.  A stream is recorded once a chunk of it is in the log.       *)
(***************************************************************************)
Recorded(event) ==
  IF event.kind = "chunk" /\ event.key[1] \notin Commands THEN {event.key} ELSE {}

RecordedIn(events) == UNION {Recorded(events[i]) : i \in DOMAIN events}

Persist(events, forgotten, complete, refused) ==
  \E n \in 0..Len(events) :
    /\ n < Len(events) => StoreFails
    /\ log' = log \o SubSeq(events, 1, n)
    /\ status' = IF n < Len(events) THEN refused ELSE complete
    /\ streamed' = (streamed \cup RecordedIn(SubSeq(events, 1, n))) \ forgotten

Event(kind, at) == [kind |-> kind, at |-> at]

(***************************************************************************)
(* The notifications.                                                      *)
(***************************************************************************)
Delta(key, delta) ==
  /\ status = "open" /\ key[1] \notin done /\ clock + Len(delta) <= MaxSent
  /\ text' = [text EXCEPT ![key] = @ \o delta] /\ clock' = clock + Len(delta)
  /\ LET push == Push(key, delta) IN
       /\ pending' = push.pending
       /\ Persist(push.ready, {}, "open", "failed")
  /\ UNCHANGED done

\* The streams of which the log has text once the pending chunk is flushed.
Known == streamed \cup RecordedIn(Flushed)

\* What compact leaves of a text: ink, white space with ink after it in its line,
\* and between two lines with ink one end of line, or two if lines without ink
\* are in between.
Kept(s, i) ==
  CASE s[i].form = "ink" -> TRUE
    [] s[i].form = "space" ->
         \E j \in i..Len(s) : s[j].form = "ink" /\ \A m \in i..j : s[m].form # "newline"
    [] s[i].form = "newline" ->
         /\ \E j \in i..Len(s) : s[j].form = "ink"
         /\ \E j \in 1..i : /\ s[j].form = "ink"
                            /\ \A m, n \in j..(i - 1) : s[m].form = "newline" /\ s[n].form = "newline" => m = n

\* The characters keep their places, so the text has gaps.
Compact(s) == Restrict(s, {i \in DOMAIN s : Kept(s, i)})

\* Mutant: a completed item repeats its whole text.
UnstreamedAlways(item, final) ==
  {k \in KeysOf(item) : item \notin Commands /\ DOMAIN Compact(final[k]) # {}}

\* Mutant: one streamed part stands for the whole item.
UnstreamedItem(item, final) ==
  {k \in KeysOf(item) : item \notin Commands /\ DOMAIN Compact(final[k]) # {} /\ KeysOf(item) \cap Known = {}}

\* completed_item_event: the parts of a message or a reasoning whose text is
\* carried by its completion, because none of it was streamed.
Unstreamed(item, final) ==
  {k \in KeysOf(item) : item \notin Commands /\ DOMAIN Compact(final[k]) # {} /\ k \notin Known}

\* A message or a reasoning without ink that was not streamed leaves no event.
Completion(item, final) ==
  LET carried == Unstreamed(item, final) IN
  IF item \in Commands \/ KeysOf(item) \cap Known # {} \/ carried # {}
    THEN <<[kind |-> "completed", item |-> item, text |-> [k \in carried |-> Compact(final[k])]]>>
    ELSE << >>

\* The text of an item that comes with its completion: at most one part of it
\* was not streamed and is not empty.
SilentParts(item) == {k \in KeysOf(item) : item \notin Commands /\ text[k] = << >>}

ItemCompleted(item, part, s) ==
  /\ status = "open" /\ item \notin done
  /\ part \in SilentParts(item) \/ s = << >>
  /\ clock' = clock + Len(s) /\ clock' <= MaxSent
  /\ text' = [text EXCEPT ![part] = @ \o s]
  /\ Persist(Flushed \o Completion(item, text'), KeysOf(item), "open", "failed")
  /\ pending' = NoText /\ done' = done \cup {item}

\* emit: every other event flushes the pending text first.
Emitted(kind) == Flushed \o <<Event(kind, clock')>>

Notify ==
  /\ status = "open" /\ clock < MaxSent /\ clock' = clock + 1
  /\ Persist(Emitted("event"), {}, "open", "failed")
  /\ pending' = NoText
  /\ UNCHANGED <<text, done>>

\* The event that ends the wait: completed, failed, cancelled, lost, expired.
End ==
  /\ status = "open" /\ clock' = clock + 1
  /\ Persist(Emitted("end"), {}, "ended", "failed")
  /\ pending' = NoText
  /\ UNCHANGED <<text, done>>

\* run_turn reports a wait that has returned an error through the same writer.
ReportError ==
  /\ status \in {"ended", "failed"} /\ clock' = clock + 1
  /\ Persist(Emitted("stage.error"), {}, "reported", "reported")
  /\ pending' = NoText
  /\ UNCHANGED <<text, done>>

WriterNext ==
  \/ \E key \in Keys, delta \in Texts : Delta(key, delta)
  \/ \E item \in Items : \E part \in KeysOf(item), s \in Texts : ItemCompleted(item, part, s)
  \/ Notify \/ End \/ ReportError

WriterSpec == WriterInit /\ [][WriterNext]_writerVars

(***************************************************************************)
(* Properties.                                                             *)
(***************************************************************************)
Chars == [at : 1..MaxSent, width : 1..4, form : {"ink", "space", "newline"}]

\* Characters in the order of their sending.
InOrder(s) == \A i, j \in DOMAIN s : i < j => s[i].at < s[j].at

WriterTypeOK ==
  /\ \A k \in Keys : text[k] \in Seq(Chars) /\ InOrder(text[k])
  /\ done \subseteq Items /\ clock \in 0..(MaxSent + 2)
  /\ pending = NoText \/ (pending.key \in Keys /\ Bytes(pending.text) < Limit)
  /\ streamed \subseteq {k \in Keys : k[1] \notin Commands}
  /\ \A i \in DOMAIN log : log[i].kind = "chunk" => log[i].key \in Keys
  /\ status \in {"open", "ended", "failed", "reported"}

\* The text an event has of a stream.
TextOf(event, key) ==
  CASE event.kind = "chunk" /\ event.key = key -> event.text
    [] event.kind = "completed" /\ key \in DOMAIN event.text -> event.text[key]
    [] OTHER -> << >>

\* What an event tells of, by when it was sent.
Shown(event) ==
  IF event.kind \in {"chunk", "completed"}
    THEN {c.at : c \in UNION {Range(TextOf(event, k)) : k \in Keys}}
    ELSE {event.at}

InArrivalOrder(events) ==
  /\ \A i, j \in DOMAIN events : i < j => \A p \in Shown(events[i]), q \in Shown(events[j]) : p < q
  /\ \A i \in DOMAIN events, k \in Keys : InOrder(TextOf(events[i], k))

\* The log tells what happened in the order in which it happened, and nothing
\* twice: no text is repeated by the completion of its item, none overtakes
\* or is overtaken by an event, whatever streams are interleaved.
LogInArrivalOrder == InArrivalOrder(log)

\* All the text that events have of a stream.
TextIn(events, key) == UNION {Range(TextOf(events[i], key)) : i \in DOMAIN events}

\* No chunk of a stream is among the events.
NeverStreamed(events, key) ==
  \A i \in DOMAIN events : events[i].kind = "chunk" => events[i].key # key

\* All of a text is in the log and nothing else, or what compact leaves of it if
\* it came with the completion of its item.
Told(k) ==
  \/ TextIn(log, k) = Range(text[k])
  \/ TextIn(log, k) = Range(Compact(text[k])) /\ NeverStreamed(log, k)

\* Nothing of a turn's text is lost or put under another stream: a completed
\* item's text is told, and so is every text once the turn has ended, unless
\* the store refused an event.  The order of the characters in the log is
\* that of the text, by LogInArrivalOrder.
TextIsKept ==
  \A k \in Keys : (status = "open" /\ k[1] \in done) \/ status = "ended" => Told(k)

\* A chunk is never empty and never larger than the limit, unless it is one
\* character that is larger by itself.
Fits(s) == s # << >> /\ (Bytes(s) <= Limit \/ Len(s) = 1)
ChunksBounded == \A i \in DOMAIN log : log[i].kind = "chunk" => Fits(log[i].text)

\* Together: cutting streams into chunks loses nothing and exceeds nothing.
TextInv == WriterTypeOK /\ TextIsKept /\ ChunksBounded
=============================================================================
