----------------------------- MODULE ParseStream -----------------------------
(***************************************************************************)
(* parseMailStream, drainAttachment and createCountingStream of             *)
(* nodes/imap-email-in.js: one message is piped from the download through   *)
(* a byte counter into MailParser, which hands out texts and attachments;   *)
(* an attachment is a stream of its own that must be drained and released   *)
(* before MailParser goes on.  The node keeps the streams in activeStreams  *)
(* so that closing it can destroy them.                                     *)
(*                                                                          *)
(* Sizes are counted in chunks.  stream.destroy(err) raises the stream's    *)
(* error event later: `errors` are the streams whose event is due.          *)
(***************************************************************************)
EXTENDS Naturals, Sequences, FiniteSets, SequencesExt

CONSTANTS
  Messages,   \* sequences of parts
  Limits      \* values of maxMessageBytes, 0: none

Parts == [kind : {"text", "attachment"}, size : Nat \ {0}]

ASSUME MessageAssumption == Messages \subseteq Seq(Parts)
ASSUME LimitAssumption == Limits \subseteq Nat

VARIABLES
  message, limit,  \* the download and the node's limit
  source,          \* the download stream
  bytes,           \* what the counter has counted
  parser,          \* MailParser: part it is in, chunks it has taken, and whether it waits for release()
  objects,         \* parts it has handed out and nobody has read
  content,         \* chunks in the attachment streams
  kept,            \* chunks of each part that were read
  reading,         \* flag of readNext
  outcome,         \* of the promise
  tracked,         \* activeStreams
  destroyed, errors,
  closing,         \* the node is closing
  fault            \* history: a stream failed by itself

vars == <<message, limit, source, bytes, parser, objects, content, kept, reading, outcome, tracked,
          destroyed, errors, closing, fault>>

Pipeline == {"source", "counter", "parser"}

Attachments == {k \in 1..Len(message) : message[k].kind = "attachment"}

AttachmentStream(k) == <<"attachment", k>>

Sizes(parts) == FoldLeft(LAMBDA n, p : n + p.size, 0, parts)
Total == Sizes(message)

Init ==
  /\ message \in Messages /\ limit \in Limits
  /\ source = "flowing" /\ bytes = 0
  /\ parser = [part |-> 1, taken |-> 0, waiting |-> FALSE]
  /\ objects = <<>>
  /\ content = [k \in 1..Len(message) |-> 0]
  /\ kept = [k \in 1..Len(message) |-> 0]
  /\ reading = FALSE /\ outcome = "pending"
  /\ tracked = {<<s>> : s \in Pipeline}
  /\ destroyed = {} /\ errors = {}
  /\ closing = FALSE /\ fault = FALSE

-----------------------------------------------------------------------------
(* The streams.                                                             *)

\* Mutant: the chunk that crosses the limit is still passed on.
Oversize_Late(n) == limit > 0 /\ n > limit + 1

\* transform of the counting stream
Oversize(n) == limit > 0 /\ n > limit

\* A chunk comes and is counted; the one that crosses the limit makes the counter fail.
Count ==
  /\ source = "flowing" /\ bytes < Total
  /\ {<<"source">>, <<"counter">>} \intersect destroyed = {}
  /\ bytes' = bytes + 1
  /\ IF Oversize(bytes + 1)
     THEN destroyed' = destroyed \union {<<"counter">>} /\ errors' = errors \union {<<"counter">>}
     ELSE UNCHANGED <<destroyed, errors>>
  /\ UNCHANGED <<message, limit, source, parser, objects, content, kept, reading, outcome, tracked, closing, fault>>

SourceEnds ==
  /\ source = "flowing" /\ bytes = Total
  /\ {<<"source">>, <<"counter">>} \intersect destroyed = {}
  /\ source' = "ended"
  /\ UNCHANGED <<message, limit, bytes, parser, objects, content, kept, reading, outcome, tracked, destroyed,
                 errors, closing, fault>>

\* The connection is lost, or the message cannot be parsed.
Breaks(s) ==
  /\ s \in {<<"source">>, <<"parser">>} \ destroyed
  /\ s = <<"source">> => source = "flowing"
  /\ outcome = "pending"
  /\ source' = IF s = <<"source">> THEN "failed" ELSE source
  /\ destroyed' = destroyed \union {s} /\ errors' = errors \union {s}
  /\ fault' = TRUE
  /\ UNCHANGED <<message, limit, bytes, parser, objects, content, kept, reading, outcome, tracked, closing>>

\* The chunks the counter has passed on: not the one that made it fail.
Passed == IF Oversize(bytes) THEN bytes - 1 ELSE bytes

\* MailParser takes one of these chunks, though the counter may have failed since: the
\* error that destroys MailParser comes later.
Parse ==
  LET k == parser.part
      last == parser.taken + 1 = message[k].size
      attachment == k \in Attachments IN
  /\ <<"parser">> \notin destroyed
  /\ k <= Len(message) /\ ~parser.waiting
  /\ Sizes(SubSeq(message, 1, k - 1)) + parser.taken < Passed
  /\ parser' = IF last THEN [part |-> k + 1, taken |-> 0, waiting |-> attachment]
               ELSE [parser EXCEPT !.taken = @ + 1]
  /\ objects' = IF (attachment /\ parser.taken = 0) \/ (~attachment /\ last) THEN Append(objects, k) ELSE objects
  /\ content' = IF attachment THEN [content EXCEPT ![k] = @ + 1] ELSE content
  /\ UNCHANGED <<message, limit, source, bytes, kept, reading, outcome, tracked, destroyed, errors, closing, fault>>

\* An attachment has been handed to its stream in full.
Complete(k) == parser.part > k

-----------------------------------------------------------------------------
(* parseMailStream                                                          *)

Pipes == {<<s>> : s \in Pipeline}

\* Mutant: only a parse that fails untracks its streams.
Finish_Tracked(error, t) ==
  /\ outcome' = IF outcome # "pending" THEN outcome ELSE IF error THEN "rejected" ELSE "resolved"
  /\ destroyed' = IF outcome = "pending" /\ error THEN destroyed \union Pipes ELSE destroyed
  /\ tracked' = IF outcome = "pending" /\ error THEN t \ Pipes ELSE t

\* finish; t is activeStreams as the caller leaves it.  The error events of the streams it destroys
\* find the promise settled.
Finish(error, t) ==
  /\ outcome' = IF outcome # "pending" THEN outcome ELSE IF error THEN "rejected" ELSE "resolved"
  /\ destroyed' = IF outcome = "pending" /\ error THEN destroyed \union Pipes ELSE destroyed
  /\ tracked' = IF outcome = "pending" THEN t \ Pipes ELSE t

\* readNext: reads texts up to the next attachment, and begins to drain that one.
ReadNext(t) ==
  LET stops == {n \in 1..Len(objects) : objects[n] \in Attachments}
      n == IF stops = {} THEN Len(objects) ELSE CHOOSE m \in stops : \A l \in stops : m <= l
      texts == {objects[m] : m \in 1..n} \ Attachments IN
  /\ kept' = [k \in DOMAIN kept |-> IF k \in texts THEN message[k].size ELSE kept[k]]
  /\ objects' = SubSeq(objects, n + 1, Len(objects))
  /\ reading' = (stops # {})
  /\ tracked' = IF stops = {} THEN t ELSE t \union {AttachmentStream(objects[n])}

Readable ==
  /\ objects # <<>> /\ ~reading /\ <<"parser">> \notin destroyed
  /\ ReadNext(tracked)
  /\ UNCHANGED <<message, limit, source, bytes, parser, content, outcome, destroyed, errors, closing, fault>>

Draining(k) == k \in Attachments /\ AttachmentStream(k) \in tracked /\ AttachmentStream(k) \notin destroyed

\* content.read() until it is empty, kept or dropped as includeAttachments says
Drain(k) ==
  /\ Draining(k) /\ content[k] > 0
  /\ kept' = [kept EXCEPT ![k] = @ + content[k]]
  /\ content' = [content EXCEPT ![k] = 0]
  /\ UNCHANGED <<message, limit, source, bytes, parser, objects, reading, outcome, tracked, destroyed, errors,
                 closing, fault>>

\* Mutant: a drained attachment is not released.
AttachmentEnd_Unreleased(k) ==
  /\ Draining(k) /\ Complete(k) /\ content[k] = 0
  /\ ReadNext(tracked \ {AttachmentStream(k)})
  /\ UNCHANGED <<message, limit, source, bytes, parser, content, outcome, destroyed, errors, closing, fault>>

\* The attachment's end: it is untracked and released, and reading goes on.
AttachmentEnd(k) ==
  /\ Draining(k) /\ Complete(k) /\ content[k] = 0
  /\ parser' = [parser EXCEPT !.waiting = FALSE]
  /\ ReadNext(tracked \ {AttachmentStream(k)})
  /\ UNCHANGED <<message, limit, source, bytes, content, outcome, destroyed, errors, closing, fault>>

\* The parser's end event, when everything was read; updateImageLinks may fail.
ParserEnd(error) ==
  /\ source = "ended" /\ parser.part > Len(message) /\ ~parser.waiting
  /\ objects = <<>> /\ ~reading /\ <<"parser">> \notin destroyed
  /\ outcome = "pending"
  /\ Finish(error, tracked)
  /\ fault' = (fault \/ error)
  /\ UNCHANGED <<message, limit, source, bytes, parser, objects, content, kept, reading, errors, closing>>

\* The error event of a stream; an attachment's ends its draining first.
ErrorEvent(s) ==
  /\ s \in errors
  /\ errors' = errors \ {s}
  /\ Finish(TRUE, IF s \in Pipes THEN tracked ELSE tracked \ {s})
  /\ UNCHANGED <<message, limit, source, bytes, parser, objects, content, kept, reading, closing, fault>>

\* destroyActiveStreams when the node closes
Close ==
  /\ ~closing
  /\ closing' = TRUE
  /\ destroyed' = destroyed \union tracked
  /\ errors' = errors \union (tracked \ destroyed)
  /\ UNCHANGED <<message, limit, source, bytes, parser, objects, content, kept, reading, outcome, tracked, fault>>

Streams ==
  \/ Parse \/ Readable
  \/ \E k \in Attachments : Drain(k) \/ AttachmentEnd(k)
  \/ \E error \in BOOLEAN : ParserEnd(error)
  \/ \E s \in errors : ErrorEvent(s)

Next ==
  \/ Streams \/ Count \/ SourceEnds \/ Close
  \/ \E s \in Pipes : Breaks(s)

\* The event loop serves every stream that has something; the server and the user owe nothing.
Spec == Init /\ [][Next]_vars /\ WF_vars(Streams)

-----------------------------------------------------------------------------
TooLarge(n) == limit # 0 /\ n > limit

\* A promise that resolves stands for the whole message, within the limit and with every part read to
\* its end; one that rejects had a reason: a fault, the limit, or the node's close.
ResultRight ==
  /\ outcome = "resolved" => /\ bytes = Total /\ ~TooLarge(Total)
                             /\ \A k \in 1..Len(message) : kept[k] = message[k].size
  /\ outcome = "rejected" => fault \/ closing \/ TooLarge(bytes)

\* A parse that is over leaves no stream in activeStreams but that of an attachment it was cut off in,
\* which is kept only until the node closes.
StreamsReleased ==
  outcome # "pending" =>
    /\ tracked \subseteq {AttachmentStream(k) : k \in Attachments}
    /\ outcome = "resolved" => tracked = {}
    /\ closing /\ errors = {} => tracked = {}

\* Once the download has ended or failed, is too large, or the node closes, the parse comes to an end
\* wherever it stands: no attachment is waited for that is not drained and released.
ParseSettles ==
  (closing \/ source # "flowing" \/ TooLarge(bytes)) ~> outcome # "pending"
=============================================================================
