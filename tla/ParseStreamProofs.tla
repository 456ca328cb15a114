--------------------------- MODULE ParseStreamProofs ---------------------------
(***************************************************************************)
(* Theorems about ParseStream, for messages of every length and every limit: *)
(* what a promise that settles stands for, and that it leaves no stream in   *)
(* activeStreams.                                                            *)
(*                                                                          *)
(* The folds over a message's sizes (Sizes, Total) stay closed: the promise   *)
(* resolves only after the download has ended, and that it ends with all      *)
(* Total chunks counted is a guard.  What has to be carried along is where    *)
(* each part is on its way: in MailParser, among the objects nobody has read, *)
(* in an attachment stream that is drained, or kept.                          *)
(***************************************************************************)
EXTENDS ParseStream, SequenceTheorems, WellFoundedInduction, TLAPS

AttachmentStreams == {AttachmentStream(k) : k \in Attachments}

Objects == {objects[m] : m \in 1..Len(objects)}

\* The chunks of part k that MailParser has taken.
Taken(k) ==
  IF k < parser.part THEN message[k].size ELSE IF k = parser.part THEN parser.taken ELSE 0

TypeOK ==
  /\ message \in Seq(Parts) /\ limit \in Nat
  /\ bytes \in Nat
  /\ parser \in [part : Nat \ {0}, taken : Nat, waiting : BOOLEAN]
  /\ objects \in Seq(1..Len(message))
  /\ content \in [1..Len(message) -> Nat]
  /\ kept \in [1..Len(message) -> Nat]
  /\ reading \in BOOLEAN /\ closing \in BOOLEAN /\ fault \in BOOLEAN
  /\ outcome \in {"pending", "resolved", "rejected"}

\* The streams: one attachment is drained at a time, as long as readNext is; a settled promise
\* has untracked the pipe, and a rejected one destroyed it; a close has destroyed all that is
\* tracked, and the error event of a tracked attachment is due.
StreamInv ==
  /\ tracked \subseteq Pipes \union AttachmentStreams
  /\ \A a, b \in tracked \intersect AttachmentStreams : a = b
  /\ ~reading => tracked \intersect AttachmentStreams = {}
  /\ outcome = "pending" => Pipes \subseteq tracked
  /\ outcome # "pending" => tracked \intersect Pipes = {}
  /\ outcome = "rejected" => Pipes \subseteq destroyed
  /\ outcome = "resolved" => objects = <<>> /\ parser.part > Len(message) /\ ~reading
  /\ ~closing => destroyed \subseteq Pipes
  /\ closing => tracked \subseteq destroyed /\ tracked \intersect AttachmentStreams \subseteq errors

\* The counter: it is destroyed by the chunk that crosses the limit, so that a download never
\* ends after it; and whatever raises an error is a reason to reject.
CountInv ==
  /\ source = "ended" => bytes = Total
  /\ TooLarge(bytes) => <<"counter">> \in destroyed /\ source # "ended"
  /\ errors # {} \/ outcome = "rejected" => fault \/ closing \/ TooLarge(bytes)
  /\ outcome = "resolved" => source = "ended"

\* The parts: of each, what MailParser has taken is kept, waits in its stream, or is an object that
\* nobody has read.
PartInv ==
  /\ parser.part <= Len(message) => parser.taken < message[parser.part].size
  /\ \A k \in Attachments :
       /\ kept[k] + content[k] = Taken(k)
       /\ Taken(k) > 0 /\ outcome # "rejected" =>
            k \in Objects \/ AttachmentStream(k) \in tracked \/ (content[k] = 0 /\ k < parser.part)
  /\ \A k \in (1..Len(message)) \ Attachments :
       k < parser.part => k \in Objects \/ kept[k] = message[k].size

IInv == TypeOK /\ StreamInv /\ CountInv /\ PartInv

-----------------------------------------------------------------------------
(* Lemmas.                                                                  *)

LEMMA StreamNames ==
  /\ Pipes \intersect AttachmentStreams = {}
  /\ \A k, j : AttachmentStream(k) = AttachmentStream(j) => k = j
  /\ \A k : AttachmentStream(k) \in AttachmentStreams <=> k \in Attachments
  /\ \A k : AttachmentStream(k) \notin Pipes
  /\ Pipes = {<<"source">>, <<"counter">>, <<"parser">>}
<1>1. \A k, j : AttachmentStream(k) = AttachmentStream(j) => k = j
  BY DEF AttachmentStream
<1>2. Pipes = {<<"source">>, <<"counter">>, <<"parser">>}
  BY DEF Pipes, Pipeline
<1>3. \A k : \A s : <<s>> # AttachmentStream(k)
  BY DEF AttachmentStream
<1>4. \A k : AttachmentStream(k) \notin Pipes
  BY <1>3 DEF Pipes
<1>5. Pipes \intersect AttachmentStreams = {}
  BY <1>4 DEF AttachmentStreams
<1>6. \A k : AttachmentStream(k) \in AttachmentStreams <=> k \in Attachments
  BY <1>1 DEF AttachmentStreams
<1> QED
  BY <1>1, <1>2, <1>4, <1>5, <1>6

LEMMA Least ==
  ASSUME NEW S, S \subseteq Nat, S # {}
  PROVE  \E m \in S : \A l \in S : m <= l
<1> DEFINE R == OpToRel(<, Nat)
<1>1. IsWellFoundedOn(R, Nat)
  BY NatLessThanWellFounded
<1>2. \A a, b \in Nat : a < b => <<a, b>> \in R
  BY DEF OpToRel
<1> HIDE DEF R
<1>3. PICK m \in S : \A l \in S : ~(<<l, m>> \in R)
  BY <1>1, WFMin
<1>4. ASSUME NEW l \in S
      PROVE  m <= l
  <2>1. l \in Nat /\ m \in Nat
    OBVIOUS
  <2>2. ~(l < m)
    BY <1>2, <1>3, <2>1
  <2> QED
    BY <2>1, <2>2
<1> QED
  BY <1>4

LEMMA PartSizes ==
  ASSUME TypeOK
  PROVE  /\ Len(message) \in Nat
         /\ \A k \in 1..Len(message) : message[k].size \in Nat /\ message[k].size > 0
         /\ Attachments \subseteq 1..Len(message)
<1>1. Len(message) \in Nat
  BY DEF TypeOK
<1>2. ASSUME NEW k \in 1..Len(message)
      PROVE  message[k].size \in Nat /\ message[k].size > 0
  <2>1. message[k] \in Parts
    BY DEF TypeOK
  <2> QED
    BY <2>1 DEF Parts
<1> QED
  BY <1>1, <1>2 DEF Attachments

\* readNext stops at the first attachment among the objects; what it reads up to there is kept.
LEMMA ReadNextReads ==
  ASSUME TypeOK, NEW t, ReadNext(t), UNCHANGED message
  PROVE  /\ objects' \in Seq(1..Len(message))
         /\ kept' \in [1..Len(message) -> Nat]
         /\ \/ reading' = FALSE /\ tracked' = t
            \/ \E k \in Attachments : reading' = TRUE /\ tracked' = t \union {AttachmentStream(k)}
         /\ \A k \in Attachments :
              kept'[k] = kept[k] /\ (k \in Objects => k \in Objects' \/ AttachmentStream(k) \in tracked')
         /\ \A k \in (1..Len(message)) \ Attachments :
              k \in Objects \/ kept[k] = message[k].size => k \in Objects' \/ kept'[k] = message[k].size
<1> DEFINE stops == {n \in 1..Len(objects) : objects[n] \in Attachments}
           first == CHOOSE m \in stops : \A l \in stops : m <= l
           n == IF stops = {} THEN Len(objects) ELSE first
           texts == {objects[m] : m \in 1..n} \ Attachments
<1>0. objects \in Seq(1..Len(message)) /\ kept \in [1..Len(message) -> Nat]
  BY DEF TypeOK
<1>1. Len(objects) \in Nat /\ Len(message) \in Nat
  BY DEF TypeOK
<1>2. stops \subseteq 1..Len(objects)
  OBVIOUS
<1>3. ASSUME stops # {}
      PROVE  first \in stops /\ \A l \in stops : first <= l
  <2>1. \E m \in stops : \A l \in stops : m <= l
    <3> HIDE DEF stops
    <3>1. stops \subseteq Nat
      BY <1>1, <1>2
    <3> QED
      BY <1>3, <3>1, Least
  <2> HIDE DEF stops
  <2> QED
    BY <2>1
<1>4. /\ kept' = [k \in DOMAIN kept |-> IF k \in texts THEN message[k].size ELSE kept[k]]
      /\ objects' = SubSeq(objects, n + 1, Len(objects))
      /\ reading' = (stops # {})
      /\ tracked' = IF stops = {} THEN t ELSE t \union {AttachmentStream(objects[n])}
  BY DEF ReadNext
<1> HIDE DEF first
<1>5. n \in 0..Len(objects)
  <2>1. CASE stops = {}
    BY <1>1, <2>1
  <2>2. CASE stops # {}
    <3>1. n \in 1..Len(objects)
      <4> HIDE DEF stops
      <4> QED
        BY <1>2, <1>3, <2>2
    <3> QED
      BY <1>1, <3>1
  <2> QED
    BY <2>1, <2>2
<1>6. \A m \in 1..Len(objects) : objects[m] \in Attachments => stops # {} /\ n <= m /\ n \in stops
  <2> SUFFICES ASSUME NEW m \in 1..Len(objects), objects[m] \in Attachments
               PROVE  stops # {} /\ n <= m /\ n \in stops
    OBVIOUS
  <2>1. m \in stops
    OBVIOUS
  <2> HIDE DEF stops
  <2> QED
    BY <1>3, <2>1
<1>7. stops # {} => n \in stops
  <2> HIDE DEF stops
  <2> QED
    BY <1>3
<1>8. stops # {} => objects[n] \in Attachments
  BY <1>7
<1>9. \A k \in texts : k \in 1..Len(message) /\ k \notin Attachments
  <2> SUFFICES ASSUME NEW m \in 1..n
               PROVE  objects[m] \in 1..Len(message)
    OBVIOUS
  <2> HIDE DEF n
  <2>1. m \in 1..Len(objects)
    BY <1>1, <1>5
  <2> QED
    BY <1>0, <2>1
<1>10. kept' \in [1..Len(message) -> Nat] /\ \A k \in 1..Len(message) :
         kept'[k] = IF k \in texts THEN message[k].size ELSE kept[k]
  <2> HIDE DEF texts
  <2>1. DOMAIN kept = 1..Len(message)
    BY <1>0
  <2>2. \A k \in 1..Len(message) : message[k].size \in Nat /\ kept[k] \in Nat
    BY <1>0, PartSizes
  <2> QED
    BY <1>4, <2>1, <2>2
<1>11. objects' \in Seq(1..Len(message)) /\ Len(objects') = Len(objects) - n
       /\ \A i \in 1..(Len(objects) - n) : objects'[i] = objects[i + n]
  <2>0. n \in Nat /\ n + 1 \in Int
    BY <1>5
  <2> HIDE DEF n
  <2>1. n + 1 \in 1..(Len(objects) + 1)
    BY <1>1, <1>5
  <2>2. objects' = [i \in 1..(Len(objects) - n) |-> objects[i + n]]
    BY <1>0, <1>1, <1>4, <1>5, <2>0
  <2>3. \A i \in 1..(Len(objects) - n) : i + n \in 1..Len(objects)
    BY <1>1, <1>5, <2>0
  <2>4. \A i \in 1..(Len(objects) - n) : objects[i + n] \in 1..Len(message)
    BY <1>0, <2>3
  <2>5. Len(objects) - n \in Nat
    BY <1>1, <1>5
  <2> QED
    BY <2>2, <2>4, <2>5, SeqDef
<1>12. \A m \in 1..Len(objects) : m > n => objects[m] \in Objects'
  <2> SUFFICES ASSUME NEW m \in 1..Len(objects), m > n
               PROVE  objects[m] \in Objects'
    OBVIOUS
  <2> HIDE DEF n
  <2>1. m - n \in 1..(Len(objects) - n) /\ (m - n) + n = m
    BY <1>1, <1>5
  <2>2. objects'[m - n] = objects[m] /\ m - n \in 1..Len(objects')
    BY <1>11, <2>1
  <2> QED
    BY <2>2 DEF Objects
<1>13. ASSUME NEW k \in Attachments
       PROVE  kept'[k] = kept[k] /\ (k \in Objects => k \in Objects' \/ AttachmentStream(k) \in tracked')
  <2>1. kept'[k] = kept[k]
    BY <1>10, <1>9, PartSizes
  <2>2. ASSUME k \in Objects
        PROVE  k \in Objects' \/ AttachmentStream(k) \in tracked'
    <3>1. PICK m \in 1..Len(objects) : objects[m] = k
      BY <2>2 DEF Objects
    <3>2. stops # {} /\ n <= m
      BY <1>6, <3>1
    <3>3. CASE n = m
      BY <1>4, <3>1, <3>2, <3>3
    <3>4. CASE n # m
      <4>1. m > n
        <5> HIDE DEF n
        <5> QED
          BY <1>1, <1>5, <3>2, <3>4
      <4> QED
        BY <1>12, <3>1, <4>1
    <3> QED
      BY <3>3, <3>4
  <2> QED
    BY <2>1, <2>2
<1>14. ASSUME NEW k \in (1..Len(message)) \ Attachments, k \in Objects \/ kept[k] = message[k].size
       PROVE  k \in Objects' \/ kept'[k] = message[k].size
  <2>1. CASE kept[k] = message[k].size
    BY <1>10, <2>1
  <2>2. CASE k \in Objects
    <3>1. PICK m \in 1..Len(objects) : objects[m] = k
      BY <2>2 DEF Objects
    <3>2. CASE m > n
      BY <1>12, <3>1, <3>2
    <3>3. CASE ~(m > n)
      <4>1. m \in 1..n
        <5> HIDE DEF n
        <5> QED
          BY <1>1, <1>5, <3>3
      <4>2. k \in texts
        BY <3>1, <4>1
      <4> QED
        BY <1>10, <4>2
    <3> QED
      BY <3>2, <3>3
  <2> QED
    BY <1>14, <2>1, <2>2
<1>15. \/ reading' = FALSE /\ tracked' = t
       \/ \E k \in Attachments : reading' = TRUE /\ tracked' = t \union {AttachmentStream(k)}
  <2> HIDE DEF stops
  <2>1. CASE stops = {}
    BY <1>4, <2>1
  <2>2. CASE stops # {}
    BY <1>4, <1>8, <2>2
  <2> QED
    BY <2>1, <2>2
<1> QED
  BY <1>10, <1>11, <1>13, <1>14, <1>15

LEMMA MessageStays ==
  ASSUME [Next]_vars
  PROVE  /\ message' = message /\ limit' = limit
         /\ Attachments' = Attachments /\ AttachmentStreams' = AttachmentStreams
         /\ Total' = Total

<1>1. message' = message /\ limit' = limit
  <2>1. CASE Next
    BY <2>1 DEF Next, Streams, Parse, Readable, Drain, AttachmentEnd, ParserEnd, ErrorEvent, Count, SourceEnds, Close, Breaks
  <2>2. CASE UNCHANGED vars
    BY <2>2 DEF vars
  <2> QED
    BY <2>1, <2>2
<1>2. Attachments' = Attachments
  BY <1>1 DEF Attachments
<1>3. AttachmentStreams' = AttachmentStreams
  BY <1>2 DEF AttachmentStreams, AttachmentStream
<1>4. Total' = Total
  BY <1>1 DEF Total
<1> QED
  BY <1>1, <1>2, <1>3, <1>4

\* What has been taken of the parts changes only where MailParser takes a chunk.
LEMMA TakenStays ==
  ASSUME UNCHANGED <<message, parser>>
  PROVE  \A k : Taken(k)' = Taken(k)
BY DEF Taken

LEMMA ObjectsStay ==
  ASSUME UNCHANGED objects
  PROVE  Objects' = Objects
BY DEF Objects

-----------------------------------------------------------------------------
(* The steps.                                                               *)

LEMMA Initial ==
  ASSUME Init
  PROVE  IInv
<1>1. message \in Seq(Parts) /\ limit \in Nat
  BY MessageAssumption, LimitAssumption DEF Init
<1>2. Len(message) \in Nat
  BY <1>1
<1>3. TypeOK
  <2>1. objects \in Seq(1..Len(message))
    BY DEF Init
  <2>2. content \in [1..Len(message) -> Nat] /\ kept \in [1..Len(message) -> Nat]
    BY DEF Init
  <2>3. parser \in [part : Nat \ {0}, taken : Nat, waiting : BOOLEAN]
    BY DEF Init
  <2>4. bytes \in Nat /\ reading \in BOOLEAN /\ closing \in BOOLEAN /\ fault \in BOOLEAN /\ outcome = "pending"
    BY DEF Init
  <2> QED
    BY <1>1, <2>1, <2>2, <2>3, <2>4 DEF TypeOK
<1>4. tracked = Pipes
  BY DEF Init, Pipes
<1>5. StreamInv
  BY <1>4, StreamNames DEF Init, StreamInv
<1>6. CountInv
  BY <1>1 DEF Init, CountInv, TooLarge
<1>7. PartInv
  <2>1. \A k \in 1..Len(message) : kept[k] = 0 /\ content[k] = 0 /\ Taken(k) = 0
    BY <1>2 DEF Init, Taken
  <2>2. parser.part <= Len(message) => parser.taken < message[parser.part].size
    BY <1>2, <1>3, PartSizes DEF Init
  <2>3. \A k \in 1..Len(message) : ~(k < parser.part)
    BY <1>2 DEF Init
  <2> QED
    BY <2>1, <2>2, <2>3 DEF PartInv, Attachments
<1> QED
  BY <1>3, <1>5, <1>6, <1>7 DEF IInv

\* A step of the download, or a failure: nothing changes but the counter, the source and the errors.
LEMMA PipeSteps ==
  ASSUME IInv, Count \/ SourceEnds \/ (\E s \in Pipes : Breaks(s))
  PROVE  IInv'
<1>0. Next /\ TypeOK /\ StreamInv /\ CountInv /\ PartInv
  BY DEF Next, IInv
<1>1. UNCHANGED <<message, limit, parser, objects, content, kept, reading, outcome, tracked, closing>>
  BY DEF Count, SourceEnds, Breaks
<1>2. /\ Attachments' = Attachments /\ AttachmentStreams' = AttachmentStreams /\ Total' = Total
      /\ Objects' = Objects /\ \A k : Taken(k)' = Taken(k)
  BY <1>0, <1>1, MessageStays, ObjectsStay, TakenStays
<1>3. bytes \in Nat /\ limit \in Nat
  BY <1>0 DEF TypeOK
<1>4. CASE Count
  <2>1. /\ bytes' = bytes + 1 /\ source = "flowing" /\ source' = source /\ fault' = fault
        /\ errors \subseteq errors' /\ destroyed \subseteq destroyed' /\ destroyed' \subseteq destroyed \union {<<"counter">>}
        /\ Oversize(bytes + 1) => <<"counter">> \in destroyed'
        /\ errors' # errors => Oversize(bytes + 1)
    BY <1>4 DEF Count
  <2>2. TooLarge(bytes') <=> Oversize(bytes + 1)
    BY <1>3, <2>1 DEF TooLarge, Oversize
  <2>3. TooLarge(bytes) => TooLarge(bytes')
    BY <1>3, <2>1 DEF TooLarge
  <2>4. TooLarge(bytes)' <=> TooLarge(bytes')
    BY <1>1 DEF TooLarge
  <2>5. TypeOK'
    BY <1>0, <1>1, <2>1, <1>3 DEF TypeOK
  <2>6. StreamInv'
    BY <1>0, <1>1, <1>2, <2>1, StreamNames DEF StreamInv, Pipes
  <2>7. CountInv'
    BY <1>0, <1>1, <1>2, <2>1, <2>2, <2>3, <2>4 DEF CountInv
  <2>8. PartInv'
    BY <1>0, <1>1, <1>2 DEF PartInv
  <2> QED
    BY <2>5, <2>6, <2>7, <2>8 DEF IInv
<1>5. CASE SourceEnds
  <2>1. UNCHANGED <<bytes, errors, destroyed, fault>> /\ bytes = Total /\ source' = "ended" /\ <<"counter">> \notin destroyed
    BY <1>5 DEF SourceEnds
  <2>2. TooLarge(bytes)' <=> TooLarge(bytes)
    BY <1>1, <2>1 DEF TooLarge
  <2>3. TypeOK'
    BY <1>0, <1>1, <2>1 DEF TypeOK
  <2>4. StreamInv'
    BY <1>0, <1>1, <1>2, <2>1, StreamNames DEF StreamInv, Pipes
  <2>5. CountInv'
    BY <1>0, <1>1, <1>2, <2>1, <2>2 DEF CountInv
  <2>6. PartInv'
    BY <1>0, <1>1, <1>2 DEF PartInv
  <2> QED
    BY <2>3, <2>4, <2>5, <2>6 DEF IInv
<1>6. ASSUME NEW s \in Pipes, Breaks(s)
      PROVE  IInv'
  <2>1. /\ bytes' = bytes /\ errors' = errors \union {s} /\ destroyed' = destroyed \union {s}
        /\ fault' = TRUE /\ (source' = source \/ source' = "failed") /\ outcome = "pending"
    BY <1>6 DEF Breaks
  <2>2. TooLarge(bytes)' <=> TooLarge(bytes)
    BY <1>1, <2>1 DEF TooLarge
  <2>3. TypeOK'
    BY <1>0, <1>1, <2>1 DEF TypeOK
  <2>4. StreamInv'
    BY <1>0, <1>1, <1>2, <2>1, StreamNames DEF StreamInv, Pipes
  <2>5. CountInv'
    BY <1>0, <1>1, <1>2, <2>1, <2>2 DEF CountInv
  <2>6. PartInv'
    BY <1>0, <1>1, <1>2 DEF PartInv
  <2> QED
    BY <2>3, <2>4, <2>5, <2>6 DEF IInv
<1> QED
  BY <1>4, <1>5, <1>6

LEMMA ParseStep ==
  ASSUME IInv, Parse
  PROVE  IInv'
<1>k. PICK k : k = parser.part
  OBVIOUS
<1> DEFINE last == parser.taken + 1 = message[k].size
           attachment == k \in Attachments
<1>0. Next /\ TypeOK /\ StreamInv /\ CountInv /\ PartInv
  BY DEF Next, Streams, IInv
<1>1. /\ UNCHANGED <<message, limit, source, bytes, kept, reading, outcome, tracked, destroyed, errors, closing, fault>>
      /\ <<"parser">> \notin destroyed /\ k <= Len(message)
      /\ parser' = IF last THEN [part |-> k + 1, taken |-> 0, waiting |-> attachment]
                   ELSE [parser EXCEPT !.taken = @ + 1]
      /\ objects' = IF (attachment /\ parser.taken = 0) \/ (~attachment /\ last) THEN Append(objects, k) ELSE objects
      /\ content' = IF attachment THEN [content EXCEPT ![k] = @ + 1] ELSE content
  BY <1>k DEF Parse
<1>2. /\ Attachments' = Attachments /\ AttachmentStreams' = AttachmentStreams /\ Total' = Total
  BY <1>0, MessageStays
<1>3. /\ k \in Nat \ {0} /\ parser.taken \in Nat /\ Len(message) \in Nat /\ k \in 1..Len(message)
      /\ message[k].size \in Nat /\ parser.taken < message[k].size
  <2>1. k \in Nat \ {0} /\ parser.taken \in Nat
    BY <1>0, <1>k DEF TypeOK
  <2>2. Len(message) \in Nat
    BY <1>0, PartSizes
  <2>3. k \in 1..Len(message)
    BY <1>1, <2>1, <2>2
  <2>4. message[k].size \in Nat
    BY <1>0, <2>3, PartSizes
  <2> QED
    BY <1>0, <1>1, <1>k, <2>1, <2>2, <2>3, <2>4 DEF PartInv
<1>4. /\ parser' \in [part : Nat \ {0}, taken : Nat, waiting : BOOLEAN]
      /\ last => parser'.part = k + 1 /\ parser'.taken = 0
      /\ ~last => parser'.part = k /\ parser'.taken = parser.taken + 1
  <2>1. CASE last
    <3>1. parser' = [part |-> k + 1, taken |-> 0, waiting |-> attachment]
      BY <1>1, <2>1
    <3> QED
      BY <1>3, <2>1, <3>1
  <2>2. CASE ~last
    <3>1. parser' = [parser EXCEPT !.taken = @ + 1]
      BY <1>1, <2>2
    <3>2. parser \in [part : Nat \ {0}, taken : Nat, waiting : BOOLEAN]
      BY <1>0 DEF TypeOK
    <3> QED
      BY <1>3, <1>k, <2>2, <3>1, <3>2
  <2> QED
    BY <2>1, <2>2
<1>5. /\ objects' \in Seq(1..Len(message))
      /\ Objects \subseteq Objects'
      /\ (attachment /\ parser.taken = 0) \/ (~attachment /\ last) => k \in Objects'
  <2>1. objects \in Seq(1..Len(message))
    BY <1>0 DEF TypeOK
  <2>2. CASE (attachment /\ parser.taken = 0) \/ (~attachment /\ last)
    <3>1. objects' = Append(objects, k)
      BY <1>1, <2>2
    <3>2. /\ objects' \in Seq(1..Len(message)) /\ Len(objects') = Len(objects) + 1
          /\ \A i \in 1..Len(objects) : objects'[i] = objects[i]
          /\ objects'[Len(objects) + 1] = k
      BY <1>3, <2>1, <3>1, AppendProperties
    <3>3. Len(objects) \in Nat
      BY <2>1
    <3>4. k \in Objects'
      BY <3>2, <3>3 DEF Objects
    <3>5. Objects \subseteq Objects'
      BY <3>2, <3>3 DEF Objects
    <3> QED
      BY <3>2, <3>4, <3>5
  <2>3. CASE ~((attachment /\ parser.taken = 0) \/ (~attachment /\ last))
    <3>1. objects' = objects
      BY <1>1, <2>3
    <3> QED
      BY <2>1, <2>3, <3>1, ObjectsStay
  <2> QED
    BY <2>2, <2>3
<1>6. /\ content' \in [1..Len(message) -> Nat]
      /\ attachment => content'[k] = content[k] + 1
      /\ \A j \in 1..Len(message) : j # k \/ ~attachment => content'[j] = content[j]
  <2>1. content \in [1..Len(message) -> Nat]
    BY <1>0 DEF TypeOK
  <2>2. CASE attachment
    <3>1. content' = [content EXCEPT ![k] = @ + 1]
      BY <1>1, <2>2
    <3> HIDE DEF attachment
    <3> QED
      BY <1>3, <2>1, <2>2, <3>1
  <2>3. CASE ~attachment
    <3>1. content' = content
      BY <1>1, <2>3
    <3> QED
      BY <2>1, <2>3, <3>1
  <2> QED
    BY <2>2, <2>3
<1>7. /\ Taken(k)' = Taken(k) + 1
      /\ \A j \in 1..Len(message) : j # k => Taken(j)' = Taken(j)
      /\ \A j \in 1..Len(message) : j < k => j < parser'.part
      /\ \A j \in 1..Len(message) : j < parser'.part /\ j # k => j < k
      /\ k < parser'.part <=> last
      /\ Taken(k) = parser.taken
  <2>1. \A j : Taken(j)' = IF j < parser'.part THEN message[j].size ELSE IF j = parser'.part THEN parser'.taken ELSE 0
    BY <1>1 DEF Taken
  <2>2. \A j : Taken(j) = IF j < k THEN message[j].size ELSE IF j = k THEN parser.taken ELSE 0
    BY <1>k DEF Taken
  <2>3. \A j \in 1..Len(message) : j \in Nat
    OBVIOUS
  <2>4. CASE last
    BY <1>3, <1>4, <2>1, <2>2, <2>3, <2>4
  <2>5. CASE ~last
    BY <1>3, <1>4, <2>1, <2>2, <2>3, <2>5
  <2> QED
    BY <2>4, <2>5
<1>8. TypeOK'
  BY <1>0, <1>1, <1>4, <1>5, <1>6 DEF TypeOK
<1>9. StreamInv'
  <2>1. outcome # "resolved" /\ outcome # "rejected"
    BY <1>k, <1>0, <1>1, <1>3, StreamNames DEF StreamInv
  <2> QED
    BY <1>0, <1>1, <1>2, <2>1 DEF StreamInv, Pipes
<1>10. CountInv'
  <2>1. TooLarge(bytes)' <=> TooLarge(bytes)
    BY <1>1 DEF TooLarge
  <2> QED
    BY <1>0, <1>1, <1>2, <2>1 DEF CountInv
<1>11. PartInv'
  <2>1. (parser.part <= Len(message) => parser.taken < message[parser.part].size)'
    <3>1. CASE last
      <4>1. ASSUME parser'.part <= Len(message)
            PROVE  0 < message[parser'.part].size
        BY <1>0, <1>3, <1>4, <3>1, <4>1, PartSizes
      <4> QED
        BY <1>1, <1>4, <3>1, <4>1
    <3>2. CASE ~last
      BY <1>1, <1>3, <1>4, <1>k, <3>2
    <3> QED
      BY <3>1, <3>2
  <2>2. ASSUME NEW j \in Attachments
        PROVE  /\ kept[j] + content'[j] = Taken(j)'
               /\ Taken(j)' > 0 /\ outcome # "rejected" =>
                    j \in Objects' \/ AttachmentStream(j) \in tracked \/ (content'[j] = 0 /\ j < parser'.part)
    <3>0. j \in 1..Len(message) /\ kept[j] \in Nat /\ content[j] \in Nat
      BY <1>0, PartSizes DEF TypeOK
    <3>1. /\ kept[j] + content[j] = Taken(j)
          /\ Taken(j) > 0 /\ outcome # "rejected" =>
               j \in Objects \/ AttachmentStream(j) \in tracked \/ (content[j] = 0 /\ j < k)
      BY <1>k, <1>0 DEF PartInv
    <3>2. CASE j # k
      BY <1>5, <1>6, <1>7, <3>0, <3>1, <3>2
    <3>3. CASE j = k
      <4>1. kept[j] + content'[j] = Taken(j)'
        BY <1>6, <1>7, <3>0, <3>1, <3>3
      <4>2. CASE parser.taken = 0
        BY <1>5, <3>3, <4>1, <4>2
      <4>3. CASE parser.taken # 0
        BY <1>3, <1>5, <1>7, <3>1, <3>3, <4>1, <4>3
      <4> QED
        BY <4>2, <4>3
    <3> QED
      BY <3>2, <3>3
  <2>3. ASSUME NEW j \in (1..Len(message)) \ Attachments, j < parser'.part
        PROVE  j \in Objects' \/ kept[j] = message[j].size
    <3>1. CASE j # k
      <4>1. j < k
        BY <1>7, <2>3, <3>1
      <4> QED
        BY <1>k, <1>0, <1>5, <4>1 DEF PartInv
    <3>2. CASE j = k
      <4>1. last /\ ~attachment
        BY <1>7, <2>3, <3>2
      <4> QED
        BY <1>5, <3>2, <4>1
    <3> QED
      BY <3>1, <3>2
  <2>4. (\A j \in Attachments :
          /\ kept[j] + content[j] = Taken(j)
          /\ Taken(j) > 0 /\ outcome # "rejected" =>
               j \in Objects \/ AttachmentStream(j) \in tracked \/ (content[j] = 0 /\ j < parser.part))'
    <3> HIDE DEF attachment, last
    <3> QED
      BY <1>1, <1>2, <2>2 DEF AttachmentStream
  <2>5. (\A j \in (1..Len(message)) \ Attachments :
          j < parser.part => j \in Objects \/ kept[j] = message[j].size)'
    BY <1>1, <1>2, <2>3
  <2> QED
    BY <2>1, <2>4, <2>5 DEF PartInv
<1> QED
  BY <1>8, <1>9, <1>10, <1>11 DEF IInv

\* What readNext leaves: t, which holds no attachment's stream, and the one it stops at.
LEMMA ReadNextTracks ==
  ASSUME IInv, [Next]_vars, NEW t, ReadNext(t), t \subseteq tracked, t \intersect AttachmentStreams = {},
         t \intersect Pipes = tracked \intersect Pipes,
         UNCHANGED <<message, outcome, destroyed, errors, closing>>,
         outcome # "resolved", ~closing
  PROVE  StreamInv'
<1>0. TypeOK /\ StreamInv
  BY DEF IInv
<1>1. UNCHANGED message
  OBVIOUS
<1>2. AttachmentStreams' = AttachmentStreams
  BY MessageStays
<1>3. \/ reading' = FALSE /\ tracked' = t
      \/ \E k \in Attachments : reading' = TRUE /\ tracked' = t \union {AttachmentStream(k)}
  BY <1>0, <1>1, ReadNextReads
<1>4. Pipes' = Pipes
  BY DEF Pipes
<1>5. CASE reading' = FALSE /\ tracked' = t
  BY <1>0, <1>2, <1>4, <1>5 DEF StreamInv
<1>6. ASSUME NEW k \in Attachments, reading' = TRUE, tracked' = t \union {AttachmentStream(k)}
      PROVE  StreamInv'
  <2>1. AttachmentStream(k) \in AttachmentStreams /\ AttachmentStream(k) \notin Pipes
    BY StreamNames
  <2>2. tracked' \intersect AttachmentStreams = {AttachmentStream(k)}
    BY <1>6, <2>1
  <2>3. tracked' \intersect Pipes = tracked \intersect Pipes
    BY <1>6, <2>1
  <2> QED
    BY <1>0, <1>2, <1>4, <1>6, <2>1, <2>2, <2>3 DEF StreamInv
<1> QED
  BY <1>3, <1>5, <1>6

LEMMA ReadableStep ==
  ASSUME IInv, Readable
  PROVE  IInv'
<1>0. [Next]_vars /\ TypeOK /\ StreamInv /\ CountInv /\ PartInv
  BY DEF Next, Streams, IInv
<1>1. /\ UNCHANGED <<message, limit, source, bytes, parser, content, outcome, destroyed, errors, closing, fault>>
      /\ objects # <<>> /\ ~reading /\ <<"parser">> \notin destroyed /\ ReadNext(tracked)
  BY DEF Readable
<1>2. /\ Attachments' = Attachments /\ AttachmentStreams' = AttachmentStreams /\ Total' = Total
      /\ \A k : Taken(k)' = Taken(k)
  BY <1>0, <1>1, MessageStays, TakenStays
<1>3. outcome = "pending" /\ ~closing
  <2>1. <<"parser">> \in Pipes
    BY StreamNames
  <2>2. outcome = "pending"
    BY <1>0, <1>1, <2>1 DEF StreamInv, TypeOK
  <2> QED
    BY <1>0, <1>1, <2>1, <2>2 DEF StreamInv
<1>4. tracked \intersect AttachmentStreams = {}
  BY <1>0, <1>1 DEF StreamInv
<1>5. /\ objects' \in Seq(1..Len(message))
      /\ kept' \in [1..Len(message) -> Nat]
      /\ \/ reading' = FALSE /\ tracked' = tracked
         \/ \E k \in Attachments : reading' = TRUE /\ tracked' = tracked \union {AttachmentStream(k)}
      /\ \A k \in Attachments :
           kept'[k] = kept[k] /\ (k \in Objects => k \in Objects' \/ AttachmentStream(k) \in tracked')
      /\ \A k \in (1..Len(message)) \ Attachments :
           k \in Objects \/ kept[k] = message[k].size => k \in Objects' \/ kept'[k] = message[k].size
  BY <1>0, <1>1, ReadNextReads
<1>6. TypeOK'
  BY <1>0, <1>1, <1>5 DEF TypeOK
<1>7. StreamInv'
  BY <1>0, <1>1, <1>3, <1>4, ReadNextTracks
<1>8. CountInv'
  <2>1. TooLarge(bytes)' <=> TooLarge(bytes)
    BY <1>1 DEF TooLarge
  <2> QED
    BY <1>0, <1>1, <1>2, <2>1 DEF CountInv
<1>9. PartInv'
  <2>1. tracked \subseteq tracked'
    BY <1>5
  <2>2. ASSUME NEW k \in Attachments
        PROVE  /\ kept'[k] + content[k] = Taken(k)
               /\ Taken(k) > 0 /\ outcome # "rejected" =>
                    k \in Objects' \/ AttachmentStream(k) \in tracked' \/ (content[k] = 0 /\ k < parser.part)
    BY <1>0, <1>5, <2>1 DEF PartInv
  <2>3. (\A k \in Attachments :
          /\ kept[k] + content[k] = Taken(k)
          /\ Taken(k) > 0 /\ outcome # "rejected" =>
               k \in Objects \/ AttachmentStream(k) \in tracked \/ (content[k] = 0 /\ k < parser.part))'
    BY <1>1, <1>2, <2>2 DEF AttachmentStream
  <2>4. \A k \in (1..Len(message)) \ Attachments :
          k < parser.part => k \in Objects' \/ kept'[k] = message[k].size
    BY <1>0, <1>5 DEF PartInv
  <2>5. (parser.part <= Len(message) => parser.taken < message[parser.part].size)'
    BY <1>0, <1>1 DEF PartInv
  <2> QED
    BY <1>1, <1>2, <2>3, <2>4, <2>5 DEF PartInv
<1> QED
  BY <1>6, <1>7, <1>8, <1>9 DEF IInv

LEMMA DrainStep ==
  ASSUME IInv, NEW k \in Attachments, Drain(k)
  PROVE  IInv'
<1>0. Next /\ TypeOK /\ StreamInv /\ CountInv /\ PartInv
  BY DEF Next, Streams, IInv
<1>1. /\ UNCHANGED <<message, limit, source, bytes, parser, objects, reading, outcome, tracked, destroyed, errors,
                     closing, fault>>
      /\ kept' = [kept EXCEPT ![k] = @ + content[k]]
      /\ content' = [content EXCEPT ![k] = 0]
      /\ AttachmentStream(k) \in tracked
  BY DEF Drain, Draining
<1>2. /\ Attachments' = Attachments /\ AttachmentStreams' = AttachmentStreams /\ Total' = Total
      /\ Objects' = Objects /\ \A j : Taken(j)' = Taken(j)
  BY <1>0, <1>1, MessageStays, ObjectsStay, TakenStays
<1>3. /\ k \in 1..Len(message)
      /\ kept' \in [1..Len(message) -> Nat] /\ content' \in [1..Len(message) -> Nat]
      /\ kept'[k] = kept[k] + content[k] /\ content'[k] = 0
      /\ \A j \in 1..Len(message) : j # k => kept'[j] = kept[j] /\ content'[j] = content[j]
  <2>1. k \in 1..Len(message)
    BY <1>0, PartSizes
  <2>2. kept \in [1..Len(message) -> Nat] /\ content \in [1..Len(message) -> Nat]
    BY <1>0 DEF TypeOK
  <2> QED
    BY <1>1, <2>1, <2>2
<1>4. TypeOK'
  BY <1>0, <1>1, <1>3 DEF TypeOK
<1>5. StreamInv'
  BY <1>0, <1>1, <1>2 DEF StreamInv, Pipes
<1>6. CountInv'
  <2>1. TooLarge(bytes)' <=> TooLarge(bytes)
    BY <1>1 DEF TooLarge
  <2> QED
    BY <1>0, <1>1, <1>2, <2>1 DEF CountInv
<1>7. PartInv'
  <2>1. ASSUME NEW j \in Attachments
        PROVE  /\ kept'[j] + content'[j] = Taken(j)
               /\ Taken(j) > 0 /\ outcome # "rejected" =>
                    j \in Objects \/ AttachmentStream(j) \in tracked \/ (content'[j] = 0 /\ j < parser.part)
    <3>1. j \in 1..Len(message) /\ kept[j] \in Nat /\ content[j] \in Nat
      BY <1>0, PartSizes DEF TypeOK
    <3>2. /\ kept[j] + content[j] = Taken(j)
          /\ Taken(j) > 0 /\ outcome # "rejected" =>
               j \in Objects \/ AttachmentStream(j) \in tracked \/ (content[j] = 0 /\ j < parser.part)
      BY <1>0 DEF PartInv
    <3> QED
      BY <1>1, <1>3, <3>1, <3>2
  <2>2. (\A j \in Attachments :
          /\ kept[j] + content[j] = Taken(j)
          /\ Taken(j) > 0 /\ outcome # "rejected" =>
               j \in Objects \/ AttachmentStream(j) \in tracked \/ (content[j] = 0 /\ j < parser.part))'
    BY <1>1, <1>2, <2>1 DEF AttachmentStream
  <2>3. \A j \in (1..Len(message)) \ Attachments : kept'[j] = kept[j]
    BY <1>3
  <2>4. (parser.part <= Len(message) => parser.taken < message[parser.part].size)'
    BY <1>0, <1>1 DEF PartInv
  <2>5. (\A j \in (1..Len(message)) \ Attachments :
          j < parser.part => j \in Objects \/ kept[j] = message[j].size)'
    BY <1>0, <1>1, <1>2, <2>3 DEF PartInv
  <2> QED
    BY <2>2, <2>4, <2>5 DEF PartInv
<1> QED
  BY <1>4, <1>5, <1>6, <1>7 DEF IInv

LEMMA AttachmentEndStep ==
  ASSUME IInv, NEW k \in Attachments, AttachmentEnd(k)
  PROVE  IInv'
<1> DEFINE t == tracked \ {AttachmentStream(k)}
<1>0. [Next]_vars /\ TypeOK /\ StreamInv /\ CountInv /\ PartInv
  BY DEF Next, Streams, IInv
<1>1. /\ UNCHANGED <<message, limit, source, bytes, content, outcome, destroyed, errors, closing, fault>>
      /\ parser' = [parser EXCEPT !.waiting = FALSE]
      /\ AttachmentStream(k) \in tracked /\ AttachmentStream(k) \notin destroyed
      /\ k < parser.part /\ content[k] = 0
      /\ ReadNext(t)
  <2>1. parser.part > k
    BY DEF AttachmentEnd, Complete
  <2>2. parser.part \in Nat /\ k \in Nat
    BY <1>0, PartSizes DEF TypeOK
  <2> QED
    BY <2>1, <2>2 DEF AttachmentEnd, Draining
<1>2. /\ parser' \in [part : Nat \ {0}, taken : Nat, waiting : BOOLEAN]
      /\ parser'.part = parser.part /\ parser'.taken = parser.taken
  BY <1>0, <1>1 DEF TypeOK
<1>3. /\ Attachments' = Attachments /\ AttachmentStreams' = AttachmentStreams /\ Total' = Total
      /\ \A j : Taken(j)' = Taken(j)
  <2>1. \A j : Taken(j)' = Taken(j)
    BY <1>1, <1>2 DEF Taken
  <2> QED
    BY <1>0, <2>1, MessageStays
<1>4. AttachmentStream(k) \in AttachmentStreams /\ AttachmentStream(k) \notin Pipes
  BY StreamNames
<1>5. ~closing /\ outcome # "resolved"
  BY <1>0, <1>1, <1>4 DEF StreamInv
<1>6. t \intersect AttachmentStreams = {} /\ t \subseteq tracked /\ t \intersect Pipes = tracked \intersect Pipes
  BY <1>0, <1>1, <1>4 DEF StreamInv
<1> HIDE DEF t
<1>7. /\ objects' \in Seq(1..Len(message))
      /\ kept' \in [1..Len(message) -> Nat]
      /\ \/ reading' = FALSE /\ tracked' = t
         \/ \E j \in Attachments : reading' = TRUE /\ tracked' = t \union {AttachmentStream(j)}
      /\ \A j \in Attachments :
           kept'[j] = kept[j] /\ (j \in Objects => j \in Objects' \/ AttachmentStream(j) \in tracked')
      /\ \A j \in (1..Len(message)) \ Attachments :
           j \in Objects \/ kept[j] = message[j].size => j \in Objects' \/ kept'[j] = message[j].size
  BY <1>0, <1>1, ReadNextReads
<1>8. TypeOK'
  BY <1>0, <1>1, <1>2, <1>7 DEF TypeOK
<1>9. StreamInv'
  BY <1>0, <1>1, <1>5, <1>6, ReadNextTracks
<1>10. CountInv'
  <2>1. TooLarge(bytes)' <=> TooLarge(bytes)
    BY <1>1 DEF TooLarge
  <2> QED
    BY <1>0, <1>1, <1>3, <2>1 DEF CountInv
<1>11. PartInv'
  <2>1. t \subseteq tracked'
    BY <1>7
  <2>2. ASSUME NEW j \in Attachments
        PROVE  /\ kept'[j] + content[j] = Taken(j)
               /\ Taken(j) > 0 /\ outcome # "rejected" =>
                    j \in Objects' \/ AttachmentStream(j) \in tracked' \/ (content[j] = 0 /\ j < parser.part)
    <3>1. /\ kept[j] + content[j] = Taken(j)
          /\ Taken(j) > 0 /\ outcome # "rejected" =>
               j \in Objects \/ AttachmentStream(j) \in tracked \/ (content[j] = 0 /\ j < parser.part)
      BY <1>0 DEF PartInv
    <3>2. j # k /\ AttachmentStream(j) \in tracked => AttachmentStream(j) \in t
      BY StreamNames DEF t
    <3> QED
      BY <1>1, <1>7, <2>1, <3>1, <3>2
  <2>3. (\A j \in Attachments :
          /\ kept[j] + content[j] = Taken(j)
          /\ Taken(j) > 0 /\ outcome # "rejected" =>
               j \in Objects \/ AttachmentStream(j) \in tracked \/ (content[j] = 0 /\ j < parser.part))'
    BY <1>1, <1>2, <1>3, <2>2 DEF AttachmentStream
  <2>4. \A j \in (1..Len(message)) \ Attachments :
          j < parser.part => j \in Objects' \/ kept'[j] = message[j].size
    BY <1>0, <1>7 DEF PartInv
  <2>5. (parser.part <= Len(message) => parser.taken < message[parser.part].size)'
    BY <1>0, <1>1, <1>2 DEF PartInv
  <2> QED
    BY <1>1, <1>2, <1>3, <2>3, <2>4, <2>5 DEF PartInv
<1> QED
  BY <1>8, <1>9, <1>10, <1>11 DEF IInv

\* finish; the case of a rejection and that of the parser's end.
LEMMA ParserEndStep ==
  ASSUME IInv, NEW error \in BOOLEAN, ParserEnd(error)
  PROVE  IInv'
<1>0. Next /\ TypeOK /\ StreamInv /\ CountInv /\ PartInv
  BY DEF Next, Streams, IInv
<1>1. /\ UNCHANGED <<message, limit, source, bytes, parser, objects, content, kept, reading, errors, closing>>
      /\ fault' = (fault \/ error) /\ source = "ended" /\ parser.part > Len(message) /\ objects = <<>> /\ ~reading
      /\ outcome = "pending" /\ outcome' = (IF error THEN "rejected" ELSE "resolved")
      /\ destroyed' = (IF error THEN destroyed \union Pipes ELSE destroyed)
      /\ tracked' = tracked \ Pipes
  BY DEF ParserEnd, Finish
<1>2. /\ Attachments' = Attachments /\ AttachmentStreams' = AttachmentStreams /\ Total' = Total
      /\ Objects' = Objects /\ \A k : Taken(k)' = Taken(k)
  BY <1>0, <1>1, MessageStays, ObjectsStay, TakenStays
<1>3. TypeOK'
  BY <1>0, <1>1 DEF TypeOK
<1>4. StreamInv'
  BY <1>0, <1>1, <1>2 DEF StreamInv, Pipes
<1>5. CountInv'
  <2>1. TooLarge(bytes)' <=> TooLarge(bytes)
    BY <1>1 DEF TooLarge
  <2> QED
    BY <1>0, <1>1, <1>2, <2>1, StreamNames DEF CountInv
<1>6. PartInv'
  <2>1. tracked \intersect AttachmentStreams = {}
    BY <1>0, <1>1 DEF StreamInv
  <2>2. ASSUME NEW k \in Attachments
        PROVE  AttachmentStream(k) \notin tracked
    BY <2>1, StreamNames
  <2> QED
    BY <1>0, <1>1, <1>2, <2>2 DEF PartInv, AttachmentStream
<1> QED
  BY <1>3, <1>4, <1>5, <1>6 DEF IInv

LEMMA ErrorEventStep ==
  ASSUME IInv, NEW s \in errors, ErrorEvent(s)
  PROVE  IInv'
<1> DEFINE t == IF s \in Pipes THEN tracked ELSE tracked \ {s}
<1>0. Next /\ TypeOK /\ StreamInv /\ CountInv /\ PartInv
  BY DEF Next, Streams, IInv
<1>1. /\ UNCHANGED <<message, limit, source, bytes, parser, objects, content, kept, reading, closing, fault>>
      /\ errors' = errors \ {s}
      /\ outcome' = IF outcome # "pending" THEN outcome ELSE "rejected"
      /\ destroyed' = IF outcome = "pending" THEN destroyed \union Pipes ELSE destroyed
      /\ tracked' = IF outcome = "pending" THEN t \ Pipes ELSE t
  BY DEF ErrorEvent, Finish
<1>2. /\ Attachments' = Attachments /\ AttachmentStreams' = AttachmentStreams /\ Total' = Total
      /\ Objects' = Objects /\ \A k : Taken(k)' = Taken(k) /\ Pipes' = Pipes
  BY <1>0, <1>1, MessageStays, ObjectsStay, TakenStays DEF Pipes
<1>3. /\ t \subseteq tracked
      /\ s \notin AttachmentStreams => tracked \intersect AttachmentStreams \subseteq t
      /\ s \in AttachmentStreams => tracked \ {s} \subseteq t
      /\ s \notin Pipes => s \notin t
  OBVIOUS
<1> HIDE DEF t
<1>4. TypeOK'
  BY <1>0, <1>1 DEF TypeOK
<1>5. StreamInv'
  <2>1. tracked' \subseteq tracked /\ outcome' # "pending" /\ destroyed \subseteq destroyed'
    BY <1>1, <1>3
  <2>2. tracked' \intersect Pipes = {}
    BY <1>0, <1>1, <1>3 DEF StreamInv
  <2>3. outcome' = "rejected" => Pipes \subseteq destroyed'
    BY <1>0, <1>1 DEF StreamInv
  <2>4. outcome' = "resolved" => outcome = "resolved"
    BY <1>1
  <2>5. ~closing => destroyed' \subseteq Pipes
    BY <1>0, <1>1 DEF StreamInv
  <2>6. closing => tracked' \intersect AttachmentStreams \subseteq errors'
    <3>1. s \in AttachmentStreams => s \notin Pipes
      BY StreamNames
    <3>2. s \in AttachmentStreams => s \notin tracked'
      BY <1>1, <1>3, <3>1
    <3> QED
      BY <1>0, <1>1, <2>1, <3>2 DEF StreamInv
  <2> QED
    BY <1>0, <1>1, <1>2, <2>1, <2>2, <2>3, <2>4, <2>5, <2>6 DEF StreamInv
<1>6. CountInv'
  <2>1. TooLarge(bytes)' <=> TooLarge(bytes)
    BY <1>1 DEF TooLarge
  <2>2. fault \/ closing \/ TooLarge(bytes)
    BY <1>0 DEF CountInv
  <2> QED
    BY <1>0, <1>1, <1>2, <2>1, <2>2, StreamNames DEF CountInv
<1>7. PartInv'
  <2>1. ASSUME NEW k \in Attachments, outcome' # "rejected"
        PROVE  AttachmentStream(k) \notin tracked
    <3>1. outcome = "resolved"
      BY <1>0, <1>1, <2>1 DEF TypeOK
    <3>2. tracked \intersect AttachmentStreams = {}
      BY <1>0, <3>1 DEF StreamInv
    <3> QED
      BY <3>2, StreamNames
  <2>2. outcome' # "rejected" => outcome # "rejected"
    BY <1>1
  <2> QED
    BY <1>0, <1>1, <1>2, <2>1, <2>2 DEF PartInv, AttachmentStream
<1> QED
  BY <1>4, <1>5, <1>6, <1>7 DEF IInv

LEMMA CloseStep ==
  ASSUME IInv, Close
  PROVE  IInv'
<1>0. Next /\ TypeOK /\ StreamInv /\ CountInv /\ PartInv
  BY DEF Next, IInv
<1>1. /\ UNCHANGED <<message, limit, source, bytes, parser, objects, content, kept, reading, outcome, tracked, fault>>
      /\ ~closing /\ closing' = TRUE
      /\ destroyed' = destroyed \union tracked
      /\ errors' = errors \union (tracked \ destroyed)
  BY DEF Close
<1>2. /\ Attachments' = Attachments /\ AttachmentStreams' = AttachmentStreams /\ Total' = Total
      /\ Objects' = Objects /\ \A k : Taken(k)' = Taken(k) /\ Pipes' = Pipes
  BY <1>0, <1>1, MessageStays, ObjectsStay, TakenStays DEF Pipes
<1>3. TypeOK'
  BY <1>0, <1>1 DEF TypeOK
<1>4. StreamInv'
  BY <1>0, <1>1, <1>2, StreamNames DEF StreamInv
<1>5. CountInv'
  <2>1. TooLarge(bytes)' <=> TooLarge(bytes)
    BY <1>1 DEF TooLarge
  <2> QED
    BY <1>0, <1>1, <1>2, <2>1 DEF CountInv
<1>6. PartInv'
  BY <1>0, <1>1, <1>2 DEF PartInv, AttachmentStream
<1> QED
  BY <1>3, <1>4, <1>5, <1>6 DEF IInv

LEMMA Inductive ==
  ASSUME IInv, [Next]_vars
  PROVE  IInv'
<1>1. CASE UNCHANGED vars
  <2>1. /\ UNCHANGED <<message, limit, source, bytes, parser, objects, content, kept, reading, outcome, tracked,
                       destroyed, errors, closing, fault>>
    BY <1>1 DEF vars
  <2>2. /\ Attachments' = Attachments /\ AttachmentStreams' = AttachmentStreams /\ Total' = Total
        /\ Objects' = Objects /\ \A k : Taken(k)' = Taken(k)
    BY <2>1, MessageStays, ObjectsStay, TakenStays
  <2>3. TypeOK' /\ StreamInv' /\ CountInv'
    BY <2>1, <2>2 DEF IInv, TypeOK, StreamInv, CountInv, TooLarge, Pipes
  <2>4. PartInv'
    BY <2>1, <2>2 DEF IInv, PartInv, AttachmentStream
  <2> QED
    BY <2>3, <2>4 DEF IInv
<1>2. CASE Next
  <2>1. CASE Count \/ SourceEnds \/ (\E s \in Pipes : Breaks(s))
    BY <2>1, PipeSteps
  <2>2. CASE Parse
    BY <2>2, ParseStep
  <2>3. CASE Readable
    BY <2>3, ReadableStep
  <2>4. ASSUME NEW k \in Attachments, Drain(k) \/ AttachmentEnd(k)
        PROVE  IInv'
    BY <2>4, DrainStep, AttachmentEndStep
  <2>5. ASSUME NEW error \in BOOLEAN, ParserEnd(error)
        PROVE  IInv'
    BY <2>5, ParserEndStep
  <2>6. ASSUME NEW s \in errors, ErrorEvent(s)
        PROVE  IInv'
    BY <2>6, ErrorEventStep
  <2>7. CASE Close
    BY <2>7, CloseStep
  <2> QED
    BY <1>2, <2>1, <2>2, <2>3, <2>4, <2>5, <2>6, <2>7 DEF Next, Streams
<1> QED
  BY <1>1, <1>2

-----------------------------------------------------------------------------
(* The theorems.                                                            *)

\* Every state of a parse satisfies the inductive invariant: the state has the shape of the code's,
\* one attachment at most is drained, and no part is lost on its way.
THEOREM InvariantHolds == Spec => []IInv
<1>1. Init => IInv
  BY Initial
<1>2. IInv /\ [Next]_vars => IInv'
  BY Inductive
<1> QED
  BY <1>1, <1>2, PTL DEF Spec

\* parseMailStream leaves nothing in activeStreams but the attachment that a rejected parse was cut
\* off in, and that one only until a close has destroyed it and its error event was raised.
THEOREM Released == Spec => []StreamsReleased
<1>1. ASSUME IInv
      PROVE  StreamsReleased
  <2>1. StreamInv /\ TypeOK
    BY <1>1 DEF IInv
  <2>2. ASSUME outcome # "pending"
        PROVE  tracked \subseteq AttachmentStreams
    BY <2>1, <2>2 DEF StreamInv
  <2>3. ASSUME outcome = "resolved"
        PROVE  tracked = {}
    BY <2>1, <2>2, <2>3 DEF StreamInv
  <2>4. ASSUME outcome # "pending", closing, errors = {}
        PROVE  tracked = {}
    BY <2>1, <2>2, <2>4 DEF StreamInv
  <2> QED
    BY <2>2, <2>3, <2>4 DEF StreamsReleased, AttachmentStreams
<1> QED
  BY <1>1, InvariantHolds, PTL

\* A message that parseMailStream resolves with was downloaded in full, is within maxMessageBytes, and
\* each of its texts and attachments was read to its end; it rejects only for a fault of a stream or of
\* the parser, for the limit, or because the node closes.
THEOREM ResultsRight == Spec => []ResultRight
<1>1. ASSUME IInv
      PROVE  ResultRight
  <2>0. TypeOK /\ StreamInv /\ CountInv /\ PartInv
    BY <1>1 DEF IInv
  <2>1. ASSUME outcome = "resolved"
        PROVE  /\ bytes = Total /\ ~TooLarge(Total)
               /\ \A k \in 1..Len(message) : kept[k] = message[k].size
    <3>1. bytes = Total /\ ~TooLarge(Total)
      <4>1. source = "ended"
        BY <2>0, <2>1 DEF CountInv
      <4>2. bytes = Total /\ ~TooLarge(bytes)
        BY <2>0, <4>1 DEF CountInv
      <4> QED
        BY <4>2
    <3>2. Objects = {} /\ tracked \intersect AttachmentStreams = {} /\ parser.part > Len(message)
      BY <2>0, <2>1 DEF StreamInv, Objects
    <3>3. ASSUME NEW k \in 1..Len(message)
          PROVE  kept[k] = message[k].size
      <4>1. k < parser.part /\ message[k].size \in Nat /\ message[k].size > 0
        BY <2>0, <3>2, PartSizes DEF TypeOK
      <4>2. CASE k \in Attachments
        <5>1. Taken(k) = message[k].size
          BY <4>1 DEF Taken
        <5>2. AttachmentStream(k) \notin tracked
          BY <3>2, <4>2, StreamNames
        <5>3. content[k] = 0 /\ kept[k] + content[k] = message[k].size
          BY <2>0, <2>1, <3>2, <4>1, <4>2, <5>1, <5>2 DEF PartInv
        <5>4. kept[k] \in Nat
          BY <2>0 DEF TypeOK
        <5> QED
          BY <5>3, <5>4
      <4>3. CASE k \notin Attachments
        BY <2>0, <3>2, <4>1, <4>3 DEF PartInv
      <4> QED
        BY <4>2, <4>3
    <3> QED
      BY <3>1, <3>3
  <2>2. ASSUME outcome = "rejected"
        PROVE  fault \/ closing \/ TooLarge(bytes)
    BY <2>0, <2>2 DEF CountInv
  <2> QED
    BY <2>1, <2>2 DEF ResultRight
<1> QED
  BY <1>1, InvariantHolds, PTL
=============================================================================
