--------------------------- MODULE AckActionsProofs ---------------------------
(* Theorems about AckActions, for any mailbox and any chunk.               *)
EXTENDS AckActions, SequenceTheorems, TLAPS

-----------------------------------------------------------------------------
(* The commands of a plan.                                                 *)

LEMMA Concat ==
  ASSUME NEW s \in Seq(Command), NEW t \in Seq(Command)
  PROVE  /\ s \o t \in Seq(Command) /\ Len(s \o t) = Len(s) + Len(t)
         /\ \A i \in 1..(Len(s) + Len(t)) :
              (s \o t)[i] = IF i <= Len(s) THEN s[i] ELSE t[i - Len(s)]
  BY ConcatProperties

LEMMA Optional ==
  ASSUME NEW b \in BOOLEAN, NEW c \in Command, NEW s, s = IF b THEN <<c>> ELSE <<>>
  PROVE  s \in Seq(Command) /\ Len(s) = (IF b THEN 1 ELSE 0) /\ (b => s[1] = c)
<1>1. CASE b
  BY <1>1
<1>2. CASE ~b
  BY <1>2, EmptySeq
<1> QED
  BY <1>1, <1>2

LEMMA FlagCommandsShape ==
  ASSUME plan \in Plan
  PROVE  /\ FlagCommands \in Seq(Command)
         /\ Len(FlagCommands) = (IF plan.add THEN 1 ELSE 0) + (IF plan.remove THEN 1 ELSE 0)
         /\ plan.add => FlagCommands[1] = "add"
         /\ ~plan.add /\ plan.remove => FlagCommands[1] = "remove"
         /\ plan.add /\ plan.remove => FlagCommands[2] = "remove"
<1> DEFINE A == IF plan.add THEN <<"add">> ELSE <<>>
           R == IF plan.remove THEN <<"remove">> ELSE <<>>
<1>1. /\ plan.add \in BOOLEAN /\ plan.remove \in BOOLEAN
      /\ "add" \in Command /\ "remove" \in Command
  BY DEF Plan, Command
<1>2. A \in Seq(Command) /\ Len(A) = (IF plan.add THEN 1 ELSE 0) /\ (plan.add => A[1] = "add")
  <2>1. A = IF plan.add THEN <<"add">> ELSE <<>>
    OBVIOUS
  <2> HIDE DEF A
  <2> QED
    BY <1>1, <2>1, Optional
<1>4. /\ R \in Seq(Command) /\ Len(R) = (IF plan.remove THEN 1 ELSE 0)
      /\ (plan.remove => R[1] = "remove")
  <2>1. R = IF plan.remove THEN <<"remove">> ELSE <<>>
    OBVIOUS
  <2> HIDE DEF R
  <2> QED
    BY <1>1, <2>1, Optional
<1>3. FlagCommands = A \o R
  BY DEF FlagCommands
<1> HIDE DEF A, R
<1>6. /\ A \o R \in Seq(Command) /\ Len(A \o R) = Len(A) + Len(R)
      /\ \A i \in 1..(Len(A) + Len(R)) :
           (A \o R)[i] = IF i <= Len(A) THEN A[i] ELSE R[i - Len(A)]
  BY <1>2, <1>4, Concat
<1> QED
  BY <1>1, <1>2, <1>3, <1>4, <1>6

LEMMA EnsuredShape ==
  ASSUME plan \in Plan
  PROVE  /\ Ensured \in Seq(Command)
         /\ Len(Ensured) = IF plan.ensure THEN 1 ELSE 0
         /\ plan.ensure => Ensured[1] = "create"
<1>1. plan.ensure \in BOOLEAN /\ "create" \in Command
  BY DEF Plan, Command
<1>2. Ensured = IF plan.ensure THEN <<"create">> ELSE <<>>
  BY DEF Ensured
<1> QED
  BY <1>1, <1>2, Optional

LEMMA Lengths ==
  ASSUME plan \in Plan
  PROVE  Len(Ensured) \in 0..1 /\ Len(FlagCommands) \in 0..2
<1>1. plan.add \in BOOLEAN /\ plan.remove \in BOOLEAN /\ plan.ensure \in BOOLEAN
  BY DEF Plan
<1>2. CASE plan.add
  BY <1>1, <1>2, FlagCommandsShape, EnsuredShape
<1>3. CASE ~plan.add
  BY <1>1, <1>3, FlagCommandsShape, EnsuredShape
<1> QED
  BY <1>2, <1>3

LEMMA FlagShape ==
  ASSUME plan \in Plan, plan.action = "flag"
  PROVE  Commands = FlagCommands /\ Len(Ensured) = 0
  BY EnsuredShape DEF Commands, Plan

LEMMA MoveShape ==
  ASSUME plan \in Plan, plan.action = "move"
  PROVE  LET e == Len(Ensured)
             f == Len(FlagCommands)
         IN  /\ Commands \in Seq(Command) /\ Len(Commands) = e + f + 1
             /\ e = 1 => Commands[1] = "create"
             /\ \A i \in 1..f : Commands[e + i] = FlagCommands[i]
             /\ Commands[e + f + 1] = "move"
<1>1. Commands = (Ensured \o FlagCommands) \o <<"move">>
  BY DEF Commands
<1> DEFINE P == Ensured \o FlagCommands
           M == <<"move">>
<1>2. /\ P \in Seq(Command) /\ Len(P) = Len(Ensured) + Len(FlagCommands)
      /\ \A i \in 1..(Len(Ensured) + Len(FlagCommands)) :
           P[i] = IF i <= Len(Ensured) THEN Ensured[i] ELSE FlagCommands[i - Len(Ensured)]
  BY FlagCommandsShape, EnsuredShape, Concat
<1>3. M \in Seq(Command) /\ Len(M) = 1 /\ M[1] = "move"
  BY DEF Command
<1> HIDE DEF P, M
<1>4. /\ P \o M \in Seq(Command) /\ Len(P \o M) = Len(P) + Len(M)
      /\ \A i \in 1..(Len(P) + Len(M)) :
           (P \o M)[i] = IF i <= Len(P) THEN P[i] ELSE M[i - Len(P)]
  BY <1>2, <1>3, Concat
<1>5. Commands = P \o M
  BY <1>1 DEF P, M
<1>6. Len(Ensured) \in 0..1 /\ Len(FlagCommands) \in 0..2
  BY Lengths
<1>7. \A i \in 1..Len(FlagCommands) : Commands[Len(Ensured) + i] = FlagCommands[i]
  BY <1>2, <1>3, <1>4, <1>5, <1>6
<1>8. Len(Ensured) = 1 => Commands[1] = "create"
  BY <1>2, <1>3, <1>4, <1>5, <1>6, EnsuredShape
<1>9. Commands[Len(Ensured) + Len(FlagCommands) + 1] = "move"
  BY <1>2, <1>3, <1>4, <1>5, <1>6
<1> QED
  BY <1>2, <1>3, <1>4, <1>5, <1>7, <1>8, <1>9

LEMMA CopyShape ==
  ASSUME plan \in Plan, plan.action = "copy"
  PROVE  LET e == Len(Ensured)
             f == Len(FlagCommands)
         IN  /\ Commands \in Seq(Command) /\ Len(Commands) = e + f + 1
             /\ e = 1 => Commands[1] = "create"
             /\ Commands[e + 1] = "copy"
             /\ \A i \in 1..f : Commands[e + 1 + i] = FlagCommands[i]
<1>1. Commands = (Ensured \o <<"copy">>) \o FlagCommands
  BY DEF Commands
<1> DEFINE M == <<"copy">>
           P == Ensured \o M
<1>2. M \in Seq(Command) /\ Len(M) = 1 /\ M[1] = "copy"
  BY DEF Command
<1>3. Commands = P \o FlagCommands
  BY <1>1
<1> HIDE DEF M
<1>4. /\ P \in Seq(Command) /\ Len(P) = Len(Ensured) + Len(M)
      /\ \A i \in 1..(Len(Ensured) + Len(M)) :
           P[i] = IF i <= Len(Ensured) THEN Ensured[i] ELSE M[i - Len(Ensured)]
  BY <1>2, EnsuredShape, Concat
<1> HIDE DEF P
<1>5. /\ P \o FlagCommands \in Seq(Command)
      /\ Len(P \o FlagCommands) = Len(P) + Len(FlagCommands)
      /\ \A i \in 1..(Len(P) + Len(FlagCommands)) : (P \o FlagCommands)[i] =
           IF i <= Len(P) THEN P[i] ELSE FlagCommands[i - Len(P)]
  BY <1>4, FlagCommandsShape, Concat
<1>6. Len(Ensured) \in 0..1 /\ Len(FlagCommands) \in 0..2
  BY Lengths
<1>7. \A i \in 1..Len(FlagCommands) : Commands[Len(Ensured) + 1 + i] = FlagCommands[i]
  BY <1>2, <1>3, <1>4, <1>5, <1>6
<1>8. Len(Ensured) = 1 => Commands[1] = "create"
  BY <1>2, <1>3, <1>4, <1>5, <1>6, EnsuredShape
<1>9. Commands[Len(Ensured) + 1] = "copy"
  BY <1>2, <1>3, <1>4, <1>5, <1>6
<1> QED
  BY <1>2, <1>3, <1>4, <1>5, <1>7, <1>8, <1>9

LEMMA DeleteShape ==
  ASSUME plan.action = "delete"
  PROVE  /\ Commands \in Seq(Command) /\ Len(Commands) = 4
         /\ Commands[1] = "store" /\ Commands[2] = "mark"
         /\ Commands[3] = "expunge" /\ Commands[4] = "search"
<1>1. Commands = <<"store", "mark", "expunge", "search">>
  BY DEF Commands
<1> QED
  BY <1>1 DEF Command

LEMMA CommandsType ==
  ASSUME plan \in Plan
  PROVE  Commands \in Seq(Command) /\ Len(Commands) \in 0..4
<1>1. plan.action \in {"flag", "move", "copy", "delete"}
  BY DEF Plan
<1>2. CASE plan.action = "flag"
  BY <1>2, FlagShape, FlagCommandsShape, Lengths
<1>3. CASE plan.action = "move"
  <2>1. Commands \in Seq(Command) /\ Len(Commands) = Len(Ensured) + Len(FlagCommands) + 1
    BY <1>3, MoveShape
  <2>2. Len(Commands) \in 0..4
    <3> DEFINE n == Len(Commands)
               e == Len(Ensured)
               f == Len(FlagCommands)
    <3>1. n = e + f + 1 /\ e \in 0..1 /\ f \in 0..2
      BY <2>1, Lengths
    <3> HIDE DEF n, e, f
    <3>2. n \in 0..4
      BY <3>1
    <3> QED
      BY <3>2 DEF n
  <2> QED
    BY <2>1, <2>2
<1>4. CASE plan.action = "copy"
  <2>1. Commands \in Seq(Command) /\ Len(Commands) = Len(Ensured) + Len(FlagCommands) + 1
    BY <1>4, CopyShape
  <2>2. Len(Commands) \in 0..4
    <3> DEFINE n == Len(Commands)
               e == Len(Ensured)
               f == Len(FlagCommands)
    <3>1. n = e + f + 1 /\ e \in 0..1 /\ f \in 0..2
      BY <2>1, Lengths
    <3> HIDE DEF n, e, f
    <3>2. n \in 0..4
      BY <3>1
    <3> QED
      BY <3>2 DEF n
  <2> QED
    BY <2>1, <2>2
<1>5. CASE plan.action = "delete"
  BY <1>5, DeleteShape
<1> QED
  BY <1>1, <1>2, <1>3, <1>4, <1>5

\* The commands among the first n that change messages.
Done(n) == {c \in Changing : \E j \in 1..n : Commands[j] = c}

\* `partial` is put on an error exactly if a command that changes messages came before it.
LEMMA PartialMeaning ==
  ASSUME plan \in Plan, NEW i \in 1..Len(Commands)
  PROVE  Partial(i) <=> Done(i - 1) # {}
<1>0. /\ plan.action \in {"flag", "move", "copy", "delete"}
      /\ plan.add \in BOOLEAN /\ plan.remove \in BOOLEAN /\ plan.ensure \in BOOLEAN
  BY DEF Plan
<1>7. Commands \in Seq(Command) /\ Len(Commands) \in 0..4
  BY CommandsType
<1>1. i \in 1..4 /\ i <= Len(Commands) /\ Len(Commands) \in 0..4
  <2> DEFINE n == Len(Commands)
  <2>1. i \in 1..n /\ n \in 0..4
    BY <1>7
  <2> HIDE DEF n
  <2>2. i \in 1..4 /\ i <= n /\ n \in 0..4
    BY <2>1
  <2> QED
    BY <2>2 DEF n
<1>2. Done(i - 1) # {} <=> \E j \in 1..(i - 1) : Commands[j] \in Changing
  BY DEF Done
<1>3. CASE plan.action = "flag"
  <2>1. Partial(i) <=> Commands[i] = "remove" /\ plan.add
    BY <1>3 DEF Partial
  <2>2. CASE plan.add
    BY <1>0, <1>1, <1>2, <1>3, <2>1, <2>2, FlagShape, FlagCommandsShape DEF Changing, Command
  <2>3. CASE ~plan.add
    <3> DEFINE n == Len(Commands)
    <3>1. n = (IF plan.remove THEN 1 ELSE 0)
      BY <1>0, <1>3, <2>3, FlagShape, FlagCommandsShape
    <3>2. i <= n
      BY <1>1
    <3> HIDE DEF n
    <3>3. i = 1
      BY <1>0, <1>1, <3>1, <3>2
    <3> QED
      BY <1>2, <2>1, <2>3, <3>3
  <2> QED
    BY <2>2, <2>3
<1>4. CASE plan.action = "move"
  <2>1. Partial(i) <=> (\/ Commands[i] = "remove" /\ plan.add
                        \/ Commands[i] = "move" /\ (plan.add \/ plan.remove))
    BY <1>4 DEF Partial
  <2> DEFINE e == Len(Ensured)
             f == Len(FlagCommands)
  <2>2. /\ e \in 0..1 /\ f \in 0..2 /\ Len(Commands) = e + f + 1
        /\ e = 1 => Commands[1] = "create"
        /\ f >= 1 => Commands[e + 1] = FlagCommands[1]
        /\ f = 2 => Commands[e + 2] = FlagCommands[2]
        /\ Commands[e + f + 1] = "move"
    BY <1>4, MoveShape, Lengths
  <2>3. f = (IF plan.add THEN 1 ELSE 0) + (IF plan.remove THEN 1 ELSE 0)
    BY FlagCommandsShape
  <2>4. /\ plan.add => FlagCommands[1] = "add"
        /\ ~plan.add /\ plan.remove => FlagCommands[1] = "remove"
        /\ plan.add /\ plan.remove => FlagCommands[2] = "remove"
    BY FlagCommandsShape
  <2> HIDE DEF e, f
  <2>5. CASE e = 0
    <3>1. CASE f = 0
      BY <1>0, <1>1, <1>2, <2>1, <2>2, <2>3, <2>5, <3>1
    <3>2. CASE f = 1
      BY <1>0, <1>1, <1>2, <2>1, <2>2, <2>3, <2>4, <2>5, <3>2 DEF Changing, Command
    <3>3. CASE f = 2
      BY <1>0, <1>1, <1>2, <2>1, <2>2, <2>3, <2>4, <2>5, <3>3 DEF Changing, Command
    <3> QED
      BY <2>2, <3>1, <3>2, <3>3
  <2>6. CASE e = 1
    <3>1. CASE f = 0
      BY <1>0, <1>1, <1>2, <2>1, <2>2, <2>3, <2>6, <3>1 DEF Changing, Command
    <3>2. CASE f = 1
      BY <1>0, <1>1, <1>2, <2>1, <2>2, <2>3, <2>4, <2>6, <3>2 DEF Changing, Command
    <3>3. CASE f = 2
      BY <1>0, <1>1, <1>2, <2>1, <2>2, <2>3, <2>4, <2>6, <3>3 DEF Changing, Command
    <3> QED
      BY <2>2, <3>1, <3>2, <3>3
  <2> QED
    BY <2>2, <2>5, <2>6
<1>5. CASE plan.action = "copy"
  <2>1. Partial(i) <=> i > Len(Ensured) + 1
    BY <1>5 DEF Partial
  <2>2. /\ Len(Ensured) \in 0..1 /\ (Len(Ensured) = 1 => Commands[1] = "create")
        /\ Commands[Len(Ensured) + 1] = "copy"
    BY <1>5, CopyShape, Lengths
  <2>3. CASE Len(Ensured) = 0
    BY <1>1, <1>2, <2>1, <2>2, <2>3 DEF Changing, Command
  <2>4. CASE Len(Ensured) = 1
    BY <1>1, <1>2, <2>1, <2>2, <2>4 DEF Changing, Command
  <2> QED
    BY <2>2, <2>3, <2>4
<1>6. CASE plan.action = "delete"
  <2>1. Partial(i) <=> i > 1
    BY <1>6 DEF Partial
  <2>2. Commands[1] = "store"
    BY <1>6, DeleteShape
  <2> QED
    BY <1>1, <1>2, <2>1, <2>2 DEF Changing, Command
<1> QED
  BY <1>0, <1>3, <1>4, <1>5, <1>6

-----------------------------------------------------------------------------
(* The inductive invariant.                                                *)

\* What the call has reached: the commands before the current one are confirmed, and the
\* capabilities of the plan were there when it began.
Progress ==
  /\ at \in 0..Len(Commands)
  /\ at > 0 => Supported
  /\ at = 0 => confirmed = {} /\ removed = {}
  /\ outcome = "none" /\ at > 0 => confirmed = Done(at - 1)

Gone == \A u \in Chunk : mail[u] = "absent"

\* A delete that has the empty answer to its SEARCH, from the mailbox it began in, has
\* left nothing; and only its third command takes messages out.
DeleteProgress ==
  plan.action = "delete" =>
    /\ at = 4 /\ wire = "OK" /\ link.same /\ found = {} => Gone
    /\ removed # {} => at >= 3

IInv == /\ TypeOK /\ Progress /\ DeleteProgress
        /\ PartialMeansChanged /\ AllConfirmed /\ DeleteMeansGone
        /\ OthersUntouched /\ ExpungeAfterStore

LEMMA InitIInv == Init => IInv
<1> SUFFICES ASSUME Init PROVE IInv
  OBVIOUS
<1>1. plan \in Plan /\ Commands \in Seq(Command) /\ Len(Commands) \in 0..4
  BY CommandsType DEF Init
<1>2. TypeOK
  BY BoundAssumption DEF Init, TypeOK
<1>3. Progress
  BY <1>1 DEF Init, Progress
<1>4. DeleteProgress /\ PartialMeansChanged /\ AllConfirmed /\ DeleteMeansGone
  BY DEF Init, DeleteProgress, PartialMeansChanged, AllConfirmed, DeleteMeansGone
<1>5. OthersUntouched /\ ExpungeAfterStore
  BY DEF Init, OthersUntouched, ExpungeAfterStore
<1> QED
  BY <1>2, <1>3, <1>4, <1>5 DEF IInv

\* The commands of a call do not change.
LEMMA SamePlan ==
  ASSUME plan' = plan
  PROVE  Commands' = Commands /\ \A n \in Nat : Done(n)' = Done(n)
<1>1. Commands' = Commands
  BY DEF Commands, FlagCommands, Ensured
<1> QED
  BY <1>1 DEF Done

LEMMA CallIInv == IInv /\ Call => IInv'
<1> SUFFICES ASSUME IInv, Call PROVE IInv'
  OBVIOUS
<1>1. /\ TypeOK /\ at = 0 /\ outcome = "none" /\ confirmed = {} /\ removed = {}
      /\ UNCHANGED <<plan, caps, mail, link, found, confirmed, removed, others>>
      /\ plan \in Plan
  BY DEF IInv, Call, Progress, TypeOK
<1>2. /\ Commands \in Seq(Command) /\ Len(Commands) \in 0..4 /\ Commands' = Commands
      /\ \A n \in Nat : Done(n)' = Done(n)
      /\ DOMAIN Commands = 1..Len(Commands)
  BY <1>1, CommandsType, SamePlan, LenProperties
<1>3. Done(0) = {}
  BY DEF Done
<1>4. Supported' = Supported
  BY <1>1 DEF Supported
<1>5. wire = "none"
  BY <1>1 DEF TypeOK
<1>6. Guarded(1) => Failed(1) = "error"
  BY DEF Guarded, Failed, Partial
<1>7. CASE ~Supported
  <2>1. outcome' = "error" /\ at' = 0 /\ wire' = "none"
    BY <1>1, <1>5, <1>7 DEF Call
  <2> QED
    BY <1>1, <1>2, <1>4, <1>7, <2>1 DEF IInv, TypeOK, Progress, DeleteProgress, PartialMeansChanged, AllConfirmed,
       DeleteMeansGone, OthersUntouched, ExpungeAfterStore
<1>8. CASE Supported /\ Guarded(1) /\ ~Selected
  <2>1. outcome' = "error" /\ at' = 0 /\ wire' = "none"
    BY <1>1, <1>6, <1>8 DEF Call, GoOn
  <2> QED
    BY <1>1, <1>2, <1>4, <2>1 DEF IInv, TypeOK, Progress, DeleteProgress, PartialMeansChanged, AllConfirmed,
       DeleteMeansGone, OthersUntouched, ExpungeAfterStore
<1>9. CASE Supported /\ ~(Guarded(1) /\ ~Selected) /\ 1 > Len(Commands)
  <2>1. outcome' = "ok" /\ at' = 0 /\ wire' = "none"
    BY <1>1, <1>5, <1>9 DEF Call, GoOn
  <2>2. plan.action # "delete"
    BY <1>9, DeleteShape
  <2>3. ToSet(Commands) = {}
    BY <1>2, <1>9 DEF ToSet
  <2> QED
    BY <1>1, <1>2, <1>4, <2>1, <2>2, <2>3 DEF IInv, TypeOK, Progress, DeleteProgress, PartialMeansChanged, AllConfirmed,
       DeleteMeansGone, OthersUntouched, ExpungeAfterStore
<1>10. CASE Supported /\ ~(Guarded(1) /\ ~Selected) /\ ~(1 > Len(Commands))
  <2>1. outcome' = "none" /\ at' = 1 /\ wire' = "sent"
    BY <1>1, <1>10 DEF Call, GoOn
  <2> QED
    BY <1>1, <1>2, <1>3, <1>4, <1>10, <2>1 DEF IInv, TypeOK, Progress, DeleteProgress, PartialMeansChanged, AllConfirmed,
       DeleteMeansGone, OthersUntouched, ExpungeAfterStore
<1> QED
  BY <1>7, <1>8, <1>9, <1>10

\* What holds while a command is on the wire.
LEMMA OnWire ==
  ASSUME IInv, wire # "none"
  PROVE  /\ TypeOK /\ plan \in Plan /\ Supported /\ outcome = "none"
         /\ at \in 1..Len(Commands) /\ at \in 1..4 /\ Len(Commands) \in 0..4
         /\ Current \in Command /\ confirmed = Done(at - 1)
<1>1. TypeOK /\ plan \in Plan /\ outcome = "none" /\ at # 0 /\ at \in 0..5
  BY DEF IInv, TypeOK
<1>2. at \in 1..Len(Commands) /\ Supported /\ confirmed = Done(at - 1)
  BY <1>1 DEF IInv, Progress
<1>3. Commands \in Seq(Command) /\ Len(Commands) \in 0..4
  BY <1>1, CommandsType
<1>4. Current \in Command
  BY <1>2, <1>3, ElementOfSeq DEF Current
<1>5. at \in 1..4
  <2> DEFINE n == Len(Commands)
  <2>1. at \in 1..n /\ n \in 0..4
    BY <1>2, <1>3
  <2> HIDE DEF n
  <2> QED
    BY <2>1
<1> QED
  BY <1>1, <1>2, <1>3, <1>4, <1>5

LEMMA DoneStep ==
  ASSUME plan \in Plan, at \in 1..4
  PROVE  Done(at) = Done(at - 1) \union ({Current} \intersect Changing)
  BY DEF Done, Current

LEMMA ReplyIInv == IInv /\ Reply => IInv'
<1> SUFFICES ASSUME IInv, Reply PROVE IInv'
  OBVIOUS
<1>1. /\ wire \in {"OK", "NO", "lost"} /\ wire # "none"
      /\ UNCHANGED <<plan, caps, mail, link, found, removed, others>>
      /\ confirmed' = confirmed \union
           (IF wire = "OK" THEN {Current} \intersect Changing ELSE {})
  BY DEF Reply
<1>2. /\ TypeOK /\ plan \in Plan /\ Supported /\ outcome = "none"
      /\ at \in 1..Len(Commands) /\ at \in 1..4 /\ Len(Commands) \in 0..4
      /\ Current \in Command /\ confirmed = Done(at - 1)
  BY <1>1, OnWire
<1>3. /\ Commands' = Commands /\ Supported' = Supported
      /\ \A n \in Nat : Done(n)' = Done(n)
  BY <1>1, SamePlan DEF Supported
<1>4. PICK result \in Results(Current, wire) :
        IF Accepted(Current, wire, result) THEN GoOn(at + 1) ELSE Fail
  BY DEF Reply
<1>5. Done(at) = Done(at - 1) \union ({Current} \intersect Changing)
  BY <1>2, DoneStep
<1>6. confirmed' \subseteq Changing /\ confirmed \subseteq confirmed'
  BY <1>1, <1>2 DEF Done
<1>7. CASE ~Accepted(Current, wire, result)
  <2>1. outcome' = Failed(at) /\ wire' = "none" /\ at' = at
    BY <1>4, <1>7 DEF Fail
  <2>2. wire = "OK" => Current = "search"
    BY <1>4, <1>7 DEF Accepted, Results
  <2>3. confirmed' = confirmed
    BY <1>1, <2>2 DEF Changing
  <2>4. Failed(at) = IF confirmed # {} THEN "partial" ELSE "error"
    BY <1>2, PartialMeaning DEF Failed
  <2> QED
    BY <1>1, <1>2, <1>3, <2>1, <2>3, <2>4
    DEF IInv, TypeOK, Progress, DeleteProgress, PartialMeansChanged, AllConfirmed,
       DeleteMeansGone, OthersUntouched, ExpungeAfterStore
<1>8. CASE Accepted(Current, wire, result)
  <2>1. wire = "OK" \/ Current \notin Changing
    BY <1>1, <1>4, <1>8 DEF Accepted, Results, Changing
  <2>2. confirmed' = Done(at)
    BY <1>1, <1>2, <1>5, <2>1
  <2>3. GoOn(at + 1)
    BY <1>4, <1>8
  <2>4. plan.action = "delete" => "store" \in Done(at)
    BY <1>2, DeleteShape DEF Done, Changing, Command
  <2>5. CASE Guarded(at + 1) /\ ~Selected
    <3>1. plan.action = "delete"
      BY <2>5 DEF Guarded
    <3>2. outcome' = "partial" /\ at' = at /\ wire' = "none"
      BY <1>2, <2>3, <2>5, <3>1 DEF GoOn, Failed, Partial
    <3> QED
      BY <1>1, <1>2, <1>3, <1>6, <2>2, <2>4, <3>1, <3>2
      DEF IInv, TypeOK, Progress, DeleteProgress, PartialMeansChanged, AllConfirmed,
       DeleteMeansGone, OthersUntouched, ExpungeAfterStore
  <2>6. CASE ~(Guarded(at + 1) /\ ~Selected) /\ at + 1 > Len(Commands)
    <3>1. outcome' = "ok" /\ at' = at /\ wire' = "none"
      BY <2>3, <2>6 DEF GoOn
    <3>2. at = Len(Commands)
      BY <1>2, <2>6
    <3>3. Done(at) = ToSet(Commands) \intersect Changing
      <4>1. DOMAIN Commands = 1..Len(Commands)
        BY <1>2, CommandsType, LenProperties
      <4> QED
        BY <3>2, <4>1 DEF Done, ToSet
    <3>4. plan.action = "delete" => Gone
      <4> SUFFICES ASSUME plan.action = "delete" PROVE Gone
        OBVIOUS
      <4>1. at = 4 /\ Current = "search"
        BY <3>2, DeleteShape DEF Current
      <4>2. wire = "OK" /\ found = {}
        BY <1>8, <4>1 DEF Accepted
      <4>3. link.same
        BY <2>6, <4>1 DEF Guarded, Selected
      <4> QED
        BY <4>1, <4>2, <4>3 DEF IInv, DeleteProgress
    <3>5. plan.action = "delete" => \A u \in Chunk : mail'[u] = "absent"
      BY <1>1, <3>4 DEF Gone
    <3> QED
      BY <1>1, <1>2, <1>3, <1>6, <2>2, <3>1, <3>3, <3>5
      DEF IInv, TypeOK, Progress, DeleteProgress, PartialMeansChanged, AllConfirmed,
       DeleteMeansGone, OthersUntouched, ExpungeAfterStore
  <2>7. CASE ~(Guarded(at + 1) /\ ~Selected) /\ ~(at + 1 > Len(Commands))
    <3>1. outcome' = "none" /\ at' = at + 1 /\ wire' = "sent"
      BY <2>3, <2>7 DEF GoOn
    <3>2. at' \in 0..Len(Commands)' /\ at' \in 0..5 /\ at' > 0
      BY <1>2, <1>3, <2>7, <3>1
    <3>3. confirmed' = Done(at - 1)'
      <4>1. at' - 1 = at
        BY <1>2, <3>1
      <4> QED
        BY <1>3, <2>2, <4>1 DEF Done
    <3> QED
      BY <1>1, <1>2, <1>3, <1>6, <3>1, <3>2, <3>3
      DEF IInv, TypeOK, Progress, DeleteProgress, PartialMeansChanged, AllConfirmed,
       DeleteMeansGone, OthersUntouched, ExpungeAfterStore
  <2> QED
    BY <2>5, <2>6, <2>7
<1> QED
  BY <1>7, <1>8

\* Only "move" moves, only "delete" expunges, and only with its third command.
LEMMA RemovingCommands ==
  ASSUME plan \in Plan, at \in 1..Len(Commands)
  PROVE  /\ Current = "move" => plan.action = "move"
         /\ Current = "expunge" => plan.action = "delete" /\ at = 3
<1>1. /\ plan.action \in {"flag", "move", "copy", "delete"}
      /\ plan.add \in BOOLEAN /\ plan.remove \in BOOLEAN
  BY DEF Plan
<1>2. \A i \in 1..Len(FlagCommands) : FlagCommands[i] \in {"add", "remove"}
  <2>1. CASE plan.add
    BY <1>1, <2>1, FlagCommandsShape
  <2>2. CASE ~plan.add
    BY <1>1, <2>2, FlagCommandsShape
  <2> QED
    BY <2>1, <2>2
<1>3. CASE plan.action = "flag"
  BY <1>2, <1>3, FlagShape DEF Current
<1> DEFINE e == Len(Ensured)
           f == Len(FlagCommands)
           n == Len(Commands)
<1>4. e \in 0..1 /\ f \in 0..2 /\ at \in 1..n
  BY Lengths
<1>5. CASE plan.action = "move"
  <2>1. /\ n = e + f + 1 /\ (e = 1 => Commands[1] = "create")
        /\ \A i \in 1..f : Commands[e + i] = FlagCommands[i]
    BY <1>5, MoveShape
  <2>2. \A i \in 1..f : Commands[e + i] \in {"add", "remove"}
    BY <1>2, <2>1
  <2> HIDE DEF e, f, n
  <2>3. (at = 1 /\ e = 1) \/ at - e \in 1..f \/ at = e + f + 1
    BY <1>4, <2>1
  <2>4. Commands[e + f + 1] = "move"
    BY <1>5, MoveShape DEF e, f
  <2>5. at - e \in 1..f => Commands[at] \in {"add", "remove"}
    <3>1. e + (at - e) = at
      BY <1>4
    <3> QED
      BY <2>2, <3>1
  <2> QED
    BY <1>5, <2>1, <2>3, <2>4, <2>5 DEF Current
<1>6. CASE plan.action = "copy"
  <2>1. /\ n = e + f + 1 /\ (e = 1 => Commands[1] = "create") /\ Commands[e + 1] = "copy"
        /\ \A i \in 1..f : Commands[e + 1 + i] = FlagCommands[i]
    BY <1>6, CopyShape
  <2>2. \A i \in 1..f : Commands[e + 1 + i] \in {"add", "remove"}
    BY <1>2, <2>1
  <2> HIDE DEF e, f, n
  <2>3. (at = 1 /\ e = 1) \/ at = e + 1 \/ at - e - 1 \in 1..f
    BY <1>4, <2>1
  <2>4. at - e - 1 \in 1..f => Commands[at] \in {"add", "remove"}
    <3>1. e + 1 + (at - e - 1) = at
      BY <1>4
    <3> QED
      BY <2>2, <3>1
  <2> QED
    BY <2>1, <2>3, <2>4 DEF Current
<1>7. CASE plan.action = "delete"
  <2>1. at \in 1..4
    BY <1>7, DeleteShape
  <2> QED
    BY <1>7, <2>1, DeleteShape DEF Current
<1> QED
  BY <1>1, <1>3, <1>5, <1>6, <1>7

LEMMA ExecuteIInv == IInv /\ Execute => IInv'
<1> SUFFICES ASSUME IInv, Execute PROVE IInv'
  OBVIOUS
<1> DEFINE gone == IF link.same THEN {u \in Expunges(Current) : mail[u] # "absent"} ELSE {}
           mark == IF link.same /\ Current \in {"store", "mark"} THEN Chunk ELSE {}
<1>1. /\ wire = "sent" /\ wire # "none" /\ wire' = "OK"
      /\ UNCHANGED <<plan, caps, link, at, outcome, confirmed, others>>
      /\ mail' = [u \in Uids |-> IF u \in gone THEN "absent"
                                 ELSE IF u \in mark /\ mail[u] = "present" THEN "marked"
                                 ELSE mail[u]]
      /\ removed' = removed \union gone
      /\ found' = IF Current = "search" /\ link.same
                  THEN {u \in Chunk : mail[u] # "absent"} ELSE {}
  BY DEF Execute
<1>2. /\ TypeOK /\ plan \in Plan /\ Supported /\ outcome = "none"
      /\ at \in 1..Len(Commands) /\ at \in 1..4 /\ confirmed = Done(at - 1)
  BY <1>1, OnWire
<1>3. /\ Commands' = Commands /\ Supported' = Supported
      /\ \A n \in Nat : Done(n)' = Done(n)
  BY <1>1, SamePlan DEF Supported
<1>4. /\ Current = "move" => plan.action = "move"
      /\ Current = "expunge" => plan.action = "delete" /\ at = 3
  BY <1>2, RemovingCommands
<1>5. /\ Expunges(Current) \subseteq Chunk
      /\ Expunges(Current) # {} => Current \in {"move", "expunge"}
  <2>1. CASE Current = "move"
    BY <1>2, <1>4, <2>1 DEF Expunges, Supported
  <2>2. CASE Current = "expunge"
    BY <1>2, <1>4, <2>2 DEF Expunges, Supported
  <2>3. CASE Current \notin {"move", "expunge"}
    BY <2>3 DEF Expunges
  <2> QED
    BY <2>1, <2>2, <2>3
<1>6. /\ gone \subseteq Chunk /\ gone \subseteq Uids
      /\ gone # {} => Current \in {"move", "expunge"}
  BY <1>5, ChunkAssumption
<1>7. mail' \in [Uids -> {"present", "marked", "absent"}]
  BY <1>1, <1>2 DEF TypeOK
<1> HIDE DEF gone, mark
<1>8. \A u \in Chunk : mail[u] = "absent" => mail'[u] = "absent"
  BY <1>1, ChunkAssumption
<1>9. TypeOK'
  BY <1>1, <1>2, <1>6, <1>7 DEF TypeOK
<1>10. Progress'
  <2>1. at' = at /\ at # 0 /\ confirmed' = confirmed /\ Done(at - 1)' = Done(at - 1)
    BY <1>1, <1>2, <1>3 DEF Done
  <2> QED
    BY <1>2, <1>3, <2>1 DEF Progress
<1>11. DeleteProgress'
  <2> SUFFICES ASSUME plan.action = "delete"
               PROVE  /\ at = 4 /\ link.same /\ found' = {} => Gone'
                      /\ removed' # {} => at >= 3
    BY <1>1 DEF DeleteProgress
  <2>1. ASSUME at = 4, link.same, found' = {} PROVE Gone'
    <3>1. Current = "search"
      BY <2>1, DeleteShape DEF Current
    <3>2. \A u \in Chunk : mail[u] = "absent"
      BY <1>1, <2>1, <3>1
    <3> QED
      BY <1>8, <3>2 DEF Gone
  <2>2. ASSUME removed' # {} PROVE at >= 3
    <3>1. CASE removed # {}
      BY <3>1 DEF IInv, DeleteProgress
    <3>2. CASE removed = {}
      BY <1>1, <1>4, <1>6, <2>2, <3>2
    <3> QED
      BY <3>1, <3>2
  <2> QED
    BY <2>1, <2>2
<1>12. PartialMeansChanged' /\ AllConfirmed' /\ DeleteMeansGone'
  BY <1>1, <1>2 DEF PartialMeansChanged, AllConfirmed, DeleteMeansGone
<1>13. OthersUntouched'
  BY <1>1, <1>4, <1>6 DEF IInv, OthersUntouched
<1>14. ExpungeAfterStore'
  <2> SUFFICES ASSUME plan.action = "delete", removed' # {}
               PROVE  "store" \in confirmed
    BY <1>1 DEF ExpungeAfterStore
  <2>1. at >= 3
    BY <1>1, <1>11 DEF DeleteProgress
  <2> QED
    BY <1>2, <2>1, DeleteShape DEF Done, Changing, Command
<1> QED
  BY <1>9, <1>10, <1>11, <1>12, <1>13, <1>14 DEF IInv

\* The steps that leave the call where it is.
LEMMA OutsideIInv ==
  IInv /\ (Refuse \/ Lose \/ Reselect \/ OtherClient \/ UNCHANGED vars) => IInv'
<1> SUFFICES ASSUME IInv, Refuse \/ Lose \/ Reselect \/ OtherClient \/ UNCHANGED vars
             PROVE  IInv'
  OBVIOUS
<1>1. UNCHANGED <<plan, caps, at, outcome, confirmed, removed>>
  BY DEF Refuse, Lose, Reselect, OtherClient, vars
<1>2. /\ Commands' = Commands /\ Supported' = Supported /\ Done(at - 1)' = Done(at - 1)
  <2>1. Commands' = Commands
    BY <1>1, SamePlan
  <2> QED
    BY <1>1, <2>1 DEF Supported, Done
<1>3. TypeOK'
  <2>1. TypeOK
    BY DEF IInv
  <2>2. CASE Refuse
    BY <2>1, <2>2 DEF TypeOK, Refuse
  <2>3. CASE Lose
    <3>1. wire' \in {"none", "OK", "NO", "lost"} /\ (wire' = "none") = (wire = "none")
      BY <2>1, <2>3 DEF TypeOK, Lose
    <3>2. link' \in [usable : BOOLEAN, same : BOOLEAN]
      BY <2>1, <2>3 DEF TypeOK, Lose
    <3>3. UNCHANGED <<mail, found, others>>
      BY <2>3 DEF Lose
    <3> QED
      BY <1>1, <2>1, <3>1, <3>2, <3>3 DEF TypeOK
  <2>4. CASE Reselect
    <3>1. link' \in [usable : BOOLEAN, same : BOOLEAN]
      BY <2>1, <2>4 DEF TypeOK, Reselect
    <3>2. others' \in 0..MaxOther /\ UNCHANGED <<mail, wire, found>>
      BY <2>1, <2>4, BoundAssumption DEF TypeOK, Reselect
    <3> QED
      BY <1>1, <2>1, <3>1, <3>2 DEF TypeOK
  <2>5. CASE OtherClient
    <3>1. mail' \in [Uids -> {"present", "marked", "absent"}]
      BY <2>1, <2>5 DEF TypeOK, OtherClient
    <3>2. others' \in 0..MaxOther /\ UNCHANGED <<link, wire, found>>
      BY <2>1, <2>5, BoundAssumption DEF TypeOK, OtherClient
    <3> QED
      BY <1>1, <2>1, <3>1, <3>2 DEF TypeOK
  <2>6. CASE UNCHANGED vars
    BY <2>1, <2>6 DEF TypeOK, vars
  <2> QED
    BY <2>2, <2>3, <2>4, <2>5, <2>6
<1>4. \A u \in Chunk : mail[u] = "absent" => mail'[u] = "absent"
  <2>1. CASE OtherClient
    BY <2>1, ChunkAssumption DEF IInv, TypeOK, OtherClient
  <2>2. CASE ~OtherClient
    BY <2>2 DEF Refuse, Lose, Reselect, vars
  <2> QED
    BY <2>1, <2>2
<1>5. wire' = "OK" /\ link'.same => wire = "OK" /\ link.same /\ found' = found
  <2>1. link \in [usable : BOOLEAN, same : BOOLEAN]
    BY DEF IInv, TypeOK
  <2>2. CASE Refuse
    BY <2>2 DEF Refuse
  <2>3. CASE Lose
    BY <2>1, <2>3 DEF Lose
  <2>4. CASE Reselect
    BY <2>1, <2>4 DEF Reselect
  <2>5. CASE OtherClient \/ UNCHANGED vars
    BY <2>5 DEF OtherClient, vars
  <2> QED
    BY <2>2, <2>3, <2>4, <2>5
<1>6. Progress'
  BY <1>1, <1>2 DEF IInv, Progress
<1>7. DeleteProgress' /\ DeleteMeansGone'
  <2>1. Gone => Gone'
    BY <1>4 DEF Gone
  <2>2. DeleteMeansGone'
    BY <1>1, <1>4 DEF IInv, DeleteMeansGone
  <2> QED
    BY <1>1, <1>5, <2>1, <2>2 DEF IInv, DeleteProgress
<1>8. PartialMeansChanged' /\ AllConfirmed' /\ OthersUntouched' /\ ExpungeAfterStore'
  BY <1>1, <1>2 DEF IInv, PartialMeansChanged, AllConfirmed, OthersUntouched, ExpungeAfterStore
<1> QED
  BY <1>3, <1>6, <1>7, <1>8 DEF IInv

-----------------------------------------------------------------------------
(* The theorems.                                                           *)

\* The inductive invariant holds: the five properties and what relates them to the progress
\* of the call through its commands.
THEOREM Inductive == Spec => []IInv
<1>1. IInv /\ [Next]_vars => IInv'
  BY CallIInv, ReplyIInv, ExecuteIInv, OutsideIInv DEF Next
<1> QED
  BY InitIInv, <1>1, PTL DEF Spec

\* The call's state keeps its type (executeAckActionRange, deleteUidRange).
THEOREM TypeCorrect == Spec => []TypeOK
<1>1. IInv => TypeOK
  BY DEF IInv
<1> QED
  BY Inductive, <1>1, PTL

\* A delete that deleteUidRange reports as successful has left no message of the chunk.
THEOREM DeleteCorrect == Spec => []DeleteMeansGone
<1>1. IInv => DeleteMeansGone
  BY DEF IInv
<1> QED
  BY Inductive, <1>1, PTL

\* No plan takes out a message outside its chunk: an ACK removes nothing it was not given for.
THEOREM RemovalCorrect == Spec => []OthersUntouched
<1>1. IInv => OthersUntouched
  BY DEF IInv
<1> QED
  BY Inductive, <1>1, PTL

\* A message of the chunk leaves by "delete" only after the STORE of \Deleted was confirmed.
THEOREM ExpungeCorrect == Spec => []ExpungeAfterStore
<1>1. IInv => ExpungeAfterStore
  BY DEF IInv
<1> QED
  BY Inductive, <1>1, PTL

\* A plan reported as successful had every one of its commands confirmed by the server.
THEOREM SuccessCorrect == Spec => []AllConfirmed
<1>1. IInv => AllConfirmed
  BY DEF IInv
<1> QED
  BY Inductive, <1>1, PTL

\* `partial` is reported exactly when an earlier command of a failed plan had changed messages.
THEOREM ResultCorrect == Spec => []PartialMeansChanged
<1>1. IInv => PartialMeansChanged
  BY DEF IInv
<1> QED
  BY Inductive, <1>1, PTL
=============================================================================
