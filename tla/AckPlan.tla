------------------------------- MODULE AckPlan -------------------------------
(***************************************************************************)
(* lib/imap-ack-actions.js normalizeAckAction and validateAckActionPlan:    *)
(* what the configuration of an ACK node, or msg.imap.ackAction, asks for,  *)
(* and the plan the commands are taken from.                                *)
(*                                                                          *)
(* A flag is its name without a leading backslash and in lower case, with   *)
(* two marks for the way it is spelt: whether it has the backslash, and     *)
(* whether it has capitals.                                                 *)
(***************************************************************************)
EXTENDS Integers, Sequences, FiniteSets

CONSTANTS
  SystemFlags,     \* SYSTEM_FLAG_MAP
  ForbiddenFlags,  \* FORBIDDEN_SYSTEM_FLAGS
  Keywords,        \* other names that are atoms
  Unsendable,      \* names with characters an atom cannot have
  Rejected         \* stands for a thrown error

\* The names of system flags are neither forbidden nor badly written.
ASSUME FlagAssumption ==
  "seen" \in SystemFlags /\ SystemFlags \intersect (ForbiddenFlags \union Unsendable) = {}

VARIABLE request  \* what is asked for

Names == SystemFlags \union ForbiddenFlags \union Keywords \union Unsendable
Spellings == [name : Names, escaped : BOOLEAN, capital : BOOLEAN]

\* seen: seenAction or flags.seen; target: a target mailbox is given.
Requests(adds, removes) ==
  [from : {"node", "message"}, action : {"missing", "delete", "move", "copy", "flag", "other"},
   target : BOOLEAN, seen : {"ignore", "set", "clear", "other"}, add : adds, remove : removes]

\* The spelling in SYSTEM_FLAG_MAP.
System(name) == [name |-> name, escaped |-> TRUE, capital |-> TRUE]

\* normalizeFlagName throws.
Unusable(f) ==
  \/ f.name \in ForbiddenFlags
  \/ f.escaped /\ f.name \notin SystemFlags
  \/ f.name \in Unsendable

NormalizeFlagName(f) == IF f.name \in SystemFlags THEN System(f.name) ELSE f

\* The entries of a list at the positions in P, in their order.
Entries(list, P) ==
  [n \in 1..Cardinality(P) |-> list[CHOOSE k \in P : Cardinality({l \in P : l <= k}) = n]]

\* Mutant: duplicates are compared as they are spelt, so two spellings of one keyword stay.
DedupeFlags_Spelling(flags) ==
  Entries(flags, {k \in 1..Len(flags) : \A l \in 1..(k - 1) : flags[l] # flags[k]})

\* dedupeFlags: the first spelling of a name stays.
DedupeFlags(flags) ==
  Entries(flags, {k \in 1..Len(flags) : \A l \in 1..(k - 1) : flags[l].name # flags[k].name})

\* addFlagChange before addRawFlags, both through normalizeFlagName
Side(r, value, raw) ==
  DedupeFlags((IF r.seen = value THEN <<System("seen")>> ELSE <<>>)
              \o [k \in 1..Len(raw) |-> NormalizeFlagName(raw[k])])

FlagsOf(side) == {side[k].name : k \in 1..Len(side)}

\* validateAckActionPlan returns: target where there must be one, no flag on both sides, none on delete.
PlanValid(p) ==
  /\ p.action \in {"move", "copy"} <=> p.target
  /\ FlagsOf(p.add) \intersect FlagsOf(p.remove) = {}
  /\ p.action = "delete" => p.add = <<>> /\ p.remove = <<>>

Action(r) == IF r.action = "missing" THEN "delete" ELSE r.action

\* What normalizeAckAction makes of r, or a thrown error.
NormalizeAckAction(r) ==
  LET plan == [action |-> Action(r), target |-> r.target /\ Action(r) \in {"move", "copy"},
               add |-> Side(r, "set", r.add), remove |-> Side(r, "clear", r.remove)] IN
  IF \/ Action(r) = "other" \/ r.seen = "other"
     \/ \E k \in 1..Len(r.add) : Unusable(r.add[k])
     \/ \E k \in 1..Len(r.remove) : Unusable(r.remove[k])
     \/ ~PlanValid(plan)
  THEN Rejected ELSE plan

\* normalizeAckActionFromMessage insists on an action.
Plan == IF request.from = "message" /\ request.action = "missing" THEN Rejected ELSE NormalizeAckAction(request)

-----------------------------------------------------------------------------
\* What r asks to add (value "set") or to remove ("clear").
Asked(r, value, raw) == FlagsOf(raw) \union (IF r.seen = value THEN {"seen"} ELSE {})

\* A plan does what was asked for: every flag on its own side, each once, none on both and none the
\* server could not take; a message that names no action deletes nothing; and validating the plan
\* again, as every execution does, leaves it as it is.
PlanFaithful ==
  Plan # Rejected =>
    /\ FlagsOf(Plan.add) = Asked(request, "set", request.add)
    /\ FlagsOf(Plan.remove) = Asked(request, "clear", request.remove)
    /\ FlagsOf(Plan.add) \intersect FlagsOf(Plan.remove) = {}
    /\ \A side \in {Plan.add, Plan.remove} :
         /\ \A k, l \in 1..Len(side) : side[k].name = side[l].name => k = l
         /\ \A k \in 1..Len(side) : ~Unusable(side[k]) /\ NormalizeFlagName(side[k]) = side[k]
    /\ Plan.action = "delete" => request.action = "delete" \/ request.from = "node"
    /\ Plan.target => request.target
=============================================================================
