----------------------------- MODULE AtLeastOnce -----------------------------
(***************************************************************************)
(* What a Kafka consumer group that commits by hand promises about one     *)
(* partition: the log only grows, every record whose offset lies below the *)
(* committed offset has had its effect, and an effect is never undone.     *)
(* The committed offset itself may move back (a member that lost and       *)
(* regained the partition commits late): that costs work, not data.        *)
(*                                                                         *)
(* `Offsets` are counted from 0, as Kafka counts them; log[o + 1] is the   *)
(* record at offset o.                                                     *)
(***************************************************************************)
EXTENDS Naturals, Sequences

CONSTANT Record

VARIABLES log,        \* the partition
          committed,  \* the group's committed offset: the next one to read
          effects     \* the offsets whose effect is durable

vars == <<log, committed, effects>>

Init ==
    /\ log = << >>
    /\ committed = 0
    /\ effects = {}

\* A producer appends.  The new record may have its effect already: it may
\* repeat an event that was handled under an earlier offset.
AppendRecord ==
    /\ \E r \in Record : log' = Append(log, r)
    /\ effects \subseteq effects'
    /\ effects' \subseteq 0 .. Len(log') - 1
    /\ UNCHANGED committed

\* Some records take effect, in any order and any number of times.
Deliver ==
    /\ effects \subseteq effects'
    /\ effects' \subseteq 0 .. Len(log) - 1
    /\ UNCHANGED <<log, committed>>

\* A commit covers nothing that has not had its effect.
Commit ==
    /\ committed' \in 0 .. Len(log)
    /\ 0 .. committed' - 1 \subseteq effects
    /\ UNCHANGED <<log, effects>>

Next == AppendRecord \/ Deliver \/ Commit

Spec == Init /\ [][Next]_vars
=============================================================================
