----------------------- MODULE MongoMaintenanceProofs -----------------------
(***************************************************************************)
(* Proofs about MongoMaintenance for every log, every number of events of  *)
(* the earlier version, every set of writers, every batch size and every   *)
(* number of failures: a start prepares the database and does not defeat   *)
(* itself, no document is forgotten by the TTL monitor, and a restore that *)
(* reported success put everything back.                                   *)
(***************************************************************************)
EXTENDS MongoMaintenance, FiniteSetTheorems, TLAPS

USE MaintenanceAssumption

WriterRec == [step : WriterStep, drop : SUBSET Coll, late : BOOLEAN]
RestoreRec == [step : RestoreStep, replace : BOOLEAN, source : Archive, todo : Docs,
               batch : Docs, done : BOOLEAN, alone : BOOLEAN, follow : BOOLEAN]

-----------------------------------------------------------------------------
(* The inductive invariant.                                                *)

\* One live document per aircraft, in words the provers can use.
Single(S) == \A e, f \in S : e = f

\* The database, the backup and what a restore reads have one live document.
LiveInv ==
    /\ Single(docs["live"]) /\ Single(archive.docs["live"])
    /\ Single(backup.read.docs["live"]) /\ Single(restore.source.docs["live"])

\* One owner of the partition is between its two writes, of an event of the log.
HalfInv ==
    \A w \in Writer : writer[w].step = "half" =>
        /\ next \in Event
        /\ \A v \in Writer : writer[v].step = "half" => v = w

\* A restore runs under compose only, where there is one consumer; a writer that was
\* started beside one leaves the next preparation to its successor.
FollowInv ==
    /\ platform \in {"compose", "kubernetes"}
    /\ restore.step # "idle" => restore.follow /\ platform = "compose" /\ ~restore.done
    /\ \A w \in Writer :
           /\ writer[w].step = "down" => ~writer[w].late
           /\ writer[w].late => restore.follow /\ platform = "compose"
           /\ writer[w].step # "down" /\ ~writer[w].late => restore.step = "idle"
           /\ writer[w].step # "down" /\ platform = "compose" => w = CHOOSE v \in Writer : TRUE

\* What a start has reached, step by step.
Stamped == {"ttl_raw", "verify_raw", "ttl_live", "verify_live", "check", "drop_raw",
            "drop_live", "poll", "half"}
RawIndexed == Stamped \ {"ttl_raw"}
LiveIndexed == {"verify_live", "check", "drop_raw", "drop_live", "poll", "half"}
Dropping == {"drop_raw", "drop_live"}

Prepared(w) ==
    /\ writer[w].step \in Stamped \union {"stamp_live"} => bare["raw"] = {}
    /\ writer[w].step \in Stamped => bare["live"] = {}
    /\ writer[w].step \in RawIndexed => index["raw"].ttl = "right"
    /\ writer[w].step \in LiveIndexed => index["live"].ttl = "right"
    /\ writer[w].step \in Dropping =>
           \A c \in Coll : c \notin writer[w].drop => ~index[c].old
    /\ writer[w].step \in {"drop_live", "poll", "half"} => ~index["raw"].old
    /\ writer[w].step \in {"poll", "half"} => ~index["live"].old

PreparedInv == \A w \in Writer : ~writer[w].late => Prepared(w)

\* What a restore still holds is of its archive; until it reads, it holds all of it.
HoldsInv ==
    /\ \A c \in Coll : /\ restore.todo[c] \subseteq restore.source.docs[c]
                       /\ restore.batch[c] \subseteq restore.source.docs[c]
    /\ restore.step \in {"count", "import", "drop_raw", "drop_live"} =>
           restore.todo = restore.source.docs /\ restore.batch = Nothing
    /\ restore.step \in {"rest_raw", "rest_live"} => restore.todo = Nothing
    /\ restore.step = "rest_live" => restore.batch["raw"] = {}

\* No record is lost between the archive and the database.
Kept ==
    /\ \A e \in restore.source.docs["raw"] :
           e \in docs["raw"] \union restore.todo["raw"] \union restore.batch["raw"] \/ e <= aged
    /\ \A e \in restore.source.docs["live"] :
           \/ e \in restore.todo["live"] \union restore.batch["live"] \/ e <= aged
           \/ \E f \in docs["live"] : f >= e

KeptInv == restore.step \in {"read", "rest_raw", "rest_live"} => Kept

\* Without a writer beside it, a restore leaves nothing of the former contents.
AloneInv ==
    restore.alone =>
        /\ restore.step # "idle" \/ restore.done => \A w \in Writer : writer[w].step = "down"
        /\ restore.step = "drop_live" => docs["raw"] \subseteq restore.source.docs["raw"]
        /\ restore.step \in {"read", "rest_raw", "rest_live"} \/ restore.done =>
               \A c \in Coll : docs[c] \subseteq restore.source.docs[c]

IInv ==
    /\ MmTypeOK /\ LiveInv /\ HalfInv /\ FollowInv /\ PreparedInv /\ EveryDocExpires
    /\ HoldsInv /\ KeptInv /\ AloneInv /\ RestoreComplete

-----------------------------------------------------------------------------
(* Types, and what an update of a record or of a collection leaves.        *)

LEMMA SingleCard == ASSUME NEW S \in SUBSET Event
                    PROVE  Cardinality(S) <= 1 <=> Single(S)
<1>1. IsFiniteSet(Event) /\ IsFiniteSet(S)
  <2>1. IsFiniteSet(1..MaxEvent)
    BY FS_Interval
  <2>2. QED
    BY <2>1, FS_Subset DEF Event
<1>2. CASE S = {}
  BY <1>2, FS_EmptySet DEF Single
<1>3. ASSUME NEW e \in S PROVE Cardinality(S) <= 1 <=> Single(S)
  <2>1. Cardinality({e}) = 1 /\ IsFiniteSet({e})
    BY FS_Singleton
  <2>2. ASSUME Single(S) PROVE Cardinality(S) <= 1
    <3>1. S = {e}
      BY <2>2 DEF Single
    <3>2. QED
      BY <3>1, <2>1
  <2>3. ASSUME Cardinality(S) <= 1 PROVE Single(S)
    <3>1. {e} \subseteq S
      OBVIOUS
    <3>2. Cardinality({e}) <= Cardinality(S) /\ Cardinality(S) \in Nat
      BY <1>1, <3>1, FS_Subset, FS_CardinalityType
    <3>3. Cardinality({e}) = Cardinality(S)
      BY <3>2, <2>1, <2>3
    <3>4. {e} = S
      BY <3>1, <3>3, <1>1, FS_Subset
    <3>5. QED
      BY <3>4 DEF Single
  <2>4. QED
    BY <2>2, <2>3
<1>4. QED
  BY <1>2, <1>3

Types ==
    /\ docs \in Docs /\ bare \in Docs /\ index \in [Coll -> Index]
    /\ dateless \subseteq 1..Legacy
    /\ \A c \in Coll : bare[c] \subseteq docs[c]
    /\ aged \in 0..MaxEvent /\ next \in 1..(MaxEvent + 1) /\ upsets \in 0..MaxUpsets
    /\ writer \in [Writer -> WriterRec]
    /\ backup \in [step : {"idle", "live"}, read : Archive] /\ archive \in Archive
    /\ restore \in RestoreRec

LEMMA TypeParts == MmTypeOK /\ LiveInv <=> Types /\ LiveInv
<1>1. docs \in Docs => docs["live"] \in SUBSET Event
  BY DEF Docs, Coll
<1>2. docs \in Docs => (Cardinality(docs["live"]) <= 1 <=> Single(docs["live"]))
  BY <1>1, SingleCard
<1>3. QED
  BY <1>2 DEF MmTypeOK, Types, LiveInv, WriterRec, RestoreRec

\* A process goes to a step; one that ends forgets what it knew.
LEMMA GoesOK ==
    ASSUME writer \in [Writer -> WriterRec], NEW w \in Writer, NEW s \in WriterStep, Goes(w, s)
    PROVE  /\ writer' \in [Writer -> WriterRec]
           /\ \A v \in Writer \ {w} : writer'[v] = writer[v]
           /\ writer'[w].step = s
           /\ s = "down" => ~writer'[w].late
           /\ s # "down" => /\ writer'[w].late = writer[w].late
                            /\ writer'[w].drop = writer[w].drop
<1>1. CASE s = "down"
  BY <1>1 DEF Goes, Off, WriterRec
<1>2. CASE s # "down"
  BY <1>2 DEF Goes, WriterRec
<1>3. QED
  BY <1>1, <1>2

\* A restore goes on to a step.
LEMMA ProceedsOK ==
    ASSUME restore \in RestoreRec, NEW s \in RestoreStep, Proceeds(s)
    PROVE  /\ restore' \in RestoreRec /\ restore'.step = s
           /\ restore'.replace = restore.replace /\ restore'.source = restore.source
           /\ restore'.todo = restore.todo /\ restore'.batch = restore.batch
           /\ restore'.done = restore.done /\ restore'.alone = restore.alone
           /\ restore'.follow = restore.follow
BY DEF Proceeds, RestoreRec

LEMMA NothingOK == /\ Nothing \in Docs /\ Empty \in Archive /\ NoRestore \in RestoreRec
                   /\ \A c \in Coll : Nothing[c] = {}
BY DEF Nothing, Docs, Empty, Archive, NoRestore, RestoreRec, RestoreStep

LEMMA FailsOK ==
    ASSUME restore \in RestoreRec, Fails
    PROVE  /\ restore' \in RestoreRec /\ restore'.step = "idle" /\ restore'.source = Empty
           /\ restore'.todo = Nothing /\ restore'.batch = Nothing
           /\ ~restore'.done /\ restore'.follow = restore.follow
<1>1. restore.follow \in BOOLEAN
  BY DEF RestoreRec
<1>2. NoRestore \in RestoreRec
  BY NothingOK
<1>3. restore' \in RestoreRec
  BY <1>1, <1>2 DEF Fails, RestoreRec
<1>4. QED
  BY <1>1, <1>3 DEF Fails, NoRestore

-----------------------------------------------------------------------------
(* The start of a writer.                                                  *)

\* What a step of a start may do: documents get dates, indexes get right, old ones go.
Improves ==
    \A c \in Coll : /\ bare'[c] \subseteq bare[c]
                    /\ index'[c].ttl \in {index[c].ttl, "right"}
                    /\ index'[c].old => index[c].old

\* Only w moves, and not into the middle of a message.
Moves(w) ==
    /\ writer[w].step # "down" /\ writer'[w].step # "half"
    /\ \A v \in Writer \ {w} : writer'[v] = writer[v]
    /\ writer'[w].step = "down" => ~writer'[w].late
    /\ writer'[w].step # "down" => writer'[w].late = writer[w].late

\* A restore may be relieved of the documents it left, else it stays as it is.
RestoreStays ==
    /\ restore'.step = restore.step /\ restore'.source = restore.source
    /\ restore'.todo = restore.todo /\ restore'.batch = restore.batch
    /\ restore'.done = restore.done /\ restore'.alone = restore.alone

LEMMA StartOK ==
    ASSUME IInv, NEW w \in Writer, Moves(w), Improves, RestoreStays, Types',
           UNCHANGED <<docs, aged, next, backup, archive>>,
           writer'[w].step # "down" /\ ~writer[w].late => Prepared(w)',
           FollowInv', EveryDocExpires'
    PROVE  IInv'
<1>1. LiveInv'
  BY DEF IInv, LiveInv, RestoreStays
<1>2. MmTypeOK'
  <2>1. (MmTypeOK /\ LiveInv <=> Types /\ LiveInv)'
    BY TypeParts, PTL
  <2>2. QED
    BY <1>1, <2>1
<1>3. HalfInv'
  BY DEF IInv, HalfInv, Moves
<1>4. PreparedInv'
  <2> SUFFICES ASSUME NEW v \in Writer, ~writer'[v].late
               PROVE  Prepared(v)'
    BY DEF PreparedInv
  <2>1. CASE v = w
    <3>1. CASE writer'[w].step = "down"
      BY <2>1, <3>1 DEF Prepared, Stamped, RawIndexed, LiveIndexed, Dropping
    <3>2. CASE writer'[w].step # "down"
      BY <2>1, <3>2 DEF Moves
    <3>3. QED
      BY <3>1, <3>2
  <2>2. CASE v # w
    <3>1. writer'[v] = writer[v] /\ Prepared(v)
      BY <2>2 DEF Moves, IInv, PreparedInv
    <3>2. QED
      BY <3>1 DEF Prepared, Improves, Coll
  <2>3. QED
    BY <2>1, <2>2
<1>5. HoldsInv' /\ KeptInv' /\ RestoreComplete'
  <2>1. HoldsInv'
    BY DEF IInv, HoldsInv, RestoreStays
  <2>2. KeptInv'
    BY DEF IInv, KeptInv, Kept, RestoreStays
  <2>3. RestoreComplete'
    BY DEF IInv, RestoreComplete, RestoreStays
  <2>4. QED
    BY <2>1, <2>2, <2>3
<1>6. AloneInv'
  BY DEF IInv, AloneInv, RestoreStays, Moves
<1>7. QED
  BY <1>1, <1>2, <1>3, <1>4, <1>5, <1>6 DEF IInv

\* If no restore changes, who moves from one step of a start to the next, or ends,
\* keeps the agreement between writers and restores.
LEMMA FollowOK ==
    ASSUME FollowInv, NEW w \in Writer, Moves(w), UNCHANGED <<restore, platform>>
    PROVE  FollowInv'
BY DEF FollowInv, Moves

\* Covering is never lost by an improvement.
LEMMA CoveredOK ==
    ASSUME Types, EveryDocExpires, Improves, UNCHANGED <<dateless, docs>>,
           \A c \in Coll : index'[c].old = index[c].old,
           restore'.follow = restore.follow
    PROVE  EveryDocExpires'
<1>1. ASSUME NEW c \in Coll, NEW e \in docs[c], Covered(c, e)
      PROVE  Covered(c, e)'
  BY <1>1 DEF Covered, Improves
<1>2. QED
  BY <1>1 DEF EveryDocExpires

LEMMA StampOK ==
    ASSUME IInv, NEW w \in Writer, NEW c \in Coll, Stamp(w, c), UNCHANGED <<platform, dateless>>
    PROVE  IInv'
<1> DEFINE step == IF c = "raw" THEN "stamp_live" ELSE "ttl_raw"
<1>0. Types /\ step \in WriterStep \ {"down", "half"} /\ writer[w].step # "down"
  BY TypeParts DEF IInv, WriterStep, Stamp, StampStep
<1>1. Goes(w, step) /\ bare' = [bare EXCEPT ![c] = {}]
  BY DEF Stamp
<1> HIDE DEF step
<1>2. Moves(w) /\ writer'[w].step = step /\ writer' \in [Writer -> WriterRec]
  BY <1>0, <1>1, GoesOK DEF Types, Moves
<1>3. bare'[c] = {} /\ \A d \in Coll \ {c} : bare'[d] = bare[d]
  BY <1>0, <1>1 DEF Types, Docs
<1>4. UNCHANGED <<docs, index, aged, next, backup, archive, restore, upsets>>
  BY DEF Stamp, Calm
<1>5. Improves /\ RestoreStays
  BY <1>3, <1>4 DEF Improves, RestoreStays
<1>6. Types'
  <2>1. bare' \in Docs
    BY <1>0, <1>1 DEF Types, Docs
  <2>2. QED
    BY <1>0, <1>2, <1>3, <1>4, <2>1 DEF Types
<1>7. ~writer[w].late => Prepared(w)'
  <2> SUFFICES ASSUME ~writer[w].late PROVE Prepared(w)'
    OBVIOUS
  <2>1. Prepared(w)
    BY DEF IInv, PreparedInv
  <2>2. CASE c = "raw"
    BY <1>2, <1>3, <2>2 DEF step, Prepared, Stamped, RawIndexed, LiveIndexed, Dropping
  <2>3. CASE c = "live"
    <3>1. writer[w].step = "stamp_live" /\ bare'["raw"] = bare["raw"]
      BY <1>3, <2>3 DEF Stamp, StampStep, Coll
    <3>2. writer'[w].step = "ttl_raw"
      BY <1>2, <2>3 DEF step
    <3>3. bare["raw"] = {}
      BY <2>1, <3>1 DEF Prepared
    <3>4. QED
      BY <1>3, <2>3, <3>1, <3>2, <3>3
         DEF Prepared, Stamped, RawIndexed, LiveIndexed, Dropping
  <2>4. QED
    BY <2>2, <2>3 DEF Coll
<1>8. EveryDocExpires'
  BY <1>0, <1>4, <1>5, CoveredOK DEF IInv
<1>9. FollowInv'
  BY <1>2, <1>4, FollowOK DEF IInv
<1>10. QED
  BY <1>2, <1>4, <1>5, <1>6, <1>7, <1>8, <1>9, StartOK

LEMMA EnsureTtlOK ==
    ASSUME IInv, NEW w \in Writer, NEW c \in Coll, EnsureTtl(w, c), UNCHANGED <<platform, dateless>>
    PROVE  IInv'
<1>0. Types /\ VerifyStep(c) \in WriterStep \ {"down", "half"} /\ writer[w].step # "down"
  BY TypeParts DEF IInv, WriterStep, EnsureTtl, TtlStep, VerifyStep
<1>f. CASE index[c].ttl = "foreign"
  <2>1. Goes(w, "down") /\ UNCHANGED <<docs, bare, index, aged, next, backup, archive, restore, upsets>>
    BY <1>f DEF EnsureTtl, Calm
  <2>2. "down" \in WriterStep
    BY DEF WriterStep
  <2>3. Moves(w) /\ writer'[w].step = "down" /\ writer' \in [Writer -> WriterRec]
    BY <1>0, <2>1, <2>2, GoesOK DEF Types, Moves
  <2>4. Improves /\ RestoreStays
    BY <2>1 DEF Improves, RestoreStays
  <2>5. Types'
    BY <1>0, <2>1, <2>3 DEF Types
  <2>6. FollowInv'
    BY <2>1, <2>3, FollowOK DEF IInv
  <2>7. EveryDocExpires'
    BY <1>0, <2>1, <2>4, CoveredOK DEF IInv
  <2>8. QED
    BY <2>1, <2>3, <2>4, <2>5, <2>6, <2>7, StartOK
<1> SUFFICES ASSUME index[c].ttl # "foreign" PROVE IInv'
  BY <1>f
<1>1. Goes(w, VerifyStep(c)) /\ index' = [index EXCEPT ![c].ttl = "right"]
  BY DEF EnsureTtl
<1>2. Moves(w) /\ writer'[w].step = VerifyStep(c) /\ writer' \in [Writer -> WriterRec]
  BY <1>0, <1>1, GoesOK DEF Types, Moves
<1>3. /\ index'[c].ttl = "right" /\ \A d \in Coll \ {c} : index'[d] = index[d]
      /\ index'[c].old = index[c].old /\ index' \in [Coll -> Index]
  BY <1>0, <1>1 DEF Types, Index
<1>4. UNCHANGED <<docs, bare, aged, next, backup, archive, restore, upsets>>
  BY DEF EnsureTtl, Calm
<1>5. Improves /\ RestoreStays
  <2>1. ASSUME NEW d \in Coll PROVE /\ index'[d].ttl \in {index[d].ttl, "right"}
                                    /\ index'[d].old => index[d].old
    BY <1>3
  <2>2. QED
    BY <1>4, <2>1 DEF Improves, RestoreStays
<1>6. Types'
  BY <1>0, <1>2, <1>3, <1>4 DEF Types
<1>7. ~writer[w].late => Prepared(w)'
  <2> SUFFICES ASSUME ~writer[w].late PROVE Prepared(w)'
    OBVIOUS
  <2>1. Prepared(w)
    BY DEF IInv, PreparedInv
  <2>2. CASE c = "raw"
    <3>1. writer[w].step = "ttl_raw" /\ writer'[w].step = "verify_raw"
      BY <1>2, <2>2 DEF EnsureTtl, TtlStep, VerifyStep
    <3>2. QED
      BY <1>3, <1>4, <2>1, <2>2, <3>1
         DEF Prepared, Stamped, RawIndexed, LiveIndexed, Dropping
  <2>3. CASE c = "live"
    <3>1. writer[w].step = "ttl_live" /\ writer'[w].step = "verify_live"
      BY <1>2, <2>3 DEF EnsureTtl, TtlStep, VerifyStep
    <3>2. index'["raw"] = index["raw"]
      BY <1>3, <2>3 DEF Coll
    <3>3. QED
      BY <1>3, <1>4, <2>1, <2>3, <3>1, <3>2
         DEF Prepared, Stamped, RawIndexed, LiveIndexed, Dropping
  <2>4. QED
    BY <2>2, <2>3 DEF Coll
<1>8. EveryDocExpires'
  <2>1. \A d \in Coll : index'[d].old = index[d].old
    BY <1>3
  <2>2. QED
    BY <1>0, <1>4, <1>5, <2>1, CoveredOK DEF IInv
<1>9. FollowInv'
  BY <1>2, <1>4, FollowOK DEF IInv
<1>10. QED
  BY <1>2, <1>4, <1>5, <1>6, <1>7, <1>8, <1>9, StartOK

LEMMA VerifyTtlOK ==
    ASSUME IInv, NEW w \in Writer, NEW c \in Coll, VerifyTtl(w, c), UNCHANGED <<platform, dateless>>
    PROVE  IInv'
<1> DEFINE step == IF index[c].ttl # "right" THEN "down"
                   ELSE IF c = "raw" THEN "ttl_live" ELSE "check"
<1>0. Types /\ step \in WriterStep \ {"half"} /\ writer[w].step # "down"
  BY TypeParts DEF IInv, WriterStep, VerifyTtl, VerifyStep
<1>1. Goes(w, step)
  BY DEF VerifyTtl
<1> HIDE DEF step
<1>2. Moves(w) /\ writer'[w].step = step /\ writer' \in [Writer -> WriterRec]
  BY <1>0, <1>1, GoesOK DEF Types, Moves
<1>4. UNCHANGED <<docs, bare, index, aged, next, backup, archive, restore, upsets>>
  BY DEF VerifyTtl, Calm, data
<1>5. Improves /\ RestoreStays
  BY <1>4 DEF Improves, RestoreStays
<1>6. Types'
  BY <1>0, <1>2, <1>4 DEF Types
<1>7. writer'[w].step # "down" /\ ~writer[w].late => Prepared(w)'
  <2> SUFFICES ASSUME ~writer[w].late, step # "down" PROVE Prepared(w)'
    BY <1>2
  <2>1. Prepared(w) /\ index[c].ttl = "right"
    BY DEF IInv, PreparedInv, step
  <2>2. CASE c = "raw"
    <3>1. writer[w].step = "verify_raw" /\ writer'[w].step = "ttl_live"
      BY <1>2, <2>1, <2>2 DEF VerifyTtl, VerifyStep, step
    <3>2. QED
      BY <1>4, <2>1, <2>2, <3>1
         DEF Prepared, Stamped, RawIndexed, LiveIndexed, Dropping
  <2>3. CASE c = "live"
    <3>1. writer[w].step = "verify_live" /\ writer'[w].step = "check"
      BY <1>2, <2>1, <2>3 DEF VerifyTtl, VerifyStep, step
    <3>3. QED
      BY <1>4, <2>1, <2>3, <3>1
         DEF Prepared, Stamped, RawIndexed, LiveIndexed, Dropping
  <2>4. QED
    BY <2>2, <2>3 DEF Coll
<1>8. EveryDocExpires'
  BY <1>4 DEF IInv, EveryDocExpires, Covered
<1>9. FollowInv'
  BY <1>2, <1>4, FollowOK DEF IInv
<1>10. QED
  BY <1>2, <1>4, <1>5, <1>6, <1>7, <1>8, <1>9, StartOK

LEMMA CheckMissingOK ==
    ASSUME IInv, NEW w \in Writer, CheckMissing(w), UNCHANGED <<platform, dateless>>
    PROVE  IInv'
<1> DEFINE drop == IF bare = Nothing THEN {c \in Coll : index[c].old} ELSE {}
<1>0. Types /\ writer[w].step = "check" /\ drop \in SUBSET Coll
  BY TypeParts DEF IInv, CheckMissing
<1>1. writer' = [writer EXCEPT ![w].step = "drop_raw", ![w].drop = drop]
  BY DEF CheckMissing
<1> HIDE DEF drop
<1>2. /\ writer'[w].step = "drop_raw" /\ writer'[w].drop = drop
      /\ writer'[w].late = writer[w].late
      /\ \A v \in Writer \ {w} : writer'[v] = writer[v]
      /\ writer' \in [Writer -> WriterRec]
  <2>1. [writer EXCEPT ![w].step = "drop_raw"] \in [Writer -> WriterRec]
    BY <1>0 DEF Types, WriterRec, WriterStep
  <2>2. writer' \in [Writer -> WriterRec]
    BY <1>0, <1>1, <2>1 DEF Types, WriterRec
  <2>3. QED
    BY <1>0, <1>1, <2>2 DEF Types, WriterRec
<1>3. Moves(w)
  BY <1>0, <1>2 DEF Moves
<1>4. UNCHANGED <<docs, bare, index, aged, next, backup, archive, restore, upsets>>
  BY DEF CheckMissing, Calm, data
<1>5. Improves /\ RestoreStays
  BY <1>4 DEF Improves, RestoreStays
<1>6. Types'
  BY <1>0, <1>2, <1>4 DEF Types
<1>7. ~writer[w].late => Prepared(w)'
  <2> SUFFICES ASSUME ~writer[w].late PROVE Prepared(w)'
    OBVIOUS
  <2>1. Prepared(w)
    BY DEF IInv, PreparedInv
  <2>2. bare["raw"] = {} /\ bare["live"] = {} /\ bare = Nothing
    <3>1. bare["raw"] = {} /\ bare["live"] = {}
      BY <1>0, <2>1 DEF Prepared, Stamped
    <3>2. QED
      BY <1>0, <3>1 DEF Types, Docs, Coll, Nothing
  <2>3. \A c \in Coll : c \notin drop => ~index[c].old
    BY <2>2 DEF drop
  <2>4. QED
    BY <1>0, <1>2, <1>4, <2>1, <2>2, <2>3
       DEF Prepared, Stamped, RawIndexed, LiveIndexed, Dropping
<1>8. EveryDocExpires'
  BY <1>4 DEF IInv, EveryDocExpires, Covered
<1>9. FollowInv'
  BY <1>3, <1>4, FollowOK DEF IInv
<1>10. QED
  BY <1>3, <1>4, <1>5, <1>6, <1>7, <1>8, <1>9, StartOK

LEMMA DownOK ==
    ASSUME IInv, NEW w \in Writer, Down(w) \/ Stop(w), UNCHANGED <<platform, dateless>>
    PROVE  IInv'
<1>0. Types /\ writer[w].step # "down" /\ "down" \in WriterStep
  BY TypeParts DEF IInv, WriterStep, Down, Stop
<1>1. Goes(w, "down")
  BY DEF Down, Stop
<1>2. /\ Moves(w) /\ writer'[w].step = "down" /\ writer' \in [Writer -> WriterRec]
  BY <1>0, <1>1, GoesOK DEF Types, Moves
<1>3. bare' \in Docs /\ \A c \in Coll : bare'[c] \subseteq bare[c]
  <2>1. CASE UNCHANGED bare
    BY <1>0, <2>1 DEF Types
  <2>2. ASSUME NEW c \in Coll, NEW S \in SUBSET Event, bare' = [bare EXCEPT ![c] = @ \ S]
        PROVE  bare' \in Docs /\ \A d \in Coll : bare'[d] \subseteq bare[d]
    BY <1>0, <2>2 DEF Types, Docs
  <2>3. QED
    BY <2>1, <2>2 DEF Down, Stop, data
<1>4. UNCHANGED <<docs, index, aged, next, backup, archive, restore>> /\ upsets' \in 0..MaxUpsets
  BY <1>0 DEF Down, Stop, Calm, Upset, data, Types
<1>5. Improves /\ RestoreStays
  BY <1>3, <1>4 DEF Improves, RestoreStays
<1>6. Types'
  <2>1. \A c \in Coll : bare'[c] \subseteq docs'[c]
    BY <1>0, <1>3, <1>4 DEF Types
  <2>2. QED
    BY <1>0, <1>2, <1>3, <1>4, <2>1 DEF Types
<1>8. EveryDocExpires'
  BY <1>0, <1>4, <1>5, CoveredOK DEF IInv
<1>9. FollowInv'
  BY <1>2, <1>4, FollowOK DEF IInv
<1>10. QED
  BY <1>2, <1>4, <1>5, <1>6, <1>8, <1>9, StartOK

\* The old index goes when the new one covers every document, or when a restore has
\* to be followed by another start anyway.
LEMMA DropOldOK ==
    ASSUME IInv, NEW w \in Writer, NEW c \in Coll, DropOld(w, c), UNCHANGED <<platform, dateless>>
    PROVE  IInv'
<1> DEFINE fine == c \notin writer[w].drop \/ index[c].old
           on == IF c = "raw" THEN "drop_live" ELSE "poll"
<1>0. Types /\ on \in WriterStep \ {"down", "half"} /\ writer[w].step = DropStep(c)
  BY TypeParts DEF IInv, WriterStep, DropOld
<1>1. DropStep(c) \in Dropping /\ Dropping \subseteq WriterStep \ {"down", "half"}
  BY DEF DropStep, Dropping, WriterStep
<1>2. /\ fine => Goes(w, on)
               /\ restore' = [restore EXCEPT !.follow = @ /\ (c = "raw" \/ writer[w].late)]
      /\ ~fine => Goes(w, "down") /\ UNCHANGED restore
  BY DEF DropOld
<1>3. /\ Moves(w) /\ writer' \in [Writer -> WriterRec]
      /\ fine => writer'[w].step = on /\ writer'[w].drop = writer[w].drop
      /\ ~fine => writer'[w].step = "down"
  <2>1. CASE fine
    <3> HIDE DEF fine, on
    <3>1. QED
      BY <1>0, <1>1, <1>2, <2>1, GoesOK DEF Types, Moves
  <2>2. CASE ~fine
    <3> HIDE DEF fine, on
    <3>1. "down" \in WriterStep
      BY DEF WriterStep
    <3>2. QED
      BY <1>0, <1>1, <1>2, <2>2, <3>1, GoesOK DEF Types, Moves
  <2>3. QED
    BY <2>1, <2>2
<1>4. UNCHANGED <<docs, bare, aged, next, backup, archive, upsets>>
  BY DEF DropOld
<1>5. /\ index' \in [Coll -> Index]
      /\ \A d \in Coll : /\ index'[d].ttl = index[d].ttl
                         /\ index'[d].old => index[d].old
                         /\ d # c => index'[d] = index[d]
      /\ c \in writer[w].drop => ~index'[c].old
      /\ c \notin writer[w].drop => index' = index
  BY <1>0 DEF DropOld, Types, Index
<1>6. RestoreStays /\ restore' \in RestoreRec
  <2>1. CASE ~fine
    BY <1>0, <1>2, <2>1 DEF RestoreStays, Types
  <2>2. CASE fine
    <3> HIDE DEF fine
    <3>1. restore.follow \in BOOLEAN /\ writer[w].late \in BOOLEAN
      BY <1>0 DEF Types, RestoreRec, WriterRec
    <3> DEFINE f == restore.follow /\ (c = "raw" \/ writer[w].late)
    <3>2. f \in BOOLEAN /\ restore' = [restore EXCEPT !.follow = f]
      BY <1>2, <2>2, <3>1
    <3> HIDE DEF f
    <3>3. QED
      BY <1>0, <3>2 DEF Types, RestoreRec, RestoreStays
  <2>3. QED
    BY <2>1, <2>2
<1>7. /\ restore'.follow => restore.follow
      /\ restore.follow /\ ~restore'.follow => c = "live" /\ ~writer[w].late
  <2>1. CASE ~fine
    BY <1>2, <2>1
  <2>2. CASE fine
    <3>1. restore'.follow = (restore.follow /\ (c = "raw" \/ writer[w].late))
      BY <1>0, <1>2, <2>2 DEF Types, RestoreRec
    <3>2. QED
      BY <3>1 DEF Coll
  <2>3. QED
    BY <2>1, <2>2
<1>8. Improves
  BY <1>4, <1>5 DEF Improves
<1>9. Types'
  BY <1>0, <1>3, <1>4, <1>5, <1>6 DEF Types
<1>10. ~writer[w].late => /\ Prepared(w) /\ writer[w].step \in Stamped
                         /\ writer[w].step \in RawIndexed /\ writer[w].step \in LiveIndexed
                         /\ \A d \in Coll : bare[d] = {} /\ index[d].ttl = "right"
  <2> SUFFICES ASSUME ~writer[w].late
               PROVE  /\ Prepared(w) /\ writer[w].step \in Stamped
                      /\ writer[w].step \in RawIndexed /\ writer[w].step \in LiveIndexed
                      /\ \A d \in Coll : bare[d] = {} /\ index[d].ttl = "right"
    OBVIOUS
  <2>1. Prepared(w)
    BY DEF IInv, PreparedInv
  <2>2. /\ writer[w].step \in Stamped
        /\ writer[w].step \in RawIndexed /\ writer[w].step \in LiveIndexed
    BY <1>0, <1>1 DEF Dropping, Stamped, RawIndexed, LiveIndexed
  <2>3. QED
    BY <2>1, <2>2 DEF Prepared, Coll
<1>11. writer'[w].step # "down" /\ ~writer[w].late => Prepared(w)'
  <2> SUFFICES ASSUME fine, ~writer[w].late PROVE Prepared(w)'
    BY <1>3
  <2>1. \A d \in Coll : bare'[d] = {} /\ index'[d].ttl = "right"
    BY <1>4, <1>5, <1>10
  <2>2. ~index'[c].old /\ \A d \in Coll : d \notin writer'[w].drop => ~index'[d].old
    BY <1>0, <1>1, <1>3, <1>5, <1>10 DEF Prepared
  <2>3. CASE c = "raw"
    <3>1. writer'[w].step = "drop_live"
      BY <1>3, <2>3
    <3>2. QED
      BY <2>1, <2>2, <2>3, <3>1 DEF Prepared, Coll
  <2>4. CASE c = "live"
    <3>1. writer'[w].step = "poll" /\ writer[w].step = "drop_live"
      BY <1>0, <1>3, <2>4 DEF DropStep
    <3>2. ~index'["raw"].old
      BY <1>5, <1>10, <3>1 DEF Prepared, Coll
    <3>3. QED
      BY <2>1, <2>2, <2>4, <3>1, <3>2 DEF Prepared, Coll, Dropping
  <2>5. QED
    BY <2>3, <2>4 DEF Coll
<1>12. EveryDocExpires'
  <2> SUFFICES ASSUME ~restore'.follow, NEW d \in Coll, NEW e \in docs'[d]
               PROVE  Covered(d, e)'
    BY DEF EveryDocExpires
  <2>1. CASE writer[w].late
    <3>1. restore.follow
      BY <2>1 DEF IInv, FollowInv
    <3>2. QED
      BY <1>7, <2>1, <3>1
  <2>2. CASE ~writer[w].late
    BY <1>4, <1>5, <1>10, <2>2 DEF Covered
  <2>3. QED
    BY <2>1, <2>2
<1>13. FollowInv'
  <2>1. FollowInv /\ restore'.step = restore.step /\ restore'.done = restore.done
    BY <1>6 DEF IInv, RestoreStays
  <2>2. restore.step # "idle" => restore'.follow
    BY <1>0, <1>1, <1>7, <2>1 DEF FollowInv
  <2>3. ASSUME NEW v \in Writer, writer'[v].late
        PROVE  restore'.follow /\ platform = "compose"
    <3>1. writer[v].late /\ restore.follow /\ platform = "compose" /\ writer[v].step # "down"
      BY <1>1, <2>1, <2>3, <1>3 DEF FollowInv, Moves
    <3>2. v = w
      BY <1>0, <1>1, <2>1, <3>1 DEF FollowInv
    <3>3. QED
      BY <1>7, <3>1, <3>2
  <2>4. QED
    BY <1>3, <2>1, <2>2, <2>3 DEF FollowInv, Moves
<1>14. QED
  BY <1>3, <1>4, <1>6, <1>8, <1>9, <1>11, <1>12, <1>13, StartOK

\* A new process has reached nothing yet.
LEMMA RunOK ==
    ASSUME IInv, NEW w \in Writer, Run(w), UNCHANGED <<platform, dateless>>
    PROVE  IInv'
<1>0. Types /\ writer[w].step = "down" /\ "stamp_raw" \in WriterStep
  BY TypeParts DEF IInv, WriterStep, Run
<1>1. UNCHANGED <<docs, bare, index, aged, next, backup, archive, upsets>>
  BY DEF Run, data
<1>2. /\ restore' \in RestoreRec /\ restore'.step = restore.step /\ ~restore'.alone
      /\ restore'.source = restore.source /\ restore'.todo = restore.todo
      /\ restore'.batch = restore.batch /\ restore'.done = restore.done
      /\ restore'.follow = restore.follow
  BY <1>0 DEF Run, Types, RestoreRec
<1>3. /\ writer'[w].step = "stamp_raw" /\ writer'[w].late = (restore.step # "idle")
      /\ \A v \in Writer \ {w} : writer'[v] = writer[v]
      /\ writer' \in [Writer -> WriterRec]
  <2> DEFINE l == restore.step # "idle"
  <2>1. l \in BOOLEAN /\ writer' = [writer EXCEPT ![w].step = "stamp_raw", ![w].late = l]
    BY DEF Run
  <2> HIDE DEF l
  <2>2. [writer EXCEPT ![w].step = "stamp_raw"] \in [Writer -> WriterRec]
    BY <1>0 DEF Types, WriterRec
  <2>3. writer' \in [Writer -> WriterRec]
    BY ZenonT(30), <1>0, <2>1, <2>2 DEF Types, WriterRec
  <2>4. writer'[w].step = "stamp_raw" /\ writer'[w].late = l
        /\ \A v \in Writer \ {w} : writer'[v] = writer[v]
    BY <1>0, <2>1, <2>3 DEF Types, WriterRec
  <2>5. QED
    BY <2>3, <2>4 DEF l
<1>4. Types'
  BY <1>0, <1>1, <1>2, <1>3 DEF Types
<1>5. LiveInv' /\ MmTypeOK'
  <2>1. LiveInv'
    BY <1>1, <1>2 DEF IInv, LiveInv
  <2>2. (MmTypeOK /\ LiveInv <=> Types /\ LiveInv)'
    BY TypeParts, PTL
  <2>3. QED
    BY <1>4, <2>1, <2>2
<1>6. HalfInv'
  BY <1>1, <1>3 DEF IInv, HalfInv
<1>7. PreparedInv'
  <2> SUFFICES ASSUME NEW v \in Writer, ~writer'[v].late PROVE Prepared(v)'
    BY DEF PreparedInv
  <2>1. CASE v = w
    BY <1>3, <2>1 DEF Prepared, Stamped, RawIndexed, LiveIndexed, Dropping
  <2>2. CASE v # w
    BY <1>1, <1>3, <2>2 DEF IInv, PreparedInv, Prepared
  <2>3. QED
    BY <2>1, <2>2
<1>8. FollowInv'
  <2>1. FollowInv /\ (platform = "compose" => w = CHOOSE v \in Writer : TRUE)
    BY DEF IInv, Run
  <2>2. QED
    BY <1>2, <1>3, <2>1 DEF FollowInv
<1>9. EveryDocExpires' /\ HoldsInv' /\ KeptInv' /\ AloneInv' /\ RestoreComplete'
  <2>1. EveryDocExpires'
    BY <1>1, <1>2 DEF IInv, EveryDocExpires, Covered
  <2>2. HoldsInv'
    BY <1>2 DEF IInv, HoldsInv
  <2>3. KeptInv'
    BY <1>1, <1>2 DEF IInv, KeptInv, Kept
  <2>4. AloneInv'
    BY <1>2 DEF AloneInv
  <2>5. RestoreComplete'
    BY <1>1, <1>2 DEF IInv, RestoreComplete
  <2>6. QED
    BY <2>1, <2>2, <2>3, <2>4, <2>5
<1>10. QED
  BY <1>5, <1>6, <1>7, <1>8, <1>9 DEF IInv

-----------------------------------------------------------------------------
(* The writer's loop, the passing of time and the TTL monitor.             *)

\* What a message or the TTL monitor leaves of the agreement of all the others: no
\* process starts or ends, and a restore stays as it is.
Loops ==
    /\ UNCHANGED <<platform, restore, index>>
    /\ \A c \in Coll : bare'[c] \subseteq bare[c]
    /\ \A v \in Writer :
           writer'[v] = writer[v]
           \/ /\ {writer[v].step, writer'[v].step} \subseteq {"poll", "half"}
              /\ writer'[v].late = writer[v].late

LEMMA LoopsOK ==
    ASSUME IInv, Loops
    PROVE  FollowInv' /\ PreparedInv' /\ HoldsInv'
<1>1. FollowInv'
  <2>1. FollowInv /\ UNCHANGED <<platform, restore>>
    BY DEF IInv, Loops
  <2>2. \A v \in Writer : /\ writer'[v].late = writer[v].late
                          /\ (writer'[v].step = "down") = (writer[v].step = "down")
    BY DEF Loops
  <2>3. QED
    BY <2>1, <2>2 DEF FollowInv
<1>2. PreparedInv'
  <2> SUFFICES ASSUME NEW v \in Writer, ~writer'[v].late PROVE Prepared(v)'
    BY DEF PreparedInv
  <2>1. ~writer[v].late /\ Prepared(v)
    BY DEF IInv, PreparedInv, Loops
  <2>2. (\A c \in Coll : bare'[c] \subseteq bare[c]) /\ index' = index
    BY DEF Loops
  <2>3. CASE writer'[v] = writer[v]
    BY <2>1, <2>2, <2>3 DEF Prepared, Coll
  <2>4. CASE writer[v].step \in {"poll", "half"} /\ writer'[v].step \in {"poll", "half"}
    BY <2>1, <2>2, <2>4 DEF Prepared, Coll, Stamped, RawIndexed, LiveIndexed, Dropping
  <2>5. QED
    BY <2>3, <2>4 DEF Loops
<1>3. HoldsInv'
  BY DEF IInv, HoldsInv, Loops
<1>4. QED
  BY <1>1, <1>2, <1>3

\* A restore that nobody accompanied has seen no writer since it began.
LEMMA NotAlone ==
    ASSUME AloneInv, NEW w \in Writer, writer[w].step # "down", restore.alone
    PROVE  restore.step = "idle" /\ ~restore.done
BY DEF AloneInv

LEMMA TypedLive ==
    ASSUME Types', LiveInv'
    PROVE  MmTypeOK'
<1>1. (MmTypeOK /\ LiveInv <=> Types /\ LiveInv)'
  BY TypeParts, PTL
<1>2. QED
  BY <1>1

\* A writer that polls is covered: what it stores expires.
LEMMA PollCovered ==
    ASSUME IInv, NEW w \in Writer, writer[w].step \in {"poll", "half"}, ~restore.follow,
           NEW c \in Coll
    PROVE  bare[c] = {} /\ index[c].ttl = "right"
<1>1. Prepared(w)
  BY DEF IInv, FollowInv, PreparedInv
<1>2. QED
  BY <1>1 DEF Prepared, Coll, Stamped, RawIndexed, LiveIndexed

LEMMA WriteRawOK ==
    ASSUME IInv, NEW w \in Writer, WriteRaw(w), UNCHANGED <<platform, dateless>>
    PROVE  IInv'
<1>0. Types /\ writer[w].step = "poll" /\ next \in Event /\ "half" \in WriterStep \ {"down"}
  BY TypeParts DEF IInv, WriterStep, WriteRaw
<1>1. Goes(w, "half") /\ docs' = [docs EXCEPT !["raw"] = @ \union {next}]
  BY DEF WriteRaw
<1>2. UNCHANGED <<bare, index, aged, next, backup, archive, restore, upsets>>
  BY DEF WriteRaw, Calm
<1>3. /\ writer' \in [Writer -> WriterRec] /\ \A v \in Writer \ {w} : writer'[v] = writer[v]
      /\ writer'[w].step = "half" /\ writer'[w].late = writer[w].late
  BY <1>0, <1>1, GoesOK DEF Types
<1>4. docs' \in Docs /\ docs'["raw"] = docs["raw"] \union {next} /\ docs'["live"] = docs["live"]
  BY <1>0, <1>1 DEF Types, Docs, Coll
<1>5. Types'
  BY <1>0, <1>2, <1>3, <1>4 DEF Types, Coll
<1>6. Loops
  <2>1. ASSUME NEW v \in Writer
        PROVE  writer'[v] = writer[v]
               \/ /\ {writer[v].step, writer'[v].step} \subseteq {"poll", "half"}
                  /\ writer'[v].late = writer[v].late
    BY <1>0, <1>3
  <2>2. QED
    BY <1>2, <2>1 DEF Loops
<1>7. LiveInv'
  BY <1>2, <1>4 DEF IInv, LiveInv
<1>8. HalfInv'
  <2>1. \A v \in Writer : writer[v].step # "half"
    BY DEF WriteRaw
  <2>2. QED
    BY <1>0, <1>2, <1>3, <2>1 DEF HalfInv
<1>9. EveryDocExpires'
  <2> SUFFICES ASSUME ~restore.follow, NEW c \in Coll, NEW e \in docs'[c]
               PROVE  Covered(c, e)'
    BY <1>2 DEF EveryDocExpires
  <2>1. bare[c] = {} /\ index[c].ttl = "right"
    BY <1>0, PollCovered
  <2>2. QED
    BY <1>2, <2>1 DEF Covered
<1>10. KeptInv' /\ RestoreComplete' /\ AloneInv'
  <2>1. restore.alone => restore.step = "idle" /\ ~restore.done
    BY <1>0, NotAlone DEF IInv
  <2>2. AloneInv'
    BY <1>2, <2>1 DEF AloneInv
  <2>3. KeptInv'
    BY <1>2, <1>4 DEF IInv, KeptInv, Kept
  <2>4. RestoreComplete'
    BY <1>2, <1>4, <2>1 DEF IInv, RestoreComplete
  <2>5. QED
    BY <2>2, <2>3, <2>4
<1>11. QED
  BY <1>5, <1>6, <1>7, <1>8, <1>9, <1>10, LoopsOK, TypedLive DEF IInv

\* A newer event takes the place of an older one in the live collection.
LEMMA WriteLiveOK ==
    ASSUME IInv, NEW w \in Writer, WriteLive(w), UNCHANGED <<platform, dateless>>
    PROVE  IInv'
<1>0. Types /\ writer[w].step = "half" /\ next \in Event /\ "poll" \in WriterStep \ {"down"}
  BY TypeParts DEF IInv, WriterStep, WriteLive, HalfInv
<1>1. Goes(w, "poll") /\ next' = next + 1
  BY DEF WriteLive
<1>2. UNCHANGED <<index, aged, backup, archive, restore, upsets>>
  BY DEF WriteLive
<1>3. /\ writer' \in [Writer -> WriterRec] /\ \A v \in Writer \ {w} : writer'[v] = writer[v]
      /\ writer'[w].step = "poll" /\ writer'[w].late = writer[w].late
  BY <1>0, <1>1, GoesOK DEF Types
<1>4. /\ docs' \in Docs /\ bare' \in Docs
      /\ docs'["raw"] = docs["raw"] /\ bare'["raw"] = bare["raw"]
      /\ \/ UNCHANGED <<docs, bare>>
         \/ /\ docs'["live"] = {next} /\ bare'["live"] = {}
            /\ \A e \in docs["live"] : e < next
  BY <1>0 DEF Types, Docs, Coll, WriteLive
<1>5. Types'
  <2>1. next' \in 1..(MaxEvent + 1)
    BY <1>0, <1>1 DEF Event
  <2>2. \A c \in Coll : bare'[c] \subseteq docs'[c]
    BY <1>0, <1>4 DEF Types, Coll
  <2>3. QED
    BY <1>0, <1>2, <1>3, <1>4, <2>1, <2>2 DEF Types
<1>6. Loops
  <2>1. ASSUME NEW v \in Writer
        PROVE  writer'[v] = writer[v]
               \/ /\ {writer[v].step, writer'[v].step} \subseteq {"poll", "half"}
                  /\ writer'[v].late = writer[v].late
    BY <1>0, <1>3
  <2>2. \A c \in Coll : bare'[c] \subseteq bare[c]
    BY <1>4 DEF Coll
  <2>3. QED
    BY <1>2, <2>1, <2>2 DEF Loops
<1>7. LiveInv'
  <2>1. Single(docs'["live"])
    BY <1>4 DEF IInv, LiveInv, Single
  <2>2. QED
    BY <1>2, <2>1 DEF IInv, LiveInv
<1>8. HalfInv'
  BY <1>0, <1>3 DEF IInv, HalfInv
<1>9. EveryDocExpires'
  <2> SUFFICES ASSUME ~restore.follow, NEW c \in Coll, NEW e \in docs'[c]
               PROVE  Covered(c, e)'
    BY <1>2 DEF EveryDocExpires
  <2>1. bare[c] = {} /\ index[c].ttl = "right"
    BY <1>0, PollCovered
  <2>2. QED
    BY <1>2, <1>6, <2>1 DEF Covered, Loops
<1>10. KeptInv' /\ RestoreComplete' /\ AloneInv'
  <2>1. restore.alone => restore.step = "idle" /\ ~restore.done
    BY <1>0, NotAlone DEF IInv
  <2>2. AloneInv'
    BY <1>2, <2>1 DEF AloneInv
  <2>3. ASSUME NEW e \in Event, \E f \in docs["live"] : f >= e
        PROVE  \E f \in docs'["live"] : f >= e
    <3>1. CASE UNCHANGED docs
      BY <2>3, <3>1
    <3>2. CASE docs'["live"] = {next} /\ \A f \in docs["live"] : f < next
      <4>1. PICK f \in docs["live"] : f >= e
        BY <2>3
      <4>2. f < next /\ f \in Int /\ e \in Int /\ next \in Int
        BY <1>0, <3>2, <4>1 DEF Types, Docs, Coll, Event
      <4>3. next >= e
        BY <4>1, <4>2
      <4>4. QED
        BY <3>2, <4>3
    <3>3. QED
      BY <1>4, <3>1, <3>2
  <2>4. restore.source.docs["live"] \subseteq Event
    BY <1>0 DEF Types, RestoreRec, Archive, Docs, Coll
  <2>5. KeptInv'
    BY <1>2, <1>4, <2>3, <2>4 DEF IInv, KeptInv, Kept
  <2>6. RestoreComplete'
    BY <1>2, <1>4, <2>1, <2>3, <2>4 DEF IInv, RestoreComplete
  <2>7. QED
    BY <2>2, <2>5, <2>6
<1>11. QED
  BY <1>5, <1>6, <1>7, <1>8, <1>9, <1>10, LoopsOK, TypedLive DEF IInv

LEMMA GrowOldOK ==
    ASSUME IInv, GrowOld, UNCHANGED <<platform, dateless>>
    PROVE  IInv'
<1>0. Types /\ aged \in Nat /\ next \in Nat
  BY TypeParts DEF IInv, Types
<1>1. UNCHANGED <<docs, bare, index, next, writer, backup, archive, restore, upsets>>
  BY DEF GrowOld, data
<1>2. aged' = aged + 1 /\ aged' \in 0..MaxEvent
  BY <1>0 DEF GrowOld, Types
<1>3. Types'
  BY <1>0, <1>1, <1>2 DEF Types
<1>4. LiveInv' /\ HalfInv' /\ EveryDocExpires' /\ AloneInv'
  BY <1>1 DEF IInv, LiveInv, HalfInv, EveryDocExpires, Covered, AloneInv
<1>5. Loops
  BY <1>1 DEF Loops
<1>6. \A e \in Event : e <= aged => e <= aged'
  BY <1>0, <1>2 DEF Event
<1>7. \A c \in Coll : restore.source.docs[c] \subseteq Event
  BY <1>0 DEF Types, RestoreRec, Archive, Docs
<1>8. KeptInv'
  BY <1>1, <1>6, <1>7 DEF IInv, KeptInv, Kept, Coll
<1>9. RestoreComplete'
  BY <1>1, <1>6, <1>7 DEF IInv, RestoreComplete, Coll
<1>10. QED
  BY <1>3, <1>4, <1>5, <1>8, <1>9, LoopsOK, TypedLive DEF IInv

\* Only documents that are old enough go.
LEMMA ExpireOK ==
    ASSUME IInv, NEW c \in Coll, Expire(c), UNCHANGED <<platform, dateless>>
    PROVE  IInv'
<1>0. Types /\ aged \in Nat
  BY TypeParts DEF IInv, Types
<1>1. UNCHANGED <<index, aged, next, writer, backup, archive, restore, upsets>>
  BY DEF Expire
<1>2. PICK e \in docs[c] \cap 1..aged : /\ docs' = [docs EXCEPT ![c] = @ \ {e}]
                                       /\ bare' = [bare EXCEPT ![c] = @ \ {e}]
  BY DEF Expire
<1>3. /\ docs' \in Docs /\ bare' \in Docs
      /\ docs'[c] = docs[c] \ {e} /\ bare'[c] = bare[c] \ {e}
      /\ \A d \in Coll \ {c} : docs'[d] = docs[d] /\ bare'[d] = bare[d]
  BY <1>0, <1>2 DEF Types, Docs
<1>4. Types'
  <2>1. \A d \in Coll : bare'[d] \subseteq docs'[d]
    BY <1>0, <1>3 DEF Types
  <2>2. QED
    BY <1>0, <1>1, <1>3, <2>1 DEF Types
<1>5. /\ \A d \in Coll : docs'[d] \subseteq docs[d] /\ bare'[d] \subseteq bare[d]
      /\ \A d \in Coll : \A f \in docs[d] : f \in docs'[d] \/ f <= aged
  BY <1>0, <1>3
<1>6. LiveInv' /\ HalfInv'
  BY <1>1, <1>5 DEF IInv, LiveInv, HalfInv, Single, Coll
<1>7. Loops
  BY <1>1, <1>5 DEF Loops
<1>8. EveryDocExpires'
  BY <1>1, <1>5 DEF IInv, EveryDocExpires, Covered
<1>9. AloneInv'
  BY <1>1, <1>5 DEF IInv, AloneInv, Coll
<1>10. \A d \in Coll : restore.source.docs[d] \subseteq Event
  BY <1>0 DEF Types, RestoreRec, Archive, Docs
<1>11. ASSUME NEW a \in Event, \E f \in docs["live"] : f >= a
       PROVE  a <= aged \/ \E f \in docs'["live"] : f >= a
  <2>1. PICK f \in docs["live"] : f >= a
    BY <1>11
  <2>2. f \in Event /\ (f \in docs'["live"] \/ f <= aged)
    BY <1>0, <1>5 DEF Types, Docs, Coll
  <2>3. QED
    BY <1>0, <2>1, <2>2 DEF Event
<1>12. \A f \in docs["raw"] : f \in docs'["raw"] \/ f <= aged
  BY <1>5 DEF Coll
<1>13. KeptInv'
  BY <1>1, <1>10, <1>11, <1>12 DEF IInv, KeptInv, Kept, Coll
<1>14. RestoreComplete'
  BY <1>1, <1>5, <1>10, <1>11, <1>12 DEF IInv, RestoreComplete, Coll
<1>15. QED
  BY <1>4, <1>6, <1>7, <1>8, <1>9, <1>13, <1>14, LoopsOK, TypedLive DEF IInv

-----------------------------------------------------------------------------
(* Backup.                                                                 *)

LEMMA BackupOK ==
    ASSUME IInv, BackupRaw \/ BackupLive \/ BackupFails, UNCHANGED <<platform, dateless>>
    PROVE  IInv'
<1>0. Types /\ Nothing \in Docs /\ Empty \in Archive
  BY TypeParts, NothingOK DEF IInv
<1>1. UNCHANGED <<docs, bare, index, aged, next, writer, restore>>
  BY DEF BackupRaw, BackupLive, BackupFails, data
<1>2. upsets' \in 0..MaxUpsets
  BY <1>0 DEF BackupRaw, BackupLive, BackupFails, Upset, Types
<1>3. \A d \in Docs, s \in Docs, c \in Coll : [d EXCEPT ![c] = s[c]] \in Docs
  BY DEF Docs
<1>4. /\ backup' \in [step : {"idle", "live"}, read : Archive] /\ archive' \in Archive
      /\ Single(backup'.read.docs["live"]) /\ Single(archive'.docs["live"])
  <2>1. CASE BackupRaw
    <3> DEFINE d == [Nothing EXCEPT !["raw"] = docs["raw"]]
               b == [Nothing EXCEPT !["raw"] = bare["raw"]]
    <3>1. d \in Docs /\ b \in Docs /\ d["live"] = {}
      BY <1>0, <1>3, NothingOK DEF Types, Coll, Docs
    <3>2. backup' = [step |-> "live", read |-> [docs |-> d, bare |-> b]] /\ archive' = archive
      BY <2>1 DEF BackupRaw
    <3> HIDE DEF d, b
    <3>3. QED
      BY <1>0, <3>1, <3>2 DEF Types, Archive, Single, IInv, LiveInv
  <2>2. CASE BackupLive
    <3>0. PICK found \in SUBSET Event, old \in SUBSET Event :
             archive' = [docs |-> [docs EXCEPT !["raw"] = found],
                         bare |-> [bare EXCEPT !["raw"] = found \cap old]]
      BY <2>2 DEF BackupLive
    <3> DEFINE d == [docs EXCEPT !["raw"] = found]
               b == [bare EXCEPT !["raw"] = found \cap old]
    <3>1. d \in Docs /\ b \in Docs /\ d["live"] = docs["live"]
      BY <1>0 DEF Types, Coll, Docs
    <3>2. archive' = [docs |-> d, bare |-> b] /\ backup' = [step |-> "idle", read |-> Empty]
      BY <2>2, <3>0 DEF BackupLive
    <3> HIDE DEF d, b
    <3>3. Single(Empty.docs["live"])
      BY NothingOK DEF Empty, Single, Nothing, Coll
    <3>4. QED
      BY <1>0, <3>1, <3>2, <3>3 DEF Types, Archive, IInv, LiveInv
  <2>3. CASE BackupFails
    <3>1. Single(Empty.docs["live"])
      BY NothingOK DEF Empty, Single, Nothing, Coll
    <3>2. QED
      BY <1>0, <2>3, <3>1 DEF BackupFails, Types, IInv, LiveInv
  <2>4. QED
    BY <2>1, <2>2, <2>3
<1>5. Types' /\ LiveInv'
  BY <1>0, <1>1, <1>2, <1>4 DEF Types, IInv, LiveInv
<1>6. Loops
  BY <1>1 DEF Loops
<1>7. HalfInv' /\ EveryDocExpires' /\ AloneInv'
  BY <1>1 DEF IInv, HalfInv, EveryDocExpires, Covered, AloneInv
<1>8. KeptInv' /\ RestoreComplete'
  BY <1>1 DEF IInv, KeptInv, Kept, RestoreComplete
<1>9. QED
  BY <1>5, <1>6, <1>7, <1>8, LoopsOK, TypedLive DEF IInv

-----------------------------------------------------------------------------
(* Restore.                                                                *)

\* What a restore leaves alone, and what each of its steps but the first has to show.
LEMMA RestoreStepOK ==
    ASSUME IInv, restore.step # "idle", UNCHANGED <<platform, writer, aged, next, backup, archive>>,
           Types', Single(docs'["live"]), restore'.source \in {restore.source, Empty},
           restore'.follow, restore'.step # "idle" => ~restore'.done,
           HoldsInv', KeptInv', AloneInv', RestoreComplete'
    PROVE  IInv'
<1>1. LiveInv'
  <2>1. Single(Empty.docs["live"])
    BY NothingOK DEF Empty, Single, Nothing, Coll
  <2>2. QED
    BY <2>1 DEF IInv, LiveInv
<1>2. FollowInv'
  BY DEF IInv, FollowInv
<1>3. HalfInv' /\ EveryDocExpires'
  BY DEF IInv, HalfInv, EveryDocExpires
<1>4. PreparedInv'
  <2> SUFFICES ASSUME NEW w \in Writer, ~writer[w].late PROVE Prepared(w)'
    BY DEF PreparedInv
  <2>1. writer[w].step = "down"
    BY DEF IInv, FollowInv
  <2>2. QED
    BY <2>1 DEF Prepared, Stamped, RawIndexed, LiveIndexed, Dropping
<1>5. QED
  BY <1>1, <1>2, <1>3, <1>4, TypedLive DEF IInv

LEMMA RestoreFailsOK ==
    ASSUME IInv, restore.step # "idle", UNCHANGED <<platform, writer, aged, next, backup, archive>>,
           Types', Single(docs'["live"]), Fails
    PROVE  IInv'
<1>1. restore \in RestoreRec /\ restore.follow
  BY TypeParts DEF IInv, Types, FollowInv
<1>2. /\ restore'.step = "idle" /\ restore'.source = Empty
      /\ restore'.todo = Nothing /\ restore'.batch = Nothing
      /\ ~restore'.done /\ restore'.follow
  BY <1>1, FailsOK
<1>3. HoldsInv'
  BY <1>2, NothingOK DEF HoldsInv
<1>4. KeptInv' /\ AloneInv' /\ RestoreComplete'
  BY <1>2 DEF KeptInv, AloneInv, RestoreComplete
<1>5. QED
  BY <1>2, <1>3, <1>4, RestoreStepOK

LEMMA CheckStoppedOK ==
    ASSUME IInv, CheckStopped, UNCHANGED <<platform, dateless>>
    PROVE  IInv'
<1>0. Types /\ archive.docs \in Docs /\ NoRestore \in RestoreRec
  BY TypeParts, NothingOK DEF IInv, Types, Archive
<1>1. UNCHANGED <<docs, bare, index, aged, next, writer, backup, archive, upsets>>
  BY DEF CheckStopped, RestoreOnly, data
<1>2. /\ restore' \in RestoreRec /\ restore'.step = "count" /\ restore'.source = archive
      /\ restore'.todo = archive.docs /\ restore'.batch = Nothing
      /\ ~restore'.done /\ restore'.follow
  <2>1. restore' = [NoRestore EXCEPT !.step = "count", !.source = archive,
                                     !.todo = archive.docs, !.follow = TRUE]
    BY DEF CheckStopped
  <2>2. restore' \in RestoreRec
    BY <1>0, <2>1 DEF RestoreRec, RestoreStep, Types
  <2>3. QED
    BY <2>1, <2>2 DEF NoRestore
<1>3. Types'
  BY <1>0, <1>1, <1>2 DEF Types
<1>4. LiveInv' /\ HalfInv'
  BY <1>1, <1>2 DEF IInv, LiveInv, HalfInv
<1>5. \A w \in Writer : writer'[w].step = "down"
  BY <1>1 DEF CheckStopped
<1>6. FollowInv'
  BY <1>1, <1>2, <1>5 DEF IInv, FollowInv, CheckStopped
<1>7. PreparedInv'
  BY <1>5 DEF PreparedInv, Prepared, Stamped, RawIndexed, LiveIndexed, Dropping
<1>8. HoldsInv'
  BY <1>2, NothingOK DEF HoldsInv
<1>9. EveryDocExpires' /\ KeptInv' /\ AloneInv' /\ RestoreComplete'
  BY <1>2, <1>5 DEF EveryDocExpires, KeptInv, AloneInv, RestoreComplete
<1>10. QED
  BY <1>3, <1>4, <1>6, <1>7, <1>8, <1>9, TypedLive DEF IInv

\* Everything is still to be read.
LEMMA AllKept ==
    ASSUME restore.todo = restore.source.docs
    PROVE  Kept
BY DEF Kept

LEMMA CountDocumentsOK ==
    ASSUME IInv, CountDocuments, UNCHANGED <<platform, dateless>>
    PROVE  IInv'
<1>0. Types /\ restore.step = "count" /\ "import" \in RestoreStep
  BY TypeParts DEF IInv, CountDocuments, RestoreStep
<1>1. UNCHANGED <<docs, bare, index, aged, next, writer, backup, archive, upsets>>
  BY DEF CountDocuments, RestoreOnly, data
<1>2. CASE Fails
  <2>1. Types'
    BY <1>0, <1>1, <1>2, FailsOK DEF Types
  <2>2. QED
    BY <1>0, <1>1, <1>2, <2>1, RestoreFailsOK DEF IInv, LiveInv
<1>3. CASE Proceeds("import") \/ restore' = [restore EXCEPT !.step = "import", !.replace = TRUE]
  <2>1. /\ restore' \in RestoreRec /\ restore'.step = "import"
        /\ restore'.source = restore.source
        /\ restore'.todo = restore.todo /\ restore'.batch = restore.batch
        /\ restore'.done = restore.done /\ restore'.alone = restore.alone
        /\ restore'.follow = restore.follow
    BY <1>0, <1>3, ProceedsOK DEF Types, RestoreRec
  <2>2. Types'
    BY <1>0, <1>1, <2>1 DEF Types
  <2>3. restore.follow /\ ~restore.done
    BY <1>0 DEF IInv, FollowInv
  <2>4. HoldsInv'
    BY <1>0, <2>1 DEF IInv, HoldsInv
  <2>5. KeptInv' /\ AloneInv' /\ RestoreComplete'
    BY <1>0, <1>1, <2>1, <2>3 DEF IInv, KeptInv, AloneInv, RestoreComplete
  <2>6. QED
    BY <1>0, <1>1, <2>1, <2>2, <2>3, <2>4, <2>5, RestoreStepOK DEF IInv, LiveInv
<1>4. QED
  BY <1>2, <1>3 DEF CountDocuments

LEMMA BeginImportOK ==
    ASSUME IInv, BeginImport, UNCHANGED <<platform, dateless>>
    PROVE  IInv'
<1>0. Types /\ restore.step = "import" /\ {"drop_raw", "read"} \subseteq RestoreStep
  BY TypeParts DEF IInv, BeginImport, RestoreStep
<1>1. UNCHANGED <<docs, bare, index, aged, next, writer, backup, archive, upsets>>
  BY DEF BeginImport, RestoreOnly, data
<1>2. CASE Fails
  <2>1. Types'
    BY <1>0, <1>1, <1>2, FailsOK DEF Types
  <2>2. QED
    BY <1>0, <1>1, <1>2, <2>1, RestoreFailsOK DEF IInv, LiveInv
<1>3. ASSUME NEW s \in {"drop_raw", "read"}, Proceeds(s), s = "read" => docs = Nothing
      PROVE  IInv'
  <2>1. /\ restore' \in RestoreRec /\ restore'.step = s
        /\ restore'.source = restore.source
        /\ restore'.todo = restore.todo /\ restore'.batch = restore.batch
        /\ restore'.done = restore.done /\ restore'.alone = restore.alone
        /\ restore'.follow = restore.follow
    BY <1>0, <1>3, ProceedsOK DEF Types
  <2>2. Types'
    BY <1>0, <1>1, <2>1 DEF Types
  <2>3. restore.follow /\ ~restore.done /\ restore.todo = restore.source.docs
    BY <1>0 DEF IInv, FollowInv, HoldsInv
  <2>4. HoldsInv'
    BY <1>0, <2>1, <2>3 DEF IInv, HoldsInv
  <2>5. KeptInv' /\ RestoreComplete'
    BY <2>1, <2>3 DEF KeptInv, Kept, RestoreComplete
  <2>6. AloneInv'
    BY <1>0, <1>1, <1>3, <2>1, <2>3, NothingOK DEF IInv, AloneInv
  <2>7. QED
    BY <1>0, <1>1, <2>1, <2>2, <2>3, <2>4, <2>5, <2>6, RestoreStepOK DEF IInv, LiveInv
<1>4. QED
  BY <1>2, <1>3 DEF BeginImport

LEMMA DropCollectionOK ==
    ASSUME IInv, NEW c \in Coll, DropCollection(c), UNCHANGED <<platform, dateless>>
    PROVE  IInv'
<1> DEFINE s == IF c = "raw" THEN "drop_live" ELSE "read"
<1>0. Types /\ restore.step = DropStep(c) /\ s \in RestoreStep
  BY TypeParts DEF IInv, DropCollection, RestoreStep
<1>1. UNCHANGED <<aged, next, writer, backup, archive, upsets>>
  BY DEF DropCollection, RestoreOnly
<1>2. /\ docs' \in Docs /\ bare' \in Docs /\ docs'[c] = {} /\ bare'[c] = {}
      /\ \A d \in Coll \ {c} : docs'[d] = docs[d] /\ bare'[d] = bare[d]
      /\ index' \in [Coll -> Index]
  BY <1>0 DEF DropCollection, Types, Docs, Index
<1>3. /\ restore' \in RestoreRec /\ restore'.step = s
      /\ restore'.source = restore.source
      /\ restore'.todo = restore.todo /\ restore'.batch = restore.batch
      /\ restore'.done = restore.done /\ restore'.alone = restore.alone
      /\ restore'.follow = restore.follow
  <2>1. Proceeds(s)
    BY DEF DropCollection, Proceeds
  <2> HIDE DEF s
  <2>2. QED
    BY <1>0, <2>1, ProceedsOK DEF Types
<1>4. Types'
  <2>1. \A d \in Coll : bare'[d] \subseteq docs'[d]
    BY <1>0, <1>2 DEF Types
  <2>2. QED
    BY <1>0, <1>1, <1>2, <1>3, <2>1 DEF Types
<1>5. Single(docs'["live"])
  BY <1>2 DEF IInv, LiveInv, Single, Coll
<1>6. /\ restore.step \in {"drop_raw", "drop_live"}
      /\ restore.follow /\ ~restore.done /\ restore.todo = restore.source.docs
  BY <1>0 DEF IInv, FollowInv, HoldsInv, DropStep
<1>7. HoldsInv'
  BY <1>3, <1>6 DEF IInv, HoldsInv
<1>8. KeptInv' /\ RestoreComplete'
  BY <1>3, <1>6 DEF KeptInv, Kept, RestoreComplete
<1>9. AloneInv'
  <2> SUFFICES ASSUME restore.alone
               PROVE  /\ \A w \in Writer : writer[w].step = "down"
                      /\ s = "drop_live" => docs'["raw"] \subseteq restore.source.docs["raw"]
                      /\ s = "read" => \A d \in Coll : docs'[d] \subseteq restore.source.docs[d]
    BY <1>1, <1>3, <1>6 DEF AloneInv
  <2>1. AloneInv
    BY DEF IInv
  <2>2. \A w \in Writer : writer[w].step = "down"
    BY <1>6, <2>1 DEF AloneInv
  <2>3. CASE c = "raw"
    BY <1>2, <2>2, <2>3
  <2>4. CASE c = "live"
    <3>1. restore.step = "drop_live"
      BY <1>0, <2>4 DEF DropStep
    <3>2. docs'["raw"] \subseteq restore.source.docs["raw"]
      BY <1>2, <2>1, <2>4, <3>1 DEF AloneInv, Coll
    <3>3. QED
      BY <1>2, <2>2, <2>4, <3>2 DEF Coll
  <2>5. QED
    BY <2>3, <2>4 DEF Coll
<1>10. restore.step # "idle" /\ restore'.source \in {restore.source, Empty}
       /\ restore'.follow /\ ~restore'.done
  BY <1>3, <1>6
<1>11. QED
  BY <1>1, <1>4, <1>5, <1>7, <1>8, <1>9, <1>10, RestoreStepOK

\* What insert_many leaves: the whole batch, or a part of it and the import has failed.
LEMMA InsertBatchOK ==
    ASSUME Types, LiveInv, NEW c \in Coll, NEW batch \in SUBSET restore.source.docs[c], NEW then,
           InsertBatch(c, batch, then)
    PROVE  /\ docs' \in Docs /\ bare' \in Docs /\ \A d \in Coll : bare'[d] \subseteq docs'[d]
           /\ \A d \in Coll : docs[d] \subseteq docs'[d]
           /\ docs'[c] \subseteq docs[c] \union batch /\ \A d \in Coll \ {c} : docs'[d] = docs[d]
           /\ Single(docs'["live"])
           /\ (restore' = then /\ batch \subseteq docs'[c]) \/ Fails
<1> DEFINE clash == IF c = "raw" THEN batch \cap docs[c]
                    ELSE IF docs[c] = {} THEN {} ELSE batch
<1>1. PICK S \in SUBSET (batch \ clash) :
        /\ clash = {} => S = batch
        /\ docs' = [docs EXCEPT ![c] = @ \union S]
        /\ bare' = [bare EXCEPT ![c] = @ \union (S \cap restore.source.bare[c])]
        /\ IF clash = {} THEN restore' = then ELSE Fails
  BY DEF InsertBatch
<1>2. batch \subseteq Event
  BY DEF Types, RestoreRec, Archive, Docs
<1>3. S \subseteq batch /\ S \in SUBSET Event
  BY <1>2
<1>4. /\ docs' \in Docs /\ bare' \in Docs
      /\ docs'[c] = docs[c] \union S
      /\ bare'[c] = bare[c] \union (S \cap restore.source.bare[c])
      /\ \A d \in Coll \ {c} : docs'[d] = docs[d] /\ bare'[d] = bare[d]
  <2> HIDE DEF clash
  <2>1. docs' \in Docs /\ docs'[c] = docs[c] \union S
        /\ \A d \in Coll \ {c} : docs'[d] = docs[d]
    BY <1>1, <1>3 DEF Types, Docs
  <2>2. S \cap restore.source.bare[c] \in SUBSET Event
    BY <1>3
  <2>3. bare' \in Docs /\ bare'[c] = bare[c] \union (S \cap restore.source.bare[c])
        /\ \A d \in Coll \ {c} : bare'[d] = bare[d]
    BY <1>1, <2>2 DEF Types, Docs
  <2>4. QED
    BY <2>1, <2>3
<1>5. \A d \in Coll : bare'[d] \subseteq docs'[d]
  BY <1>4 DEF Types
<1>6. Single(docs'["live"])
  <2>1. CASE c = "raw"
    BY <1>4, <2>1 DEF LiveInv, Coll
  <2>2. CASE c = "live" /\ docs["live"] = {}
    <3>1. docs'["live"] \subseteq restore.source.docs["live"]
      BY <1>3, <1>4, <2>2
    <3>2. QED
      BY <3>1 DEF LiveInv, Single
  <2>3. CASE c = "live" /\ docs["live"] # {}
    <3>1. S = {}
      BY <2>3
    <3>2. docs'["live"] = docs["live"]
      BY <1>4, <2>3, <3>1
    <3>3. QED
      BY <3>2 DEF LiveInv
  <2>4. QED
    BY <2>1, <2>2, <2>3 DEF Coll
<1>7. (restore' = then /\ batch \subseteq docs'[c]) \/ Fails
  <2> HIDE DEF clash
  <2>1. QED
    BY <1>1, <1>4
<1>8. QED
  BY <1>3, <1>4, <1>5, <1>6, <1>7

\* Records move from the archive over the batch to the database, none gets lost.
LEMMA KeptOK ==
    ASSUME Types, Kept, aged' = aged, restore'.source = restore.source,
           \A c \in Coll : docs[c] \subseteq docs'[c],
           \A c \in Coll : restore.todo[c] \union restore.batch[c] \subseteq
                             restore'.todo[c] \union restore'.batch[c] \union docs'[c]
    PROVE  Kept'
<1>1. restore.source.docs["live"] \subseteq Event
  BY DEF Types, RestoreRec, Archive, Docs, Coll
<1>2. \A e \in Event : e >= e
  BY DEF Event
<1>3. \A e \in restore.source.docs["raw"] :
        e \in docs'["raw"] \union restore'.todo["raw"] \union restore'.batch["raw"] \/ e <= aged
  BY DEF Kept, Coll
<1>4. ASSUME NEW e \in restore.source.docs["live"]
      PROVE  \/ e \in restore'.todo["live"] \union restore'.batch["live"] \/ e <= aged
             \/ \E f \in docs'["live"] : f >= e
  <2>1. CASE e \in restore.todo["live"] \union restore.batch["live"]
    <3>1. e \in restore'.todo["live"] \union restore'.batch["live"] \/ e \in docs'["live"]
      BY <2>1 DEF Coll
    <3>2. QED
      BY <3>1, <1>1, <1>2
  <2>2. CASE e <= aged
    BY <2>2
  <2>3. CASE \E f \in docs["live"] : f >= e
    BY <2>3 DEF Coll
  <2>4. QED
    BY <2>1, <2>2, <2>3 DEF Kept
<1>5. QED
  BY <1>3, <1>4 DEF Kept

LEMMA ReadRecordOK ==
    ASSUME IInv, ReadRecord, UNCHANGED <<platform, dateless>>
    PROVE  IInv'
<1>0. Types /\ LiveInv /\ restore.step = "read"
  BY TypeParts DEF IInv, ReadRecord
<1>1. UNCHANGED <<index, aged, next, writer, backup, archive, upsets>>
  BY DEF ReadRecord, RestoreOnly
<1>2. PICK c \in Coll :
        \E e \in restore.todo[c] :
          LET batch == restore.batch[c] \union {e}
              rest == [restore EXCEPT !.todo[c] = @ \ {e}]
          IN \/ InsertBatch(c, batch, [rest EXCEPT !.batch[c] = {}])
             \/ restore' = [rest EXCEPT !.batch[c] = batch] /\ UNCHANGED <<docs, bare>>
  <2> DEFINE d == IF restore.todo["raw"] # {} THEN "raw" ELSE "live"
  <2>1. d \in Coll
    BY DEF Coll
  <2>2. QED
    BY <2>1 DEF ReadRecord
<1>21. PICK e \in restore.todo[c] :
         LET batch == restore.batch[c] \union {e}
             rest == [restore EXCEPT !.todo[c] = @ \ {e}]
         IN \/ InsertBatch(c, batch, [rest EXCEPT !.batch[c] = {}])
            \/ restore' = [rest EXCEPT !.batch[c] = batch] /\ UNCHANGED <<docs, bare>>
  BY <1>2
<1> DEFINE batch == restore.batch[c] \union {e}
           rest == [restore EXCEPT !.todo[c] = @ \ {e}]
           Filled(b) == [rest EXCEPT !.batch[c] = b]
<1>3. /\ restore.follow /\ ~restore.done /\ Kept
      /\ \A d \in Coll : restore.batch[d] \subseteq restore.source.docs[d]
      /\ \A d \in Coll : restore.todo[d] \subseteq restore.source.docs[d]
  BY <1>0 DEF IInv, FollowInv, KeptInv, HoldsInv
<1>4. batch \in SUBSET restore.source.docs[c] /\ batch \in SUBSET Event
  BY <1>0, <1>3 DEF Types, RestoreRec, Archive, Docs
<1>5. ASSUME NEW b \in SUBSET batch, NEW r, r = Filled(b)
      PROVE  /\ r \in RestoreRec /\ r.step = "read" /\ r.source = restore.source
             /\ r.todo[c] = restore.todo[c] \ {e} /\ r.batch[c] = b
             /\ \A d \in Coll \ {c} : /\ r.todo[d] = restore.todo[d]
                                      /\ r.batch[d] = restore.batch[d]
             /\ r.done = restore.done /\ r.alone = restore.alone
             /\ r.follow = restore.follow
  <2> DEFINE t == [restore.todo EXCEPT ![c] = @ \ {e}]
             n == [restore.batch EXCEPT ![c] = b]
  <2>1. /\ t \in Docs /\ t[c] = restore.todo[c] \ {e}
        /\ \A d \in Coll \ {c} : t[d] = restore.todo[d]
    BY <1>0 DEF Types, RestoreRec, Docs
  <2>2. /\ n \in Docs /\ n[c] = b
        /\ \A d \in Coll \ {c} : n[d] = restore.batch[d]
    BY <1>0, <1>4 DEF Types, RestoreRec, Docs
  <2>3. rest = [restore EXCEPT !.todo = t] /\ rest \in RestoreRec
    BY <1>0, <2>1 DEF Types, RestoreRec
  <2>4. rest.batch = restore.batch
    BY <1>0, <2>3 DEF Types, RestoreRec
  <2> HIDE DEF t
  <2>5. r = [rest EXCEPT !.batch = n]
    BY <1>5, <2>3, <2>4 DEF RestoreRec
  <2> HIDE DEF n, rest
  <2>6. r \in RestoreRec
    BY <2>2, <2>3, <2>5 DEF RestoreRec
  <2>7. /\ r.step = rest.step /\ r.source = rest.source /\ r.todo = rest.todo /\ r.batch = n
        /\ r.done = rest.done /\ r.alone = rest.alone /\ r.follow = rest.follow
    BY <2>3, <2>5 DEF RestoreRec
  <2>8. /\ rest.step = restore.step /\ rest.source = restore.source /\ rest.todo = t
        /\ rest.done = restore.done /\ rest.alone = restore.alone
        /\ rest.follow = restore.follow
    BY <1>0, <2>3 DEF Types, RestoreRec
  <2>9. QED
    BY <1>0, <2>1, <2>2, <2>6, <2>7, <2>8
<1>6. ASSUME NEW b \in SUBSET batch, restore' = Filled(b),
             docs' \in Docs, bare' \in Docs, \A d \in Coll : bare'[d] \subseteq docs'[d],
             \A d \in Coll : docs[d] \subseteq docs'[d],
             docs'[c] \subseteq docs[c] \union batch, \A d \in Coll \ {c} : docs'[d] = docs[d],
             Single(docs'["live"]), batch \subseteq b \union docs'[c]
      PROVE  IInv'
  <2>1. /\ restore' \in RestoreRec /\ restore'.step = "read" /\ restore'.source = restore.source
        /\ restore'.todo[c] = restore.todo[c] \ {e} /\ restore'.batch[c] = b
        /\ \A d \in Coll \ {c} : /\ restore'.todo[d] = restore.todo[d]
                                 /\ restore'.batch[d] = restore.batch[d]
        /\ restore'.done = restore.done /\ restore'.alone = restore.alone
        /\ restore'.follow = restore.follow
    <3> HIDE DEF Filled, batch
    <3>1. QED
      BY <1>5, <1>6
  <2> HIDE DEF Filled, rest
  <2>2. Types'
    BY <1>0, <1>1, <1>6, <2>1 DEF Types
  <2>3. HoldsInv'
    <3>1. ASSUME NEW d \in Coll
          PROVE  /\ restore'.todo[d] \subseteq restore'.source.docs[d]
                 /\ restore'.batch[d] \subseteq restore'.source.docs[d]
      BY <1>3, <1>4, <2>1
    <3>2. QED
      BY <2>1, <3>1 DEF HoldsInv
  <2>4. KeptInv'
    <3>1. ASSUME NEW d \in Coll
          PROVE  restore.todo[d] \union restore.batch[d] \subseteq
                   restore'.todo[d] \union restore'.batch[d] \union docs'[d]
      BY <1>6, <2>1
    <3>2. QED
      BY <1>0, <1>1, <1>3, <1>6, <2>1, <3>1, KeptOK DEF KeptInv
  <2>5. AloneInv'
    <3> SUFFICES ASSUME restore.alone
                 PROVE  /\ \A w \in Writer : writer[w].step = "down"
                        /\ \A d \in Coll : docs'[d] \subseteq restore.source.docs[d]
      BY <1>1, <2>1 DEF AloneInv
    <3>1. /\ \A w \in Writer : writer[w].step = "down"
          /\ \A d \in Coll : docs[d] \subseteq restore.source.docs[d]
      BY <1>0 DEF IInv, AloneInv
    <3>2. QED
      BY <1>4, <1>6, <3>1
  <2>6. RestoreComplete'
    BY <1>3, <2>1 DEF RestoreComplete
  <2>7. QED
    BY <1>0, <1>1, <1>3, <1>6, <2>1, <2>2, <2>3, <2>4, <2>5, <2>6, RestoreStepOK
<1>7. CASE restore' = Filled(batch) /\ UNCHANGED <<docs, bare>>
  BY <1>0, <1>6, <1>7 DEF Types, LiveInv
<1>8. CASE InsertBatch(c, batch, Filled({}))
  <2> HIDE DEF batch, rest, Filled
  <2>1. /\ docs' \in Docs /\ bare' \in Docs /\ \A d \in Coll : bare'[d] \subseteq docs'[d]
        /\ \A d \in Coll : docs[d] \subseteq docs'[d]
        /\ docs'[c] \subseteq docs[c] \union batch /\ \A d \in Coll \ {c} : docs'[d] = docs[d]
        /\ Single(docs'["live"])
        /\ \/ restore' = Filled({}) /\ batch \subseteq docs'[c]
           \/ Fails
    BY <1>0, <1>4, <1>8, InsertBatchOK
  <2>2. CASE Fails
    <3>1. Types'
      BY <1>0, <1>1, <2>1, <2>2, FailsOK DEF Types
    <3>2. QED
      BY <1>0, <1>1, <2>1, <2>2, <3>1, RestoreFailsOK
  <2>3. CASE restore' = Filled({}) /\ batch \subseteq docs'[c]
    BY <1>6, <2>1, <2>3
  <2>4. QED
    BY <2>1, <2>2, <2>3
<1>9. QED
  BY <1>21, <1>7, <1>8

LEMMA EndOfArchiveOK ==
    ASSUME IInv, EndOfArchive, UNCHANGED <<platform, dateless>>
    PROVE  IInv'
<1>0. Types /\ restore.step = "read" /\ restore.todo = Nothing /\ "rest_raw" \in RestoreStep
  BY TypeParts DEF IInv, EndOfArchive, RestoreStep
<1>1. UNCHANGED <<docs, bare, index, aged, next, writer, backup, archive, upsets>>
  BY DEF EndOfArchive, RestoreOnly, data
<1>2. /\ restore' \in RestoreRec /\ restore'.step = "rest_raw"
      /\ restore'.source = restore.source
      /\ restore'.todo = restore.todo /\ restore'.batch = restore.batch
      /\ restore'.done = restore.done /\ restore'.alone = restore.alone
      /\ restore'.follow = restore.follow
  BY <1>0, ProceedsOK DEF Types, EndOfArchive
<1>3. Types'
  BY <1>0, <1>1, <1>2 DEF Types
<1>4. restore.follow /\ ~restore.done /\ Kept
  BY <1>0 DEF IInv, FollowInv, KeptInv
<1>5. HoldsInv'
  BY <1>0, <1>2 DEF IInv, HoldsInv
<1>6. KeptInv' /\ RestoreComplete'
  BY <1>1, <1>2, <1>4 DEF KeptInv, Kept, RestoreComplete
<1>7. AloneInv'
  BY <1>0, <1>1, <1>2, <1>4 DEF IInv, AloneInv
<1>8. QED
  BY <1>0, <1>1, <1>2, <1>3, <1>4, <1>5, <1>6, <1>7, RestoreStepOK DEF IInv, LiveInv

LEMMA ImportFailsOK ==
    ASSUME IInv, ImportFails, UNCHANGED <<platform, dateless>>
    PROVE  IInv'
<1>0. Types /\ restore.step # "idle" /\ Fails
  BY TypeParts DEF IInv, ImportFails
<1>1. UNCHANGED <<docs, bare, index, aged, next, writer, backup, archive>>
  BY DEF ImportFails, RestoreOnly, data
<1>2. upsets' \in 0..MaxUpsets
  BY <1>0 DEF ImportFails, Upset, Types
<1>3. Types'
  BY <1>0, <1>1, <1>2, FailsOK DEF Types
<1>4. QED
  BY <1>0, <1>1, <1>3, RestoreFailsOK DEF IInv, LiveInv

\* With the last batch in, nothing of the archive is left outside the database.
LEMMA InsertRestOK ==
    ASSUME IInv, NEW c \in Coll, InsertRest(c), UNCHANGED <<platform, dateless>>
    PROVE  IInv'
<1> DEFINE batch == restore.batch[c]
           then == IF c = "raw"
                   THEN [restore EXCEPT !.step = "rest_live", !.batch[c] = {}]
                   ELSE [restore EXCEPT !.step = "idle", !.batch[c] = {}, !.done = TRUE]
<1>0. Types /\ LiveInv /\ restore.step = RestStep(c) /\ restore.step \in {"rest_raw", "rest_live"}
  BY TypeParts DEF IInv, InsertRest, RestStep
<1>1. UNCHANGED <<index, aged, next, writer, backup, archive, upsets>>
  BY DEF InsertRest, RestoreOnly
<1>2. /\ restore.follow /\ ~restore.done /\ Kept /\ restore.todo = Nothing
      /\ \A d \in Coll : restore.batch[d] \subseteq restore.source.docs[d]
  BY <1>0 DEF IInv, FollowInv, KeptInv, HoldsInv
<1>3. ASSUME restore' = then
      PROVE  /\ restore' \in RestoreRec
             /\ c = "raw" => restore'.step = "rest_live" /\ ~restore'.done
             /\ c = "live" => restore'.step = "idle" /\ restore'.done
             /\ restore'.source = restore.source /\ restore'.todo = restore.todo
             /\ restore'.batch[c] = {}
             /\ \A d \in Coll \ {c} : restore'.batch[d] = restore.batch[d]
             /\ restore'.alone = restore.alone /\ restore'.follow = restore.follow
  <2> DEFINE n == [restore.batch EXCEPT ![c] = {}]
  <2>1. n \in Docs /\ n[c] = {} /\ \A d \in Coll \ {c} : n[d] = restore.batch[d]
    BY <1>0 DEF Types, RestoreRec, Docs
  <2>2. CASE c = "raw"
    <3>1. restore' = [restore EXCEPT !.step = "rest_live", !.batch = n]
      BY <1>0, <1>3, <2>2 DEF Types, RestoreRec
    <3> HIDE DEF n
    <3>2. restore' \in RestoreRec
      BY <1>0, <2>1, <3>1 DEF Types, RestoreRec, RestoreStep
    <3>3. /\ restore'.step = "rest_live" /\ restore'.done = restore.done
          /\ restore'.source = restore.source /\ restore'.todo = restore.todo
          /\ restore'.batch = n
          /\ restore'.alone = restore.alone /\ restore'.follow = restore.follow
      BY <1>0, <3>1 DEF Types, RestoreRec
    <3>4. QED
      BY <1>2, <2>1, <2>2, <3>2, <3>3
  <2>3. CASE c = "live"
    <3>1. restore' = [restore EXCEPT !.step = "idle", !.batch = n, !.done = TRUE]
      BY <1>0, <1>3, <2>3 DEF Types, RestoreRec
    <3> HIDE DEF n
    <3>2. restore' \in RestoreRec
      BY <1>0, <2>1, <3>1 DEF Types, RestoreRec, RestoreStep
    <3>3. /\ restore'.step = "idle" /\ restore'.done
          /\ restore'.source = restore.source /\ restore'.todo = restore.todo
          /\ restore'.batch = n
          /\ restore'.alone = restore.alone /\ restore'.follow = restore.follow
      BY <1>0, <3>1 DEF Types, RestoreRec
    <3>4. QED
      BY <1>2, <2>1, <2>3, <3>2, <3>3
  <2>4. QED
    BY <2>2, <2>3 DEF Coll
<1>4. InsertBatch(c, batch, then)
  BY DEF InsertRest
<1> HIDE DEF then
<1>5. /\ docs' \in Docs /\ bare' \in Docs /\ \A d \in Coll : bare'[d] \subseteq docs'[d]
      /\ \A d \in Coll : docs[d] \subseteq docs'[d]
      /\ docs'[c] \subseteq docs[c] \union batch /\ \A d \in Coll \ {c} : docs'[d] = docs[d]
      /\ Single(docs'["live"])
      /\ (restore' = then /\ batch \subseteq docs'[c]) \/ Fails
  BY <1>0, <1>2, <1>4, InsertBatchOK
<1>6. CASE Fails
  <2>1. Types'
    BY <1>0, <1>1, <1>5, <1>6, FailsOK DEF Types
  <2>2. QED
    BY <1>0, <1>1, <1>5, <1>6, <2>1, RestoreFailsOK
<1>7. CASE restore' = then /\ batch \subseteq docs'[c]
  <2>1. Types'
    BY <1>0, <1>1, <1>3, <1>5, <1>7 DEF Types
  <2>2. Kept'
    <3>1. ASSUME NEW d \in Coll
          PROVE  restore.todo[d] \union restore.batch[d] \subseteq
                   restore'.todo[d] \union restore'.batch[d] \union docs'[d]
      BY <1>3, <1>7
    <3>2. QED
      BY <1>0, <1>1, <1>2, <1>3, <1>5, <1>7, <3>1, KeptOK
  <2>3. HoldsInv'
    <3>1. ASSUME NEW d \in Coll
          PROVE  /\ restore'.todo[d] \subseteq restore'.source.docs[d]
                 /\ restore'.batch[d] \subseteq restore'.source.docs[d]
      BY <1>2, <1>3, <1>7, NothingOK
    <3>2. restore'.step \in {"idle", "rest_live"} /\ restore'.todo = Nothing
      BY <1>2, <1>3, <1>7 DEF Coll
    <3>3. restore'.step = "rest_live" => restore'.batch["raw"] = {}
      BY <1>3, <1>7 DEF Coll
    <3>4. QED
      BY <3>1, <3>2, <3>3 DEF HoldsInv
  <2>4. KeptInv'
    BY <2>2 DEF KeptInv
  <2>5. restore.alone => /\ \A w \in Writer : writer'[w].step = "down"
                         /\ \A d \in Coll : docs'[d] \subseteq restore.source.docs[d]
    <3> SUFFICES ASSUME restore.alone
                 PROVE  /\ \A w \in Writer : writer[w].step = "down"
                        /\ \A d \in Coll : docs'[d] \subseteq restore.source.docs[d]
      BY <1>1
    <3>1. /\ \A w \in Writer : writer[w].step = "down"
          /\ \A d \in Coll : docs[d] \subseteq restore.source.docs[d]
      BY <1>0 DEF IInv, AloneInv
    <3>2. QED
      BY <1>2, <1>5, <3>1
  <2>6. AloneInv'
    <3>1. restore'.step # "drop_live"
      BY <1>3, <1>7 DEF Coll
    <3>2. QED
      BY <1>3, <1>7, <2>5, <3>1 DEF AloneInv
  <2>7. RestoreComplete'
    <3> SUFFICES ASSUME restore'.done PROVE RestoreComplete'
      BY DEF RestoreComplete
    <3>1. c = "live"
      BY <1>3, <1>7 DEF Coll
    <3>2. restore.batch["raw"] = {}
      BY <1>0, <3>1 DEF IInv, HoldsInv, RestStep
    <3>3. \A d \in Coll : restore'.todo[d] = {} /\ restore'.batch[d] = {}
      BY <1>2, <1>3, <1>7, <3>1, <3>2, NothingOK DEF Coll
    <3>4. QED
      BY <1>3, <1>7, <2>2, <2>5, <3>3 DEF Kept, RestoreComplete, Coll
  <2>8. restore'.follow /\ (restore'.step # "idle" => ~restore'.done)
    BY <1>2, <1>3, <1>7 DEF Coll
  <2>9. QED
    BY <1>0, <1>1, <1>3, <1>5, <1>7, <2>1, <2>3, <2>4, <2>6, <2>7, <2>8, RestoreStepOK
<1>8. QED
  BY <1>5, <1>6, <1>7

-----------------------------------------------------------------------------
LEMMA InitOK == MmInit => IInv
<1> SUFFICES ASSUME MmInit PROVE IInv
  OBVIOUS
<1>1. /\ docs \in Docs /\ Single(docs["live"]) /\ bare = docs /\ index \in [Coll -> Index]
      /\ dateless \subseteq 1..Legacy
      /\ \A c \in Coll : \A e \in docs[c] : index[c].old
  <2>1. CASE /\ docs = Nothing /\ dateless = {}
             /\ index = [c \in Coll |-> [old |-> FALSE, ttl |-> "none"]]
    BY <2>1, NothingOK DEF MmInit, Index, Single, Coll
  <2>2. CASE /\ docs = [c \in Coll |-> IF c = "raw" THEN 1..Legacy ELSE {Legacy} \cap Event]
             /\ dateless \in SUBSET (1..Legacy)
             /\ index \in [Coll -> {[old |-> TRUE, ttl |-> t] : t \in {"none", "foreign", "other"}}]
    <3>1. 1..Legacy \subseteq Event
      BY DEF Event
    <3>2. docs \in Docs /\ docs["live"] = {Legacy} \cap Event
      BY <2>2, <3>1 DEF Docs, Coll
    <3>3. index \in [Coll -> Index] /\ \A c \in Coll : index[c].old
      <4>1. \A i \in {[old |-> TRUE, ttl |-> t] : t \in {"none", "foreign", "other"}} :
                i \in Index /\ i.old
        <5>1. ASSUME NEW t \in {"none", "foreign", "other"}
              PROVE  LET i == [old |-> TRUE, ttl |-> t] IN i \in Index /\ i.old
          BY DEF Index
        <5>2. QED
          BY <5>1
      <4> DEFINE L == {[old |-> TRUE, ttl |-> t] : t \in {"none", "foreign", "other"}}
      <4>2. index \in [Coll -> L] /\ \A i \in L : i \in Index /\ i.old
        BY <2>2, <4>1
      <4> HIDE DEF L
      <4>3. QED
        BY <4>2
    <3>4. QED
      BY <2>2, <3>2, <3>3 DEF Single, MmInit
  <2>3. QED
    BY <2>1, <2>2 DEF MmInit
<1>2. /\ archive = Empty /\ backup = [step |-> "idle", read |-> Empty] /\ restore = NoRestore
      /\ Empty.docs = Nothing /\ Nothing["live"] = {}
  BY NothingOK DEF MmInit, Empty, Coll
<1>3. /\ restore.step = "idle" /\ restore.source = Empty /\ restore.todo = Nothing
      /\ restore.batch = Nothing /\ ~restore.done /\ ~restore.follow
  BY <1>2 DEF NoRestore
<1>4. LiveInv
  BY <1>1, <1>2, <1>3 DEF LiveInv, Single
<1>5. /\ writer \in [Writer -> WriterRec]
      /\ \A w \in Writer : writer[w].step = "down" /\ ~writer[w].late
  BY DEF MmInit, Off, WriterRec, WriterStep
<1>6. Types
  <2>1. aged \in 0..MaxEvent /\ next \in 1..(MaxEvent + 1) /\ upsets \in 0..MaxUpsets
    BY DEF MmInit
  <2>2. QED
    BY <1>1, <1>2, <1>5, <2>1, NothingOK DEF Types
<1>7. MmTypeOK
  BY <1>4, <1>6, TypeParts
<1>8. HalfInv /\ PreparedInv
  BY <1>5 DEF HalfInv, PreparedInv, Prepared, Stamped, RawIndexed, LiveIndexed, Dropping
<1>9. FollowInv
  BY <1>3, <1>5 DEF FollowInv, MmInit
<1>10. EveryDocExpires
  BY <1>1 DEF EveryDocExpires, Covered
<1>11. HoldsInv
  BY <1>3, NothingOK DEF HoldsInv
<1>12. KeptInv /\ AloneInv /\ RestoreComplete
  BY <1>3 DEF KeptInv, AloneInv, RestoreComplete
<1>13. QED
  BY <1>4, <1>7, <1>8, <1>9, <1>10, <1>11, <1>12 DEF IInv

\* Nothing moves: everything stays true.
LEMMA StutterOK ==
    ASSUME IInv, UNCHANGED mmVars
    PROVE  IInv'
<1>1. /\ UNCHANGED <<platform, dateless, docs, bare, index, aged, next, writer, backup>>
      /\ UNCHANGED <<archive, restore, upsets>>
  BY DEF mmVars, data
<1>3. Types' /\ LiveInv' /\ HalfInv'
  BY <1>1, TypeParts DEF IInv, Types, LiveInv, HalfInv
<1>4. Loops
  BY <1>1 DEF Loops
<1>5. EveryDocExpires' /\ AloneInv'
  BY <1>1 DEF IInv, EveryDocExpires, Covered, AloneInv
<1>6. KeptInv' /\ RestoreComplete'
  BY <1>1 DEF IInv, KeptInv, Kept, RestoreComplete
<1>7. QED
  BY <1>3, <1>4, <1>5, <1>6, LoopsOK, TypedLive DEF IInv

LEMMA NextOK == IInv /\ [MmNext]_mmVars => IInv'
<1> SUFFICES ASSUME IInv, [MmNext]_mmVars PROVE IInv'
  OBVIOUS
<1>1. CASE UNCHANGED mmVars
  BY <1>1, StutterOK
<1>2. ASSUME NEW w \in Writer, Consumer(w), UNCHANGED <<platform, dateless>> PROVE IInv'
  <2>1. CASE Run(w) \/ CheckMissing(w) \/ WriteRaw(w) \/ WriteLive(w)
    BY <1>2, <2>1, RunOK, CheckMissingOK, WriteRawOK, WriteLiveOK
  <2>2. ASSUME NEW c \in Coll,
               Stamp(w, c) \/ EnsureTtl(w, c) \/ VerifyTtl(w, c) \/ DropOld(w, c)
        PROVE  IInv'
    BY <1>2, <2>2, StampOK, EnsureTtlOK, VerifyTtlOK, DropOldOK
  <2>3. QED
    BY <1>2, <2>1, <2>2 DEF Consumer
<1>3. ASSUME NEW w \in Writer, Down(w) \/ Stop(w), UNCHANGED <<platform, dateless>> PROVE IInv'
  BY <1>3, DownOK
<1>4. ASSUME Transfer, UNCHANGED <<platform, dateless>> PROVE IInv'
  <2>1. CASE BackupRaw \/ BackupLive \/ BackupFails
    BY <1>4, <2>1, BackupOK
  <2>2. CASE CheckStopped \/ CountDocuments \/ BeginImport
    BY <1>4, <2>2, CheckStoppedOK, CountDocumentsOK, BeginImportOK
  <2>3. CASE ReadRecord \/ EndOfArchive \/ ImportFails
    BY <1>4, <2>3, ReadRecordOK, EndOfArchiveOK, ImportFailsOK
  <2>4. ASSUME NEW c \in Coll, DropCollection(c) \/ InsertRest(c) PROVE IInv'
    BY <1>4, <2>4, DropCollectionOK, InsertRestOK
  <2>5. QED
    BY <1>4, <2>1, <2>2, <2>3, <2>4 DEF Transfer
<1>5. ASSUME NEW c \in Coll, Expire(c), UNCHANGED <<platform, dateless>> PROVE IInv'
  BY <1>5, ExpireOK
<1>6. QED
  BY <1>1, <1>2, <1>3, <1>4, <1>5, GrowOldOK DEF MmNext

-----------------------------------------------------------------------------
\* The inductive invariant of the database beside the writer's own loop.
THEOREM Invariance == MmSpec => []IInv
<1>1. QED
  BY InitOK, NextOK, PTL DEF MmSpec

\* MmTypeOK (consumer/mongodb_consumer.py, mongodb_transfer.py): types, one live
\* document for the aircraft, and what lacks ingested_at is a document.
THEOREM TypeCorrect == MmSpec => []MmTypeOK
<1>1. IInv => MmTypeOK
  BY DEF IInv
<1>2. QED
  BY Invariance, <1>1, PTL

\* EveryDocExpires (prepare_indexes): no start, cut short or repeated, alone or beside
\* another process of a rolling update, takes a document out of the reach of the TTL
\* monitor: dated ones are covered throughout, those without a date once the old index
\* of their collection is gone; unless a restore ran and no full start has followed it.
THEOREM Expiry == MmSpec => []EveryDocExpires
<1>1. IInv => EveryDocExpires
  BY DEF IInv
<1>2. QED
  BY Invariance, <1>1, PTL

\* PollingPrepared (prepare_indexes before subscribe): who polls has moved the database
\* to ingested_at, and nobody else moves it back.
THEOREM Preparation == MmSpec => []PollingPrepared
<1>1. IInv => PollingPrepared
  <2> SUFFICES ASSUME IInv, NEW w \in Writer, writer[w].step \in {"poll", "half"},
                      ~writer[w].late
               PROVE  /\ bare = Nothing
                      /\ \A c \in Coll : index[c] = [old |-> FALSE, ttl |-> "right"]
    BY DEF PollingPrepared
  <2>1. Types /\ Prepared(w)
    BY TypeParts DEF IInv, PreparedInv
  <2>2. \A c \in Coll : bare[c] = {} /\ index[c].ttl = "right" /\ ~index[c].old
    BY <2>1 DEF Prepared, Coll, Stamped, RawIndexed, LiveIndexed
  <2>3. bare = Nothing
    BY <2>1, <2>2 DEF Types, Docs, Nothing
  <2>4. \A i \in Index : i.ttl = "right" /\ ~i.old => i = [old |-> FALSE, ttl |-> "right"]
    BY DEF Index
  <2>5. QED
    BY <2>1, <2>2, <2>3, <2>4 DEF Types
<1>2. QED
  BY Invariance, <1>1, PTL

\* RestoreComplete (import_database, restore-mongodb.sh): a restore that reported
\* success has put back every archived document, and nothing else if it was alone.
THEOREM RestoreIsComplete == MmSpec => []RestoreComplete
<1>1. IInv => RestoreComplete
  BY DEF IInv
<1>2. QED
  BY Invariance, <1>1, PTL

-----------------------------------------------------------------------------
(* Why a start that nothing disturbs always gets to polling: the safety half *)
(* of ConsumerReturns.                                                       *)

\* With one consumer nobody drops an old index between its check and its drop.
DropInv ==
    \A w \in Writer : ~writer[w].late /\ platform = "compose" =>
        /\ writer[w].step = "drop_raw" => \A c \in writer[w].drop : index[c].old
        /\ writer[w].step = "drop_live" /\ "live" \in writer[w].drop => index["live"].old

\* A process that goes anywhere but to a drop, while the indexes stay.
LEMMA GoesElsewhere ==
    ASSUME writer \in [Writer -> WriterRec], NEW w \in Writer,
           NEW s \in WriterStep \ Dropping, Goes(w, s)
    PROVE  writer'[w].step \notin Dropping
BY GoesOK

\* Where the steps of a start and of the loop lead.
LEMMA NotDropping ==
    ASSUME writer \in [Writer -> WriterRec], NEW w \in Writer, NEW c \in Coll,
           \/ Run(w) \/ WriteRaw(w) \/ WriteLive(w) \/ Down(w) \/ Stop(w)
           \/ Stamp(w, c) \/ EnsureTtl(w, c) \/ VerifyTtl(w, c)
    PROVE  writer'[w].step \notin Dropping
<1>1. CASE Run(w)
  BY <1>1 DEF Run, WriterRec, Dropping
<1>2. CASE \/ WriteRaw(w) \/ WriteLive(w) \/ Down(w) \/ Stop(w)
  <2>1. \E s \in {"half", "poll", "down"} : Goes(w, s)
    BY <1>2 DEF WriteRaw, WriteLive, Down, Stop
  <2>2. QED
    BY <2>1, GoesElsewhere DEF WriterStep, Dropping
<1>3. CASE \/ Stamp(w, c) \/ EnsureTtl(w, c) \/ VerifyTtl(w, c)
  <2>1. \E s \in {"stamp_live", "ttl_raw", "verify_raw", "verify_live", "down", "ttl_live",
                  "check"} : Goes(w, s)
    BY <1>3 DEF Stamp, EnsureTtl, VerifyTtl, VerifyStep
  <2>2. QED
    BY <2>1, GoesElsewhere DEF WriterStep, Dropping
<1>4. QED
  BY <1>1, <1>2, <1>3

\* DropInv is preserved: under compose the one process that is up checks and drops,
\* and a restore that takes the indexes away makes it a late one.
LEMMA DropStepOK == IInv /\ DropInv /\ [MmNext]_mmVars => DropInv'
<1> SUFFICES ASSUME IInv, DropInv, [MmNext]_mmVars, NEW v \in Writer, ~writer'[v].late,
                    platform' = "compose", writer'[v].step \in Dropping
             PROVE  /\ writer'[v].step = "drop_raw" =>
                           \A c \in writer'[v].drop : index'[c].old
                    /\ writer'[v].step = "drop_live" /\ "live" \in writer'[v].drop =>
                           index'["live"].old
  BY DEF DropInv, Dropping
<1>1. Types /\ FollowInv
  BY TypeParts DEF IInv
<1>2. platform = "compose"
  BY DEF MmNext, mmVars
<1>3. ASSUME writer'[v] = writer[v]
      PROVE  /\ v = CHOOSE u \in Writer : TRUE
             /\ restore.step = "idle"
             /\ writer[v].step # "down"
  BY <1>1, <1>2, <1>3 DEF FollowInv, Dropping
<1>4. ASSUME writer'[v] = writer[v], UNCHANGED index
      PROVE  /\ writer'[v].step = "drop_raw" => \A c \in writer'[v].drop : index'[c].old
             /\ writer'[v].step = "drop_live" /\ "live" \in writer'[v].drop =>
                    index'["live"].old
  BY <1>2, <1>4 DEF DropInv
<1>5. CASE UNCHANGED <<writer, index>>
  BY <1>4, <1>5
<1>6. CASE \E c \in Coll : DropCollection(c)
  <2>1. writer'[v] = writer[v] /\ restore.step # "idle"
    BY <1>6 DEF DropCollection, RestoreOnly, DropStep
  <2>2. QED
    BY <2>1, <1>3
<1>7. ASSUME NEW w \in Writer, Consumer(w) \/ Down(w) \/ Stop(w)
      PROVE  /\ writer'[v].step = "drop_raw" => \A c \in writer'[v].drop : index'[c].old
             /\ writer'[v].step = "drop_live" /\ "live" \in writer'[v].drop =>
                    index'["live"].old
  <2>1. CASE w # v
    <3>1. writer' = [writer EXCEPT ![w] = writer'[w]]
      BY <1>1, <1>7 DEF Consumer, Down, Stop, Run, CheckMissing, WriteRaw, WriteLive, Stamp,
                        EnsureTtl, VerifyTtl, DropOld, Goes, Types, WriterRec
    <3>2. writer'[v] = writer[v]
      BY <3>1, <2>1, <1>1 DEF Types
    <3>3. w = CHOOSE u \in Writer : TRUE
      <4>1. CASE Run(w)
        BY <4>1, <1>2 DEF Run
      <4>2. CASE writer[w].step # "down"
        BY <4>2, <1>1, <1>2 DEF FollowInv
      <4>3. QED
        BY <4>1, <4>2, <1>7 DEF Consumer, Down, Stop, CheckMissing, WriteRaw, WriteLive, Stamp,
             EnsureTtl, VerifyTtl, DropOld, StampStep, TtlStep, VerifyStep, DropStep
    <3>4. QED
      BY <3>2, <3>3, <2>1, <1>3
  <2>2. CASE w = v /\ CheckMissing(v)
    <3>1. index' = index /\ writer'[v].step = "drop_raw"
          /\ writer'[v].drop \subseteq {c \in Coll : index[c].old}
      BY <2>2, <1>1 DEF CheckMissing, data, Types, WriterRec
    <3>2. QED
      BY <3>1
  <2>3. ASSUME NEW c \in Coll, w = v, DropOld(v, c)
        PROVE  /\ writer'[v].step = "drop_raw" => \A d \in writer'[v].drop : index'[d].old
               /\ writer'[v].step = "drop_live" /\ "live" \in writer'[v].drop =>
                      index'["live"].old
    <3>1. c = "raw" /\ Goes(v, "drop_live") /\ writer[v].step = "drop_raw"
      <4>1. Goes(v, "poll") \/ Goes(v, "down")  => FALSE
        BY <1>1, GoesElsewhere DEF WriterStep, Dropping, Types
      <4>2. QED
        BY <4>1, <2>3 DEF DropOld, DropStep
    <3>2. /\ writer'[v].step = "drop_live" /\ writer'[v].late = writer[v].late
          /\ writer'[v].drop = writer[v].drop
      BY <3>1, <1>1, GoesOK DEF WriterStep, Types
    <3>3. index'["live"] = index["live"]
      BY <3>1, <2>3, <1>1 DEF DropOld, Types, Coll
    <3>4. QED
      BY <3>1, <3>2, <3>3, <1>2 DEF DropInv
  <2>4. CASE w = v /\ ~CheckMissing(v) /\ ~\E c \in Coll : DropOld(v, c)
    <3>1. "raw" \in Coll
      BY DEF Coll
    <3>2. QED
      BY <2>4, <1>1, <1>7, <3>1, NotDropping DEF Consumer, Types
  <2>5. QED
    BY <2>1, <2>2, <2>3, <2>4
<1>8. CASE Transfer
  <2>1. CASE BackupRaw \/ BackupLive \/ BackupFails
    BY <2>1, <1>5 DEF BackupRaw, BackupLive, BackupFails, data
  <2>2. CASE CheckStopped \/ CountDocuments \/ BeginImport \/ EndOfArchive \/ ImportFails
    BY <2>2, <1>5 DEF CheckStopped, CountDocuments, BeginImport, EndOfArchive, ImportFails,
                      RestoreOnly, data
  <2>3. CASE ReadRecord \/ \E c \in Coll : InsertRest(c)
    BY <2>3, <1>5 DEF ReadRecord, InsertRest, RestoreOnly
  <2>4. QED
    BY <2>1, <2>2, <2>3, <1>6, <1>8 DEF Transfer
<1>9. CASE GrowOld \/ \E c \in Coll : Expire(c)
  BY <1>9, <1>5 DEF GrowOld, Expire, data
<1>10. QED
  BY <1>5, <1>7, <1>8, <1>9 DEF MmNext, mmVars, data

\* An index of the configured name on another key is met before anything is dropped: its
\* collection has its old index, and who got past ensure_ttl_index did not find it.
KeyInv ==
    /\ \A c \in Coll : index[c].ttl = "foreign" => index[c].old
    /\ \A w \in Writer :
           /\ writer[w].step \in RawIndexed => index["raw"].ttl # "foreign"
           /\ writer[w].step \in LiveIndexed => index["live"].ttl # "foreign"

\* What a step of w has to show: nobody makes such an index, an old index goes only
\* beside another one, and w gets past ensure_ttl_index only with a right index.
LEMMA KeyKept ==
    ASSUME KeyInv, NEW w \in Writer, \A v \in Writer \ {w} : writer'[v] = writer[v],
           \A c \in Coll : /\ index'[c].ttl \in {index[c].ttl, "right", "none"}
                           /\ index'[c].old = index[c].old \/ index'[c].ttl # "foreign",
           writer'[w].step \in RawIndexed =>
               writer[w].step \in RawIndexed \/ index'["raw"].ttl = "right",
           writer'[w].step \in LiveIndexed =>
               writer[w].step \in LiveIndexed \/ index'["live"].ttl = "right"
    PROVE  KeyInv'
<1>1. \A c \in Coll : index'[c].ttl = "foreign" => index'[c].old
  BY DEF KeyInv
<1>2. "raw" \in Coll /\ "live" \in Coll
  BY DEF Coll
<1>3. ASSUME NEW v \in Writer
      PROVE  /\ writer'[v].step \in RawIndexed => index'["raw"].ttl # "foreign"
             /\ writer'[v].step \in LiveIndexed => index'["live"].ttl # "foreign"
  <2>1. CASE v = w
    BY <1>2, <2>1 DEF KeyInv
  <2>2. CASE v # w
    BY <1>2, <2>2 DEF KeyInv
  <2>3. QED
    BY <2>1, <2>2
<1>4. QED
  BY <1>1, <1>3 DEF KeyInv

\* Who goes from one step of a start or of the loop to the next, while the indexes stay.
LEMMA KeyGoes ==
    ASSUME Types, KeyInv, NEW w \in Writer, NEW s \in WriterStep, Goes(w, s), UNCHANGED index,
           s \in RawIndexed => writer[w].step \in RawIndexed,
           s \in LiveIndexed => writer[w].step \in LiveIndexed
    PROVE  KeyInv'
<1>1. /\ writer'[w].step = s /\ \A v \in Writer \ {w} : writer'[v] = writer[v]
  BY GoesOK DEF Types
<1>2. QED
  BY <1>1, KeyKept

LEMMA KeyEnsure ==
    ASSUME Types, KeyInv, NEW w \in Writer, NEW c \in Coll, EnsureTtl(w, c)
    PROVE  KeyInv'
<1>1. CASE index[c].ttl = "foreign"
  <2>1. Goes(w, "down") /\ UNCHANGED index
    BY <1>1 DEF EnsureTtl
  <2>2. QED
    BY <2>1, KeyGoes DEF WriterStep, Stamped, RawIndexed, LiveIndexed
<1>2. CASE index[c].ttl # "foreign"
  <2>1. Goes(w, VerifyStep(c)) /\ VerifyStep(c) \in WriterStep
    BY <1>2 DEF EnsureTtl, VerifyStep, WriterStep
  <2>2. writer'[w].step = VerifyStep(c) /\ \A v \in Writer \ {w} : writer'[v] = writer[v]
    BY <2>1, GoesOK DEF Types
  <2>3. /\ index'[c].ttl = "right" /\ index'[c].old = index[c].old
        /\ \A d \in Coll \ {c} : index'[d] = index[d]
    BY <1>2 DEF EnsureTtl, Types, Index
  <2>4. \A d \in Coll : /\ index'[d].ttl \in {index[d].ttl, "right", "none"}
                        /\ index'[d].old = index[d].old \/ index'[d].ttl # "foreign"
    BY <2>3
  <2>5. /\ writer'[w].step \in RawIndexed =>
              writer[w].step \in RawIndexed \/ index'["raw"].ttl = "right"
        /\ writer'[w].step \in LiveIndexed =>
              writer[w].step \in LiveIndexed \/ index'["live"].ttl = "right"
    <3>1. CASE c = "raw"
      BY <2>2, <2>3, <3>1 DEF VerifyStep, LiveIndexed
    <3>2. CASE c = "live"
      <4>1. writer[w].step = "ttl_live"
        BY <3>2 DEF EnsureTtl, TtlStep
      <4>2. QED
        BY <2>3, <3>2, <4>1 DEF Stamped, RawIndexed
    <3>3. QED
      BY <3>1, <3>2 DEF Coll
  <2>6. QED
    BY <2>2, <2>4, <2>5, KeyKept
<1>3. QED
  BY <1>1, <1>2

LEMMA KeyDrop ==
    ASSUME Types, KeyInv, NEW w \in Writer, NEW c \in Coll, DropOld(w, c)
    PROVE  KeyInv'
<1>1. /\ writer[w].step \in RawIndexed /\ writer[w].step \in LiveIndexed
      /\ \A d \in Coll : index[d].ttl # "foreign"
  <2>1. writer[w].step \in RawIndexed /\ writer[w].step \in LiveIndexed
    BY DEF DropOld, DropStep, Stamped, RawIndexed, LiveIndexed
  <2>2. QED
    BY <2>1 DEF KeyInv, Coll
<1>2. \A v \in Writer \ {w} : writer'[v] = writer[v]
  <2>1. \E s \in {"drop_live", "poll", "down"} : Goes(w, s)
    BY DEF DropOld
  <2>2. PICK s \in {"drop_live", "poll", "down"} : Goes(w, s)
    BY <2>1
  <2>3. s \in WriterStep
    BY DEF WriterStep
  <2>4. QED
    BY <2>2, <2>3, GoesOK DEF Types
<1>3. \A d \in Coll : index'[d].ttl = index[d].ttl
  BY DEF DropOld, Types, Index
<1>4. QED
  BY <1>1, <1>2, <1>3, KeyKept

LEMMA KeyStepOK == IInv /\ KeyInv /\ [MmNext]_mmVars => KeyInv'
<1> SUFFICES ASSUME IInv, KeyInv, [MmNext]_mmVars PROVE KeyInv'
  OBVIOUS
<1>1. Types
  BY TypeParts DEF IInv
<1>2. CASE UNCHANGED <<writer, index>>
  BY <1>2 DEF KeyInv
<1>3. ASSUME NEW w \in Writer, Consumer(w) PROVE KeyInv'
  <2>1. CASE Run(w)
    <3>1. /\ writer'[w].step = "stamp_raw" /\ \A v \in Writer \ {w} : writer'[v] = writer[v]
          /\ UNCHANGED index
      BY <1>1, <2>1 DEF Run, data, Types, WriterRec
    <3>2. QED
      BY <3>1, KeyKept DEF Stamped, RawIndexed, LiveIndexed
  <2>2. CASE CheckMissing(w)
    <3>1. /\ writer[w].step = "check" /\ \A v \in Writer \ {w} : writer'[v] = writer[v]
          /\ UNCHANGED index
      BY <1>1, <2>2 DEF CheckMissing, data, Types, WriterRec
    <3>2. QED
      BY <3>1, KeyKept DEF Stamped, RawIndexed, LiveIndexed
  <2>3. CASE WriteRaw(w) \/ WriteLive(w)
    <3>1. /\ writer[w].step \in {"poll", "half"} /\ UNCHANGED index
          /\ Goes(w, "half") \/ Goes(w, "poll")
      BY <2>3 DEF WriteRaw, WriteLive
    <3>2. QED
      BY <1>1, <3>1, KeyGoes DEF WriterStep, Stamped, RawIndexed, LiveIndexed
  <2>4. ASSUME NEW c \in Coll, Stamp(w, c) PROVE KeyInv'
    <3>1. (Goes(w, "stamp_live") \/ Goes(w, "ttl_raw")) /\ UNCHANGED index
      BY <2>4 DEF Stamp
    <3>2. QED
      BY <1>1, <3>1, KeyGoes DEF WriterStep, Stamped, RawIndexed, LiveIndexed
  <2>5. ASSUME NEW c \in Coll, VerifyTtl(w, c) PROVE KeyInv'
    <3>1. UNCHANGED index
      BY <2>5 DEF VerifyTtl, data
    <3>2. CASE Goes(w, "down")
      BY <1>1, <3>1, <3>2, KeyGoes DEF WriterStep, Stamped, RawIndexed, LiveIndexed
    <3>3. CASE writer[w].step = "verify_raw" /\ Goes(w, "ttl_live")
      BY <1>1, <3>1, <3>3, KeyGoes DEF WriterStep, Stamped, RawIndexed, LiveIndexed
    <3>4. CASE writer[w].step = "verify_live" /\ Goes(w, "check")
      BY <1>1, <3>1, <3>4, KeyGoes DEF WriterStep, Stamped, RawIndexed, LiveIndexed
    <3>5. QED
      BY <2>5, <3>2, <3>3, <3>4 DEF VerifyTtl, VerifyStep, Coll
  <2>6. QED
    BY <1>1, <1>3, <2>1, <2>2, <2>3, <2>4, <2>5, KeyEnsure, KeyDrop DEF Consumer
<1>4. ASSUME NEW w \in Writer, Down(w) \/ Stop(w) PROVE KeyInv'
  <2>1. Goes(w, "down") /\ UNCHANGED index
    BY <1>4 DEF Down, Stop, data
  <2>2. QED
    BY <1>1, <2>1, KeyGoes DEF WriterStep, Stamped, RawIndexed, LiveIndexed
<1>5. ASSUME NEW c \in Coll, DropCollection(c) PROVE KeyInv'
  <2>1. UNCHANGED writer
    BY <1>5 DEF DropCollection, RestoreOnly
  <2>2. index'[c].ttl = "none" /\ \A d \in Coll \ {c} : index'[d] = index[d]
    BY <1>1, <1>5 DEF DropCollection, Types
  <2>3. QED
    BY <2>1, <2>2 DEF KeyInv, Coll
<1>6. CASE Transfer
  <2>1. CASE BackupRaw \/ BackupLive \/ BackupFails
    BY <2>1, <1>2 DEF BackupRaw, BackupLive, BackupFails, data
  <2>2. CASE CheckStopped \/ CountDocuments \/ BeginImport \/ EndOfArchive \/ ImportFails
    BY <2>2, <1>2 DEF CheckStopped, CountDocuments, BeginImport, EndOfArchive, ImportFails,
                      RestoreOnly, data
  <2>3. CASE ReadRecord \/ \E c \in Coll : InsertRest(c)
    BY <2>3, <1>2 DEF ReadRecord, InsertRest, RestoreOnly
  <2>4. QED
    BY <2>1, <2>2, <2>3, <1>5, <1>6 DEF Transfer
<1>7. CASE GrowOld \/ \E c \in Coll : Expire(c)
  BY <1>7, <1>2 DEF GrowOld, Expire, data
<1>8. QED
  BY <1>2, <1>3, <1>4, <1>6, <1>7 DEF MmNext, mmVars, data

\* StartsGoOn (prepare_indexes): a start that overlaps no restore ends only by a kill, a
\* failing call, an index of the configured name on another key, and then the old index
\* of its collection is still there, or, in a rolling update, because the other process
\* has dropped the old index first; its own earlier steps never make a later one fail.
THEOREM StartsSucceed == MmSpec => []StartsGoOn
<1>1. MmInit => DropInv /\ KeyInv
  <2> SUFFICES ASSUME MmInit PROVE DropInv /\ KeyInv
    OBVIOUS
  <2>1. \A w \in Writer : writer[w].step = "down"
    BY DEF MmInit, Off
  <2>2. \A c \in Coll : index[c].ttl = "foreign" => index[c].old
    <3>1. \A i \in {[old |-> TRUE, ttl |-> t] : t \in {"none", "foreign", "other"}} : i.old
      OBVIOUS
    <3>2. CASE index = [c \in Coll |-> [old |-> FALSE, ttl |-> "none"]]
      BY <3>2
    <3>3. QED
      BY <3>1, <3>2 DEF MmInit
  <2>3. QED
    BY <2>1, <2>2 DEF DropInv, KeyInv, Stamped, RawIndexed, LiveIndexed
<1>2. IInv /\ DropInv /\ KeyInv => StartsGoOn
  <2>0. KeyInv => \A c \in Coll : index[c].ttl = "foreign" => index[c].old
    BY DEF KeyInv
  <2> SUFFICES ASSUME IInv, DropInv, NEW w \in Writer, ~writer[w].late
               PROVE  /\ \A c \in Coll : writer[w].step = VerifyStep(c) => index[c].ttl = "right"
                      /\ writer[w].step = "check" => bare = Nothing
                      /\ platform = "compose" =>
                             \A c \in writer[w].drop :
                                 writer[w].step = DropStep(c) => index[c].old
    BY <2>0 DEF StartsGoOn
  <2>1. Types /\ Prepared(w)
    BY TypeParts DEF IInv, PreparedInv
  <2>2. \A c \in Coll : writer[w].step = VerifyStep(c) => index[c].ttl = "right"
    BY <2>1 DEF Prepared, VerifyStep, Coll, RawIndexed, LiveIndexed, Stamped
  <2>3. writer[w].step = "check" => bare = Nothing
    BY <2>1 DEF Prepared, Stamped, Types, Docs, Nothing, Coll
  <2>4. writer[w].drop \subseteq Coll
    BY <2>1 DEF Types, WriterRec
  <2>5. QED
    BY <2>2, <2>3, <2>4 DEF DropInv, DropStep, Coll
<1>3. QED
  BY <1>1, <1>2, InitOK, NextOK, DropStepOK, KeyStepOK, PTL DEF MmSpec
=============================================================================
