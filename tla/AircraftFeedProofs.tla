-------------------------- MODULE AircraftFeedProofs --------------------------
(***************************************************************************)
(* Proofs about AircraftFeed for every set of aircraft, every set of times *)
(* and every bound: no received update is forgotten, a snapshot does not   *)
(* hide what arrived after it, and the browser never steps back in time    *)
(* unless MongoDB was behind the gateway.                                  *)
(***************************************************************************)
EXTENDS AircraftFeed, TLAPS

Icao(o) == log[o + 1].icao24
Seen(o) == log[o + 1].observed_at

\* The messages of one aircraft among the first n.
Mine(n, a) == {o \in 0 .. n - 1 : Icao(o) = a}

FirstNewest(n, a, o) ==
    \A p \in Mine(n, a) : Seen(o) > Seen(p) \/ (Seen(o) = Seen(p) /\ o <= p)

\* Of the messages of an aircraft one is the first newest: what Live chooses from is not empty.
BestInv ==
    \A n \in 0 .. Len(log) : \A a \in Aircraft :
        Mine(n, a) # {} => \E o \in Mine(n, a) : FirstNewest(n, a, o)

\* An update comes from one of the first n messages.
From(u, a, n) == u = None \/ \E o \in Mine(n, a) : u = Update(o)

\* Everything the browser can know of.
Known == IF sent < stored THEN stored ELSE sent

Origins ==
    /\ \A a \in Aircraft : /\ From(shown[a], a, Known)
                           /\ From(pending[a], a, sent)
                           /\ From(snap[a], a, stored)
    /\ \A i \in DOMAIN inbox : inbox[i] < sent

\* While a refresh runs, what it has to keep is pending, and a snapshot that is
\* not behind is at least as new as what it will replace.
RefreshInv ==
    /\ fetch \in {"sent", "answered"} =>
          \A a \in Aircraft :
              during[a] # None => pending[a] # None /\ Newer(during[a], pending[a])
    /\ fetch = "answered" /\ ~lagged =>
          \A a \in Aircraft : shown[a].observed_at <= snap[a].observed_at

IInv ==
    /\ TypeOK /\ BestInv /\ Origins
    /\ PendingHasFlush /\ RefreshInv /\ SnapshotKeepsReceived

USE FeedBounds

-----------------------------------------------------------------------------
(* Updates and merging.                                                    *)

\* Times are natural numbers.
LEMMA Times == \A t \in Time \cup {0} : t \in Nat
OBVIOUS

\* What the log says of a message.
LEMMA Message ==
    ASSUME TypeOK, NEW o \in 0 .. Len(log) - 1
    PROVE  /\ Icao(o) \in Aircraft /\ Seen(o) \in Time /\ Seen(o) \in Nat \ {0}
           /\ Update(o) \in UpdateType
           /\ Update(o) # None
<1>1. o + 1 \in 1 .. Len(log) /\ Len(log) \in Nat /\ Len(log) <= MaxLog
  BY DEF TypeOK
<1>2. \A i \in 1 .. Len(log) : log[i] \in [icao24 : Aircraft, observed_at : Time]
  <2>1. log \in Seq([icao24 : Aircraft, observed_at : Time])
    BY DEF TypeOK
  <2>2. ASSUME NEW S, NEW s \in Seq(S) PROVE \A i \in 1 .. Len(s) : s[i] \in S
    OBVIOUS
  <2>3. QED
    BY <2>1, <2>2, Zenon
<1>3. log[o + 1] \in [icao24 : Aircraft, observed_at : Time]
  BY <1>1, <1>2
<1>4. Icao(o) \in Aircraft /\ Seen(o) \in Time
  BY <1>3 DEF Icao, Seen
<1>5. Seen(o) \in Nat \ {0}
  BY <1>4 DEF Seen
<1>6. o \in -1 .. MaxLog - 1 /\ o # -1
  BY <1>1
<1>7. Update(o) = [observed_at |-> Seen(o), kafka_offset |-> o]
  BY DEF Update, Seen
<1>8. Update(o) \in UpdateType
  BY <1>4, <1>6, <1>7 DEF UpdateType
<1>9. Update(o).kafka_offset = o /\ None.kafka_offset = -1
  BY <1>7 DEF None
<1>10. QED
  BY <1>4, <1>5, <1>6, <1>8, <1>9

\* Merging keeps the type, does not lose age, and what it drops is older.
LEMMA Merging ==
    ASSUME NEW u \in UpdateType, NEW v \in UpdateType
    PROVE  /\ Merged(u, v) \in UpdateType
           /\ Merged(u, v) \in {u, v}
           /\ v # None => Merged(u, v) # None
           /\ v.observed_at <= Merged(u, v).observed_at
           /\ u.observed_at <= Merged(u, v).observed_at
           /\ v # None => Newer(v, Merged(u, v))
           /\ \A w \in UpdateType : Newer(w, u) /\ u # None => Newer(w, Merged(u, v))
<1>0. \A w \in UpdateType :
         /\ w.observed_at \in Nat
         /\ w.kafka_offset \in Int /\ -1 <= w.kafka_offset
         /\ w = [observed_at |-> w.observed_at, kafka_offset |-> w.kafka_offset]
  <2> SUFFICES ASSUME NEW w \in UpdateType
               PROVE  /\ w.observed_at \in Nat
                      /\ w.kafka_offset \in Int /\ -1 <= w.kafka_offset
                      /\ w = [observed_at |-> w.observed_at, kafka_offset |-> w.kafka_offset]
    OBVIOUS
  <2>1. w.observed_at \in Time \cup {0} /\ w.kafka_offset \in -1 .. MaxLog - 1
    BY DEF UpdateType
  <2>2. w.observed_at \in Nat
    BY <2>1, Times
  <2>3. w = [observed_at |-> w.observed_at, kafka_offset |-> w.kafka_offset]
    BY DEF UpdateType
  <2>4. QED
    BY <2>1, <2>2, <2>3
<1>1. /\ u.observed_at \in Nat /\ v.observed_at \in Nat
      /\ u.kafka_offset \in Int /\ v.kafka_offset \in Int
  BY <1>0
<1>2. CASE u = None
  <2>1. u.observed_at = 0 /\ Newer(u, v)
    BY <1>2 DEF None, Newer
  <2>2. Merged(u, v) = v
    BY <2>1 DEF Merged
  <2>3. v # None => Newer(v, v)
    BY <1>1 DEF Newer
  <2>4. QED
    BY <1>1, <1>2, <2>1, <2>2, <2>3
<1>3. CASE u # None /\ Newer(u, v)
  <2>1. Merged(u, v) = v
    BY <1>3 DEF Merged
  <2>2. u.observed_at <= v.observed_at
    BY <1>1, <1>3 DEF Newer
  <2>3. \A w \in UpdateType : Newer(w, u) => Newer(w, v)
    <3> SUFFICES ASSUME NEW w \in UpdateType, Newer(w, u) PROVE Newer(w, v)
      OBVIOUS
    <3>1. w.observed_at \in Nat /\ w.kafka_offset \in Int
      BY <1>0
    <3>2. QED
      BY <1>1, <1>3, <3>1 DEF Newer
  <2>4. Newer(v, v)
    BY <1>1 DEF Newer
  <2>5. v # None
    <3> SUFFICES ASSUME v = None PROVE FALSE
      OBVIOUS
    <3>1. v.observed_at = 0 /\ v.kafka_offset = -1
      BY DEF None
    <3>2. u.observed_at = 0 /\ u.kafka_offset = -1
      BY <1>0, <1>1, <1>3, <3>1 DEF Newer
    <3>3. QED
      BY <1>0, <1>3, <3>2 DEF None
  <2>6. QED
    BY <1>1, <2>1, <2>2, <2>3, <2>4, <2>5
<1>4. CASE u # None /\ ~Newer(u, v)
  <2>1. Merged(u, v) = u
    BY <1>4 DEF Merged
  <2>2. v.observed_at <= u.observed_at /\ Newer(v, u)
    BY <1>1, <1>4 DEF Newer
  <2>3. QED
    BY <1>1, <1>4, <2>1, <2>2
<1>5. QED
  BY <1>2, <1>3, <1>4

\* Newer is transitive on updates.
LEMMA NewerTransitive ==
    ASSUME NEW u \in UpdateType, NEW v \in UpdateType, NEW w \in UpdateType,
           v # None, Newer(u, v), Newer(v, w)
    PROVE  Newer(u, w)
<1>1. \A x \in UpdateType : x.observed_at \in Nat /\ x.kafka_offset \in Int
  <2> SUFFICES ASSUME NEW x \in UpdateType
               PROVE  x.observed_at \in Nat /\ x.kafka_offset \in Int
    OBVIOUS
  <2>1. x.observed_at \in Time \cup {0} /\ x.kafka_offset \in -1 .. MaxLog - 1
    BY DEF UpdateType
  <2>2. x.observed_at \in Nat
    BY <2>1, Times
  <2>3. x.kafka_offset \in Int
    BY <2>1
  <2>4. QED
    BY <2>2, <2>3
<1>2. QED
  BY <1>1 DEF Newer

\* Merging a map of updates, aircraft by aircraft.
LEMMA MergingAll ==
    ASSUME NEW f \in [Aircraft -> UpdateType], NEW g \in [Aircraft -> UpdateType]
    PROVE  /\ MergedAll(f, g) \in [Aircraft -> UpdateType]
           /\ \A a \in Aircraft :
                 /\ MergedAll(f, g)[a] \in {f[a], g[a]}
                 /\ f[a].observed_at <= MergedAll(f, g)[a].observed_at
                 /\ g[a] # None => MergedAll(f, g)[a] = Merged(f[a], g[a])
<1> DEFINE h == MergedAll(f, g)
<1>1. \A a \in Aircraft :
         h[a] = IF g[a] = None THEN f[a] ELSE Merged(f[a], g[a])
  BY DEF MergedAll
<1>2. ASSUME NEW a \in Aircraft
      PROVE  /\ h[a] \in UpdateType /\ h[a] \in {f[a], g[a]}
             /\ f[a].observed_at <= h[a].observed_at
             /\ g[a] # None => h[a] = Merged(f[a], g[a])
  <2>1. f[a] \in UpdateType /\ g[a] \in UpdateType
    OBVIOUS
  <2>2. f[a].observed_at \in Nat
    <3>1. f[a].observed_at \in Time \cup {0}
      BY <2>1 DEF UpdateType
    <3>2. QED
      BY <3>1, Times
  <2>3. QED
    BY <1>1, <2>1, <2>2, Merging
<1>3. h \in [Aircraft -> UpdateType]
  BY <1>2 DEF MergedAll
<1>4. QED
  BY <1>2, <1>3

-----------------------------------------------------------------------------
(* What MongoDB answers.                                                   *)

\* A message is newer than another as its time and then its offset say.
LEMMA NewerMessage ==
    ASSUME NEW o \in Nat, NEW p \in Nat
    PROVE  Newer(Update(p), Update(o)) <=>
              Seen(o) > Seen(p) \/ (Seen(o) = Seen(p) /\ o >= p)
<1>1. Update(p) # None
  <2>1. Update(p).kafka_offset = p /\ None.kafka_offset = -1
    BY DEF Update, None
  <2>2. QED
    BY <2>1
<1>2. /\ Update(o).observed_at = Seen(o) /\ Update(o).kafka_offset = o
      /\ Update(p).observed_at = Seen(p) /\ Update(p).kafka_offset = p
  BY DEF Update, Seen
<1>3. QED
  BY <1>1, <1>2 DEF Newer

\* Of the offsets S with times f there is a first newest one.
HasFirst(S, f) ==
    \E o \in S : \A p \in S : f[o] > f[p] \/ (f[o] = f[p] /\ o <= p)

\* A set of offsets with a first newest one still has one after one more offset.
LEMMA OneMore ==
    ASSUME NEW new \in Nat, NEW M, M \subseteq 0 .. new - 1,
           NEW N, N # {}, M \subseteq N, \A o \in N : o \in M \/ o = new,
           NEW f \in [N -> Nat],
           M # {} => HasFirst(M, f)
    PROVE  HasFirst(N, f)
<1> USE DEF HasFirst
<1>0. \A o \in N : f[o] \in Nat /\ o \in Nat /\ o <= new
  OBVIOUS
<1>1. CASE new \notin N
  <2>1. M = N
    BY <1>1
  <2>2. QED
    BY <2>1
<1>2. CASE new \in N /\ M = {}
  <2>1. N = {new}
    BY <1>2
  <2>2. QED
    BY <1>0, <2>1
<1>3. CASE new \in N /\ M # {}
  <2>1. PICK o \in M : \A p \in M : f[o] > f[p] \/ (f[o] = f[p] /\ o <= p)
    BY <1>3
  <2>3. \E best \in N : \A p \in N : f[best] > f[p] \/ (f[best] = f[p] /\ best <= p)
    <3>1. CASE f[new] > f[o]
      <4>1. \A p \in N : f[new] > f[p] \/ (f[new] = f[p] /\ new <= p)
        BY <1>0, <1>3, <2>1, <3>1
      <4>2. QED
        BY <1>3, <4>1
    <3>2. CASE f[new] <= f[o]
      <4>1. \A p \in N : f[o] > f[p] \/ (f[o] = f[p] /\ o <= p)
        BY <1>0, <1>3, <2>1, <3>2
      <4>2. QED
        BY <4>1
    <3>3. QED
      BY <1>0, <1>3, <3>1, <3>2
  <2>4. QED
    BY <2>3
<1>4. QED
  BY <1>1, <1>2, <1>3

\* One more message leaves one of them the first newest.
LEMMA BestStep ==
    ASSUME TypeOK, BestInv, NEW r \in [icao24 : Aircraft, observed_at : Time],
           log' = Append(log, r), TypeOK'
    PROVE  BestInv'
<1>1. /\ Len(log) \in Nat /\ Len(log') = Len(log) + 1
      /\ log'[Len(log) + 1] = r
      /\ \A i \in 1 .. Len(log) : log'[i] = log[i]
  BY SMTT(30) DEF TypeOK
<1>2. \A o \in 0 .. Len(log) - 1 : /\ Icao(o)' = Icao(o) /\ Seen(o)' = Seen(o)
                                   /\ Update(o)' = Update(o)
  BY <1>1 DEF Icao, Seen, Update
<1> SUFFICES ASSUME NEW n \in 0 .. Len(log'), NEW a \in Aircraft, Mine(n, a)' # {}
             PROVE  \E o \in Mine(n, a)' : FirstNewest(n, a, o)'
  BY DEF BestInv
<1>3. CASE n <= Len(log)
  <2>1. n \in 0 .. Len(log) /\ \A o \in 0 .. n - 1 : o \in 0 .. Len(log) - 1
    BY <1>1, <1>3
  <2>2. Mine(n, a)' = Mine(n, a)
    BY <1>2, <2>1 DEF Mine
  <2>3. \A o \in Mine(n, a) : FirstNewest(n, a, o)' <=> FirstNewest(n, a, o)
    <3>1. \A o \in Mine(n, a) : Seen(o)' = Seen(o) /\ Update(o)' = Update(o)
      BY <1>2, <2>1 DEF Mine
    <3>2. QED
      BY <2>2, <3>1 DEF FirstNewest, Newer
  <2>4. QED
    BY <2>1, <2>2, <2>3 DEF BestInv
<1>4. CASE n = Len(log) + 1
  <2>e. PICK new \in Nat : new = Len(log)
    BY <1>1
  <2> DEFINE M == Mine(new, a)
             N == {o \in 0 .. n - 1 : Icao(o)' = a}
  <2>0. Mine(n, a)' = N
    BY DEF Mine
  <2>1. \A o \in N : o \in M \/ o = new
    BY <1>1, <1>2, <1>4, <2>e DEF Mine
  <2>2. M \subseteq N
    BY <1>1, <1>2, <1>4, <2>e DEF Mine
  <2>3. \A o \in N : o \in 0 .. Len(log') - 1
    BY <1>1, <1>4, <2>e
  <2>4. \A o \in M : Seen(o)' = Seen(o) /\ Seen(o) \in Nat
    BY <1>2, <2>e, Message DEF Mine
  <2>5. Seen(new)' \in Nat
    <3>1. Seen(new)' = r.observed_at /\ r.observed_at \in Time
      BY <1>1, <2>e DEF Seen
    <3>2. QED
      BY <3>1, Times
  <2> DEFINE f == [o \in N |-> Seen(o)']
  <2>6. f \in [N -> Nat]
    BY <2>1, <2>4, <2>5
  <2>7. M \subseteq 0 .. new - 1 /\ N # {}
    BY <2>0 DEF Mine
  <2>8. M # {} => HasFirst(M, f)
    <3>1. \A o \in M : f[o] = Seen(o)
      BY <2>2, <2>4
    <3>2. new \in 0 .. Len(log)
      BY <1>1, <2>e
    <3>3. M # {} =>
             \E o \in M : \A p \in M : Seen(o) > Seen(p) \/ (Seen(o) = Seen(p) /\ o <= p)
      BY <3>2 DEF BestInv, FirstNewest
    <3> HIDE DEF M, N, f
    <3>4. QED
      BY <3>1, <3>3 DEF HasFirst
  <2>9. HasFirst(N, f)
    <3> HIDE DEF M, N, f
    <3>1. QED
      BY <2>1, <2>2, <2>6, <2>7, <2>8, OneMore
  <2>10. QED
    BY <2>0, <2>9 DEF HasFirst, FirstNewest
<1>5. QED
  BY <1>1, <1>3, <1>4

\* The live document of an aircraft is one of its messages, none of them is newer.
LEMMA LiveFacts ==
    ASSUME TypeOK, BestInv, NEW n \in 0 .. Len(log), NEW a \in Aircraft
    PROVE  /\ Live(n)[a] \in UpdateType
           /\ From(Live(n)[a], a, n)
           /\ \A o \in Mine(n, a) : Seen(o) <= Live(n)[a].observed_at
<1> DEFINE mine == {o \in 0 .. n - 1 : log[o + 1].icao24 = a}
           best == {o \in mine : \A p \in mine :
                        \/ log[o + 1].observed_at > log[p + 1].observed_at
                        \/ log[o + 1].observed_at = log[p + 1].observed_at /\ o <= p}
<1>1. Live(n)[a] = IF mine = {} THEN None ELSE Update(CHOOSE o \in best : TRUE)
  BY DEF Live
<1>2. mine = Mine(n, a)
  BY DEF Mine, Icao
<1>3. \A o \in mine : o \in 0 .. Len(log) - 1
  BY DEF TypeOK
<1>4. CASE mine = {}
  <2>1. None \in UpdateType
    BY DEF None, UpdateType
  <2>2. QED
    BY <1>1, <1>2, <1>4, <2>1 DEF From
<1>5. CASE mine # {}
  <2>1. \E o \in best : TRUE
    <3>1. PICK o \in mine : FirstNewest(n, a, o)
      BY <1>2, <1>5 DEF BestInv
    <3>2. o \in best
      BY <1>2, <3>1 DEF FirstNewest, Seen
    <3>3. QED
      BY <3>2
  <2>2. PICK o \in best : Live(n)[a] = Update(o)
    BY <1>1, <1>5, <2>1
  <2>3. o \in mine /\ \A p \in mine : Seen(p) \in Nat /\ Seen(o) \in Nat
    BY <1>3, Message
  <2>4. \A p \in mine : Seen(p) <= Seen(o)
    BY <2>3 DEF Seen
  <2>5. Update(o) \in UpdateType /\ Update(o).observed_at = Seen(o)
    BY <1>3, Message DEF Update, Seen
  <2>6. QED
    BY <1>2, <2>2, <2>3, <2>4, <2>5 DEF From
<1>6. QED
  BY <1>4, <1>5

-----------------------------------------------------------------------------
(* Single steps.                                                           *)

LEMMA NothingType == Nothing \in [Aircraft -> UpdateType] /\ \A a \in Aircraft : Nothing[a] = None
BY DEF Nothing, None, UpdateType

\* The snapshot the server answers with.
LEMMA LiveType ==
    ASSUME TypeOK, BestInv PROVE Live(stored) \in [Aircraft -> UpdateType]
<1>1. \A a \in Aircraft : Live(stored)[a] \in UpdateType
  BY LiveFacts DEF TypeOK
<1>2. QED
  BY <1>1 DEF Live

\* What onmessage does to the pending updates and to the history.
LEMMA Delivered ==
    ASSUME TypeOK, OnMessage
    PROVE  \E o \in 0 .. Len(log) - 1, a \in Aircraft :
              /\ a = Icao(o) /\ o \in {inbox[i] : i \in DOMAIN inbox}
              /\ pending' = [pending EXCEPT ![a] = Merged(pending[a], Update(o))]
              /\ during' = IF Syncing
                             THEN [during EXCEPT ![a] = Merged(during[a], Update(o))]
                             ELSE during
              /\ \A i \in DOMAIN inbox' : inbox'[i] \in {inbox[j] : j \in DOMAIN inbox}
              /\ inbox' \in Seq(0 .. Len(log) - 1)
<1>1. inbox \in Seq(0 .. Len(log) - 1) /\ inbox # << >> /\ inbox' = Tail(inbox)
  BY DEF TypeOK, OnMessage
<1>2. ASSUME NEW S, NEW s \in Seq(S), s # << >>
      PROVE  /\ Head(s) \in S /\ Tail(s) \in Seq(S)
             /\ Head(s) \in {s[i] : i \in DOMAIN s}
             /\ \A i \in DOMAIN Tail(s) : Tail(s)[i] \in {s[j] : j \in DOMAIN s}
  <2>1. 1 \in DOMAIN s /\ Head(s) = s[1] /\ s[1] \in S
    BY <1>2
  <2>2. Tail(s) \in Seq(S) /\ Len(Tail(s)) = Len(s) - 1 /\ Len(s) \in Nat
    BY <1>2
  <2>3. \A i \in DOMAIN Tail(s) : i + 1 \in DOMAIN s /\ Tail(s)[i] = s[i + 1]
    BY <1>2, <2>2
  <2>4. QED
    BY <2>1, <2>2, <2>3
<1> DEFINE o == Head(inbox)
<1>3. /\ o \in 0 .. Len(log) - 1 /\ o \in {inbox[i] : i \in DOMAIN inbox}
      /\ \A i \in DOMAIN inbox' : inbox'[i] \in {inbox[j] : j \in DOMAIN inbox}
      /\ inbox' \in Seq(0 .. Len(log) - 1)
  BY <1>1, <1>2
<1>4. Icao(o) \in Aircraft
  BY <1>3, Message
<1>5. /\ pending' = [pending EXCEPT ![Icao(o)] = Merged(pending[Icao(o)], Update(o))]
      /\ during' = IF Syncing
                     THEN [during EXCEPT ![Icao(o)] = Merged(during[Icao(o)], Update(o))]
                     ELSE during
  BY DEF OnMessage, Icao
<1> HIDE DEF o
<1>6. QED
  BY <1>3, <1>4, <1>5

\* Every step of the browser and of the pipeline keeps the types.
LEMMA TypeStep ==
    ASSUME TypeOK, BestInv, [Next]_vars PROVE TypeOK'
<1> USE DEF TypeOK, Syncing
<1>0. CASE UNCHANGED vars
  BY <1>0 DEF vars, pipeline, socket, refresh, maps
<1>1. CASE Produce
  <2>1. PICK r \in [icao24 : Aircraft, observed_at : Time] : log' = Append(log, r)
    <3>1. PICK a \in Aircraft, t \in Time :
             log' = Append(log, [icao24 |-> a, observed_at |-> t])
      BY <1>1 DEF Produce
    <3>2. [icao24 |-> a, observed_at |-> t] \in [icao24 : Aircraft, observed_at : Time]
      OBVIOUS
    <3>3. QED
      BY <3>1, <3>2
  <2>2. /\ log' \in Seq([icao24 : Aircraft, observed_at : Time])
        /\ Len(log') = Len(log) + 1 /\ Len(log) \in Nat /\ Len(log') <= MaxLog
    BY <1>1, <2>1 DEF Produce
  <2>3. 0 .. Len(log) - 1 \subseteq 0 .. Len(log') - 1
    BY <2>2
  <2>4. ASSUME NEW S, NEW T, NEW s \in Seq(S), S \subseteq T PROVE s \in Seq(T)
    BY <2>4
  <2>5. inbox' \in Seq(0 .. Len(log') - 1)
    BY <1>1, <2>3, <2>4 DEF Produce, socket
  <2>6. /\ stored' \in 0 .. Len(log') /\ sent' \in 0 .. Len(log') /\ next' \in 0 .. sent'
    BY <1>1, <2>2 DEF Produce
  <2>7. UNCHANGED <<sock, joined, held, fetch, snap, lagged, during, pending, shown, frame, faults>>
    BY <1>1 DEF Produce, socket, refresh, maps
  <2>8. QED
    BY <2>2, <2>5, <2>6, <2>7
<1>2. CASE Store
  BY <1>2 DEF Store, socket, refresh, maps
<1>3. CASE Publish
  <2>1. next \in 0 .. Len(log) - 1 /\ next' = next + 1 /\ Len(log) \in Nat
    BY <1>3 DEF Publish
  <2>2. inbox' \in Seq(0 .. Len(log) - 1)
    <3>1. inbox' \in {inbox, Append(inbox, next)}
      BY <1>3 DEF Publish
    <3>2. inbox \in Seq(0 .. Len(log) - 1)
      OBVIOUS
    <3>3. Append(inbox, next) \in Seq(0 .. Len(log) - 1)
      BY <2>1, <3>2
    <3>4. QED
      BY <3>1, <3>2, <3>3
  <2>3. sent' \in 0 .. Len(log) /\ next' \in 0 .. sent'
    BY <1>3, <2>1 DEF Publish
  <2>4. UNCHANGED <<log, stored, sock, joined, held, fetch, snap, lagged, during, pending, shown,
                    frame, faults>>
    BY <1>3 DEF Publish, refresh, maps
  <2>5. QED
    BY <2>2, <2>3, <2>4
<1>f. Fault => faults' \in 0 .. MaxFaults
  BY DEF Fault
<1>4. CASE Reread
  BY <1>4, <1>f DEF Reread, socket, refresh, maps
<1>r. RefreshSnapshot =>
         /\ fetch' \in {"idle", "sent", "answered", "applied"}
         /\ during' \in [Aircraft -> UpdateType]
         /\ frame' \in BOOLEAN /\ (fetch' # "idle" => ~frame')
  BY NothingType DEF RefreshSnapshot
<1>e. EndRefresh => fetch' = "idle" /\ frame' \in BOOLEAN
  BY DEF EndRefresh
<1>5. CASE Click
  BY <1>5, <1>r DEF Click, pipeline, socket
<1>6. CASE Answer
  BY <1>6, LiveType DEF Answer, pipeline, socket, maps
<1>7. CASE Apply
  <2>1. shown' \in [Aircraft -> UpdateType]
    BY <1>7, MergingAll DEF Apply
  <2>2. QED
    BY <1>7, <2>1, NothingType DEF Apply, pipeline, socket
<1>8. CASE RefreshDone
  BY <1>8, <1>e DEF RefreshDone, pipeline, socket
<1>9. CASE RefreshFails
  BY <1>9, <1>e, <1>f DEF RefreshFails, pipeline, socket
<1>10. CASE Connect
  BY <1>10 DEF Connect, pipeline, refresh, maps
<1>11. CASE Accept
  BY <1>11 DEF Accept, pipeline, refresh, maps
<1>17. CASE Register
  BY <1>17 DEF Register, pipeline, refresh, maps
<1>12. CASE OnOpen
  BY <1>12, <1>r, LiveType DEF OnOpen, pipeline
<1>13. CASE OnMessage
  <2>1. PICK o \in 0 .. Len(log) - 1, a \in Aircraft :
           /\ pending' = [pending EXCEPT ![a] = Merged(pending[a], Update(o))]
           /\ during' = IF Syncing
                          THEN [during EXCEPT ![a] = Merged(during[a], Update(o))]
                          ELSE during
           /\ inbox' \in Seq(0 .. Len(log) - 1)
    BY <1>13, Delivered
  <2>2. /\ Merged(pending[a], Update(o)) \in UpdateType
        /\ Merged(during[a], Update(o)) \in UpdateType
    BY Message, Merging
  <2>3. pending' \in [Aircraft -> UpdateType] /\ during' \in [Aircraft -> UpdateType]
    BY <2>1, <2>2
  <2>4. frame' \in BOOLEAN /\ (Syncing => ~frame')
    BY <1>13 DEF OnMessage, ScheduleUpdateFlush
  <2>5. UNCHANGED <<log, stored, sent, next, sock, joined, held, fetch, snap, lagged, shown, faults>>
    BY <1>13 DEF OnMessage, pipeline
  <2>6. QED
    BY <2>1, <2>3, <2>4, <2>5
<1>14. CASE Flush
  <2>1. shown' \in [Aircraft -> UpdateType]
    BY <1>14, MergingAll DEF Flush
  <2>2. QED
    BY <1>14, <2>1, NothingType DEF Flush, pipeline, socket, refresh
<1>15. CASE OnClose
  <2>1. inbox' \in Seq(0 .. Len(log) - 1)
    BY <1>15 DEF OnClose
  <2>2. QED
    BY <1>15, <1>f, <2>1 DEF OnClose, pipeline, refresh, maps
<1>16. QED
  BY <1>0, <1>1, <1>2, <1>3, <1>4, <1>5, <1>6, <1>7, <1>8, <1>9, <1>10, <1>11, <1>12,
     <1>13, <1>14, <1>15, <1>17
     DEF Next, Browser

\* Nothing the log says, and nothing that was stored or sent, is taken back.
LEMMA Grows ==
    ASSUME TypeOK, [Next]_vars
    PROVE  /\ Len(log) <= Len(log') /\ stored <= stored' /\ sent <= sent'
           /\ \A o \in 0 .. Len(log) - 1 : log'[o + 1] = log[o + 1]
<1>0. stored \in Nat /\ sent \in Nat /\ next \in 0 .. sent /\ Len(log) \in Nat
  BY DEF TypeOK
<1>1. CASE Produce
  <2>1. PICK r : log' = Append(log, r)
    BY <1>1 DEF Produce
  <2>2. Len(log') = Len(log) + 1 /\ \A i \in 1 .. Len(log) : log'[i] = log[i]
    BY <2>1 DEF TypeOK
  <2>3. \A o \in 0 .. Len(log) - 1 : o + 1 \in 1 .. Len(log)
    BY <1>0
  <2>4. stored' = stored /\ sent' = sent
    BY <1>1 DEF Produce
  <2>5. QED
    BY <1>0, <2>2, <2>3, <2>4
<1>2. CASE Store \/ Publish
  BY <1>0, <1>2 DEF Store, Publish
<1>3. CASE UNCHANGED <<log, stored, sent>>
  BY <1>0, <1>3
<1>4. QED
  BY <1>1, <1>2, <1>3
     DEF Next, Browser, vars, pipeline, Reread, Click, RefreshFails, OnClose, Answer,
         Apply, RefreshDone, Connect, Accept, Register, OnOpen, OnMessage, Flush

\* u comes from one of the first m messages of the next state.
FromNext(u, a, m) ==
    \/ u = None
    \/ \E o \in 0 .. m - 1 :
          /\ log'[o + 1].icao24 = a
          /\ u = [observed_at |-> log'[o + 1].observed_at, kafka_offset |-> o]

\* Where an update comes from is never forgotten.
LEMMA FromStays ==
    ASSUME TypeOK, [Next]_vars, NEW u, NEW a, NEW n \in 0 .. Len(log),
           NEW m \in Nat, n <= m, From(u, a, n)
    PROVE  FromNext(u, a, m)
<1>1. CASE u = None
  BY <1>1 DEF FromNext
<1>2. CASE u # None
  <2>1. PICK o \in Mine(n, a) : u = Update(o)
    BY <1>2 DEF From
  <2>2. o \in 0 .. n - 1 /\ Icao(o) = a
    BY <2>1 DEF Mine
  <2>3. o \in 0 .. Len(log) - 1 /\ o \in 0 .. m - 1 /\ n \in Nat
    BY <2>2 DEF TypeOK
  <2>4. log'[o + 1] = log[o + 1]
    BY <2>3, Grows
  <2>5. QED
    BY <2>1, <2>2, <2>3, <2>4 DEF FromNext, Icao, Update
<1>3. QED
  BY <1>1, <1>2

\* No step shows, keeps or answers anything the pipeline did not produce.
LEMMA OriginsStep ==
    ASSUME TypeOK, TypeOK', BestInv, Origins, [Next]_vars PROVE Origins'
<1>0. /\ stored \in 0 .. Len(log) /\ sent \in 0 .. Len(log) /\ Known \in 0 .. Len(log)
      /\ stored' \in Nat /\ sent' \in Nat /\ Known' \in Nat
      /\ stored <= stored' /\ sent <= sent' /\ Known <= Known'
      /\ sent <= Known /\ stored <= Known
  <2>1. /\ stored \in Nat /\ sent \in Nat /\ stored' \in Nat /\ sent' \in Nat
        /\ stored \in 0 .. Len(log) /\ sent \in 0 .. Len(log)
    BY DEF TypeOK
  <2>2. QED
    BY <2>1, Grows DEF Known
<1>1. ASSUME NEW a \in Aircraft PROVE FromNext(shown'[a], a, Known')
  <2>1. shown'[a] \in {shown[a], pending[a], snap[a]}
    <3>0. /\ snap \in [Aircraft -> UpdateType] /\ pending \in [Aircraft -> UpdateType]
          /\ shown \in [Aircraft -> UpdateType]
      BY DEF TypeOK
    <3>1. CASE Apply
      <4>1. MergedAll(snap, pending)[a] \in {snap[a], pending[a]}
        BY <3>0, MergingAll
      <4>2. QED
        BY <3>1, <4>1 DEF Apply
    <3>2. CASE Flush
      <4>1. MergedAll(shown, pending)[a] \in {shown[a], pending[a]}
        BY <3>0, MergingAll
      <4>2. QED
        BY <3>2, <4>1 DEF Flush
    <3>3. CASE UNCHANGED shown
      BY <3>3
    <3>4. QED
      BY <3>1, <3>2, <3>3
         DEF Next, Browser, vars, maps, Produce, Store, Publish, Reread, Click,
             RefreshFails, OnClose, Answer, RefreshDone, Connect, Accept, Register, OnOpen, OnMessage
  <2>2. From(shown[a], a, Known) /\ From(pending[a], a, sent) /\ From(snap[a], a, stored)
    BY DEF Origins
  <2>3. /\ FromNext(shown[a], a, Known') /\ FromNext(pending[a], a, Known')
        /\ FromNext(snap[a], a, Known')
    <3>1. sent <= Known' /\ stored <= Known'
      BY <1>0
    <3>2. QED
      BY <1>0, <2>2, <3>1, FromStays
  <2>4. QED
    BY <2>1, <2>3
<1>2. ASSUME NEW a \in Aircraft PROVE FromNext(pending'[a], a, sent')
  <2>1. From(pending[a], a, sent) /\ FromNext(pending[a], a, sent')
    BY <1>0, FromStays DEF Origins
  <2>2. CASE OnMessage
    <3>1. PICK o \in 0 .. Len(log) - 1, b \in Aircraft :
             /\ b = Icao(o) /\ o \in {inbox[i] : i \in DOMAIN inbox}
             /\ pending' = [pending EXCEPT ![b] = Merged(pending[b], Update(o))]
      BY <2>2, Delivered
    <3>2. From(Update(o), b, sent)
      <4>1. o < sent /\ o \in 0 .. sent - 1
        BY <1>0, <3>1 DEF Origins
      <4>2. QED
        BY <3>1, <4>1 DEF From, Mine
    <3>3. FromNext(Update(o), b, sent')
      BY <1>0, <3>2, FromStays
    <3>4. Merged(pending[b], Update(o)) \in {pending[b], Update(o)}
      BY DEF Merged
    <3>5. pending'[a] = IF a = b THEN Merged(pending[b], Update(o)) ELSE pending[a]
      BY <3>1 DEF TypeOK
    <3>6. QED
      BY <2>1, <3>3, <3>4, <3>5
  <2>3. CASE pending' = Nothing
    BY <2>3, NothingType DEF FromNext
  <2>4. CASE UNCHANGED pending
    BY <2>1, <2>4
  <2>5. QED
    BY <2>2, <2>3, <2>4
       DEF Next, Browser, vars, maps, Produce, Store, Publish, Reread, Click, Flush,
           RefreshFails, OnClose, Answer, Apply, RefreshDone, Connect, Accept, Register, OnOpen
<1>3. ASSUME NEW a \in Aircraft PROVE FromNext(snap'[a], a, stored')
  <2>1. CASE Answer
    <3>1. snap' = Live(stored)
      BY <2>1 DEF Answer
    <3>2. From(Live(stored)[a], a, stored)
      BY <1>0, LiveFacts
    <3>3. QED
      BY <1>0, <3>1, <3>2, FromStays
  <2>2. CASE UNCHANGED snap
    <3>1. FromNext(snap[a], a, stored')
      BY <1>0, FromStays DEF Origins
    <3>2. QED
      BY <2>2, <3>1
  <2>3. QED
    BY <2>1, <2>2
       DEF Next, Browser, vars, refresh, Produce, Store, Publish, Reread, Click, Flush,
           RefreshFails, OnClose, Apply, RefreshDone, Connect, Accept, Register, OnOpen, OnMessage
<1>4. ASSUME NEW i \in DOMAIN inbox' PROVE inbox'[i] < sent'
  <2>0. \A j \in DOMAIN inbox : inbox[j] \in Nat /\ inbox[j] < sent'
    <3>1. \A j \in DOMAIN inbox : inbox[j] \in 0 .. Len(log) - 1 /\ inbox[j] < sent
      <4>1. ASSUME NEW S, NEW t \in Seq(S) PROVE \A j \in DOMAIN t : t[j] \in S
        OBVIOUS
      <4>2. QED
        BY <4>1 DEF TypeOK, Origins
    <3>2. QED
      BY <1>0, <3>1
  <2>1. CASE OnMessage
    <3>1. inbox'[i] \in {inbox[j] : j \in DOMAIN inbox}
      BY <2>1, Delivered
    <3>2. QED
      BY <2>0, <3>1
  <2>2. CASE OnClose
    BY <2>2 DEF OnClose
  <2>3. CASE Publish
    <3>1. next \in Nat /\ next < sent'
      BY <1>0, <2>3 DEF Publish, TypeOK
    <3>2. inbox' \in {inbox, Append(inbox, next)}
      BY <2>3 DEF Publish
    <3>3. inbox'[i] = next \/ \E j \in DOMAIN inbox : inbox'[i] = inbox[j]
      <4>0. inbox \in Seq(0 .. Len(log) - 1) /\ next \in 0 .. Len(log)
        BY <1>0 DEF TypeOK
      <4>1. ASSUME NEW S, NEW t \in Seq(S), NEW x, NEW u, u = Append(t, x),
                   NEW k \in DOMAIN u
            PROVE  u[k] = x \/ \E m \in DOMAIN t : u[k] = t[m]
        <5>1. /\ DOMAIN t = 1 .. Len(t) /\ Len(t) \in Nat
              /\ DOMAIN u = 1 .. Len(t) + 1
              /\ u[Len(t) + 1] = x
              /\ \A m \in 1 .. Len(t) : u[m] = t[m]
          BY <4>1
        <5>2. QED
          BY <5>1
      <4>2. CASE inbox' = inbox
        BY <4>2
      <4>3. CASE inbox' = Append(inbox, next)
        BY <4>0, <4>1, <4>3
      <4>4. QED
        BY <3>2, <4>2, <4>3
    <3>4. QED
      BY <2>0, <3>1, <3>3
  <2>4. CASE UNCHANGED inbox
    BY <2>0, <2>4
  <2>5. QED
    BY <2>1, <2>2, <2>3, <2>4
       DEF Next, Browser, vars, socket, Produce, Store, Reread, Click, Flush,
           RefreshFails, Answer, Apply, RefreshDone, Connect, Accept, Register, OnOpen
<1>5. \A a \in Aircraft : /\ From(shown[a], a, Known)'
                          /\ From(pending[a], a, sent)'
                          /\ From(snap[a], a, stored)'
  BY <1>1, <1>2, <1>3 DEF FromNext, From, Mine, Icao, Update
<1>6. QED
  BY <1>4, <1>5 DEF Origins

\* The times of what is shown, pending and answered are numbers.
LEMMA Numbers ==
    ASSUME TypeOK, NEW a \in Aircraft
    PROVE  /\ shown[a] \in UpdateType /\ pending[a] \in UpdateType
           /\ snap[a] \in UpdateType /\ during[a] \in UpdateType
           /\ shown[a].observed_at \in Nat /\ snap[a].observed_at \in Nat
<1>1. /\ shown[a] \in UpdateType /\ pending[a] \in UpdateType
      /\ snap[a] \in UpdateType /\ during[a] \in UpdateType
  BY DEF TypeOK
<1>2. shown[a].observed_at \in Time \cup {0} /\ snap[a].observed_at \in Time \cup {0}
  BY <1>1 DEF UpdateType
<1>3. QED
  BY <1>1, <1>2, Times

\* A snapshot that is not behind is at least as new as all that is shown.
LEMMA AnswerIsNewer ==
    ASSUME TypeOK, BestInv, Origins, stored >= sent, NEW a \in Aircraft
    PROVE  shown[a].observed_at <= Live(stored)[a].observed_at
<1>1. stored \in 0 .. Len(log) /\ Known = stored
  BY DEF TypeOK, Known
<1>2. From(shown[a], a, stored)
  BY <1>1 DEF Origins
<1>3. /\ Live(stored)[a] \in UpdateType
      /\ \A o \in Mine(stored, a) : Seen(o) <= Live(stored)[a].observed_at
  BY <1>1, LiveFacts
<1>4. CASE shown[a] = None
  <2>1. shown[a].observed_at = 0
    BY <1>4 DEF None
  <2>2. Live(stored)[a].observed_at \in Time \cup {0}
    BY <1>3 DEF UpdateType
  <2>3. Live(stored)[a].observed_at \in Nat
    BY <2>2, Times
  <2>4. QED
    BY <2>1, <2>3
<1>5. CASE \E o \in Mine(stored, a) : shown[a] = Update(o)
  BY <1>3, <1>5 DEF Update, Seen
<1>6. QED
  BY <1>2, <1>4, <1>5 DEF From

\* What a delivery does to the guarantees of a running refresh.
LEMMA DeliveryKeeps ==
    ASSUME TypeOK, OnMessage, NEW a \in Aircraft, Syncing, during'[a] # None
    PROVE  /\ pending[a] # None => pending'[a] # None
           /\ during[a] = None => pending'[a] # None
           /\ (during[a] # None => pending[a] # None /\ Newer(during[a], pending[a]))
                 => pending'[a] # None /\ Newer(during'[a], pending'[a])
<1>1. PICK o \in 0 .. Len(log) - 1, b \in Aircraft :
         /\ pending' = [pending EXCEPT ![b] = Merged(pending[b], Update(o))]
         /\ during' = IF Syncing
                        THEN [during EXCEPT ![b] = Merged(during[b], Update(o))]
                        ELSE during
  BY Delivered
<1>2. pending[a] \in UpdateType /\ during[a] \in UpdateType
  BY Numbers
<1>3. Update(o) \in UpdateType /\ Update(o) # None
  BY Message
<1>4. CASE a # b
  <2>1. pending'[a] = pending[a] /\ during'[a] = during[a]
    BY <1>1, <1>4 DEF TypeOK
  <2>2. QED
    BY <2>1
<1>5. CASE a = b
  <2> DEFINE u == Update(o)
  <2>1. pending'[a] = Merged(pending[a], u) /\ during'[a] = Merged(during[a], u)
    BY <1>1, <1>5 DEF TypeOK
  <2> HIDE DEF u
  <2>2. pending'[a] # None /\ Newer(u, pending'[a])
    BY <1>2, <1>3, <2>1, Merging DEF u
  <2>3. during'[a] \in {during[a], u}
    BY <2>1 DEF Merged
  <2>4. during[a] = None => Newer(during'[a], pending'[a])
    <3>1. during[a] = None => during'[a] = u
      BY <2>1 DEF Merged, Newer
    <3>2. QED
      BY <2>2, <3>1
  <2>5. pending[a] # None /\ Newer(during[a], pending[a]) => Newer(during[a], pending'[a])
    BY <1>2, <1>3, <2>1, Merging DEF u
  <2>6. QED
    BY <2>2, <2>3, <2>4, <2>5
<1>6. QED
  BY <1>4, <1>5

\* The phases of a refresh keep their guarantees.
LEMMA RefreshStep ==
    ASSUME IInv, [Next]_vars PROVE RefreshInv' /\ SnapshotKeepsReceived'
<1> USE DEF RefreshInv, SnapshotKeepsReceived
<1>0. TypeOK /\ BestInv /\ Origins /\ RefreshInv /\ SnapshotKeepsReceived
  BY DEF IInv
<1>n. \A a \in Aircraft : Nothing[a] = None
  BY NothingType
<1>1. CASE UNCHANGED <<fetch, during, pending, lagged, shown, snap>>
  BY <1>0, <1>1
<1>2. CASE Click \/ OnOpen
  <2>1. UNCHANGED <<snap, lagged, pending, shown>> /\ RefreshSnapshot
    BY <1>2 DEF Click, OnOpen
  <2>2. CASE Syncing
    BY <1>1, <2>1, <2>2 DEF RefreshSnapshot
  <2>3. CASE ~Syncing
    <3>1. fetch' = "sent" /\ during' = Nothing
      BY <2>1, <2>3 DEF RefreshSnapshot
    <3>2. QED
      BY <1>n, <3>1
  <2>4. QED
    BY <2>2, <2>3
<1>3. CASE Answer
  <2>1. /\ fetch = "sent" /\ fetch' = "answered" /\ snap' = Live(stored)
        /\ lagged' = (stored < sent) /\ UNCHANGED <<during, pending, shown>>
    BY <1>3 DEF Answer, maps
  <2>2. stored \in Nat /\ sent \in Nat
    BY <1>0 DEF TypeOK
  <2>3. ~lagged' => \A a \in Aircraft : shown'[a].observed_at <= snap'[a].observed_at
    <3>1. ~lagged' => stored >= sent
      <4>1. ~lagged' => ~(stored < sent)
        BY <2>1, Zenon
      <4>2. ~(stored < sent) => stored >= sent
        BY <2>2
      <4>3. QED
        BY <4>1, <4>2
    <3>2. stored >= sent => \A a \in Aircraft : shown[a].observed_at <= Live(stored)[a].observed_at
      BY <1>0, AnswerIsNewer
    <3>3. QED
      BY <2>1, <3>1, <3>2
  <2>4. \A a \in Aircraft :
           during'[a] # None => pending'[a] # None /\ Newer(during'[a], pending'[a])
    BY <1>0, <2>1
  <2>5. QED
    BY <2>1, <2>3, <2>4
<1>4. CASE Apply
  <2>1. /\ fetch = "answered" /\ fetch' = "applied" /\ during' = during
        /\ shown' = MergedAll(snap, pending)
    BY <1>4 DEF Apply
  <2>2. ASSUME NEW a \in Aircraft, during[a] # None PROVE Newer(during[a], shown'[a])
    <3>1. pending[a] # None /\ Newer(during[a], pending[a])
      BY <1>0, <2>1, <2>2
    <3>2. during[a] \in UpdateType /\ pending[a] \in UpdateType /\ snap[a] \in UpdateType
      BY <1>0, Numbers
    <3>3. shown'[a] = Merged(snap[a], pending[a])
      BY <2>1, <3>1 DEF MergedAll
    <3>4. Newer(pending[a], shown'[a]) /\ shown'[a] \in UpdateType
      BY <3>1, <3>2, <3>3, Merging
    <3>5. QED
      BY <3>1, <3>2, <3>4, NewerTransitive
  <2>3. QED
    BY <2>1, <2>2
<1>5. CASE RefreshDone \/ RefreshFails
  BY <1>5 DEF RefreshDone, RefreshFails, EndRefresh
<1>6. CASE OnMessage
  <2>1. UNCHANGED <<fetch, snap, lagged, shown>>
    BY <1>6 DEF OnMessage
  <2>2. CASE ~Syncing
    BY <2>1, <2>2 DEF Syncing
  <2>3. CASE Syncing
    <3>1. ASSUME fetch \in {"sent", "answered"}, NEW a \in Aircraft, during'[a] # None
          PROVE  pending'[a] # None /\ Newer(during'[a], pending'[a])
      BY <1>0, <1>6, <2>3, <3>1, DeliveryKeeps
    <3>2. ASSUME fetch = "applied", NEW a \in Aircraft, during'[a] # None
          PROVE  Newer(during'[a], shown'[a]) \/ pending'[a] # None
      <4>1. CASE during[a] = None \/ pending[a] # None
        BY <1>0, <1>6, <2>3, <3>2, <4>1, DeliveryKeeps
      <4>2. CASE during[a] # None /\ pending[a] = None
        <5>1. PICK o \in 0 .. Len(log) - 1, b \in Aircraft :
                 /\ pending' = [pending EXCEPT ![b] = Merged(pending[b], Update(o))]
                 /\ during' = [during EXCEPT ![b] = Merged(during[b], Update(o))]
          BY <1>0, <1>6, <2>3, Delivered
        <5>2. CASE a = b
          <6>1. Update(o) \in UpdateType /\ Update(o) # None /\ pending[a] \in UpdateType
            BY <1>0, Message, Numbers
          <6>2. pending'[a] = Merged(pending[a], Update(o))
            BY <1>0, <5>1, <5>2 DEF TypeOK
          <6>3. QED
            BY <6>1, <6>2, Merging
        <5>3. CASE a # b
          <6>1. during'[a] = during[a]
            BY <1>0, <5>1, <5>3 DEF TypeOK
          <6>2. Newer(during[a], shown[a])
            BY <1>0, <3>2, <4>2
          <6>3. QED
            BY <2>1, <6>1, <6>2
        <5>4. QED
          BY <5>2, <5>3
      <4>3. QED
        BY <4>1, <4>2
    <3>3. fetch = "answered" /\ ~lagged =>
             \A a \in Aircraft : shown[a].observed_at <= snap[a].observed_at
      BY <1>0
    <3>4. QED
      BY <2>1, <3>1, <3>2, <3>3
  <2>4. QED
    BY <2>2, <2>3
<1>7. CASE Flush
  <2>1. fetch = "idle" /\ fetch' = "idle"
    BY <1>0, <1>7 DEF Flush, refresh, TypeOK, Syncing
  <2>2. QED
    BY <2>1
<1>8. QED
  BY <1>1, <1>2, <1>3, <1>4, <1>5, <1>6, <1>7
     DEF Next, Browser, vars, refresh, maps, Produce, Store, Publish, Reread, OnClose,
         Connect, Accept, Register

-----------------------------------------------------------------------------
(* The theorems.                                                           *)

LEMMA Initially == Init => IInv
<1> SUFFICES ASSUME Init PROVE IInv
  OBVIOUS
<1> USE DEF Init
<1>1. Len(log) = 0 /\ \A n \in 0 .. Len(log) : \A a : Mine(n, a) = {}
  BY DEF Mine
<1>2. log \in Seq([icao24 : Aircraft, observed_at : Time]) /\ inbox \in Seq(0 .. Len(log) - 1)
  OBVIOUS
<1>3. 0 \in 0 .. Len(log) /\ 0 \in 0 .. 0 /\ 0 \in 0 .. MaxFaults /\ 0 <= MaxLog
  BY <1>1
<1>4. TypeOK
  BY <1>1, <1>2, <1>3, NothingType DEF TypeOK, Syncing
<1>5. BestInv /\ Origins
  BY <1>1, NothingType DEF BestInv, Origins, From
<1>6. PendingHasFlush /\ RefreshInv /\ SnapshotKeepsReceived
  BY NothingType DEF PendingHasFlush, RefreshInv, SnapshotKeepsReceived
<1>7. QED
  BY <1>4, <1>5, <1>6 DEF IInv

\* The inductive invariant: what is shown, pending or answered comes from the log;
\* a running refresh will show what was received since it began; a snapshot that
\* was not behind is at least as new as what it replaces (useAircraftFeed.ts).
THEOREM Inductive == Spec => []IInv
<1>1. IInv /\ [Next]_vars => IInv'
  <2> SUFFICES ASSUME IInv, [Next]_vars PROVE IInv'
    OBVIOUS
  <2>0. TypeOK /\ BestInv /\ Origins /\ PendingHasFlush
    BY DEF IInv
  <2>1. TypeOK'
    BY <2>0, TypeStep
  <2>2. BestInv'
    <3>1. CASE Produce
      <4>1. PICK a \in Aircraft, t \in Time :
               log' = Append(log, [icao24 |-> a, observed_at |-> t])
        BY <3>1 DEF Produce
      <4>2. [icao24 |-> a, observed_at |-> t] \in [icao24 : Aircraft, observed_at : Time]
        OBVIOUS
      <4>3. QED
        BY <2>0, <2>1, <4>1, <4>2, BestStep
    <3>2. CASE UNCHANGED log
      <4>1. \A o : Icao(o)' = Icao(o) /\ Seen(o)' = Seen(o)
        BY <3>2 DEF Icao, Seen
      <4>2. \A n, a : Mine(n, a)' = Mine(n, a)
        BY <4>1 DEF Mine
      <4>3. \A n, a, o : FirstNewest(n, a, o)' <=> FirstNewest(n, a, o)
        BY <4>1, <4>2 DEF FirstNewest
      <4>4. QED
        BY <2>0, <3>2, <4>2, <4>3 DEF BestInv
    <3>3. QED
      BY <3>1, <3>2
         DEF Next, Browser, vars, pipeline, Store, Publish, Reread, Click, Flush,
             RefreshFails, OnClose, Answer, Apply, RefreshDone, Connect, Accept, Register, OnOpen,
             OnMessage
  <2>3. Origins'
    BY <2>0, <2>1, OriginsStep
  <2>4. PendingHasFlush'
    BY <2>0
       DEF PendingHasFlush, Syncing, Next, Browser, vars, refresh, maps, Produce, Store,
           Publish, Reread, Click, RefreshSnapshot, Flush, RefreshFails, EndRefresh,
           OnClose, Answer, Apply, RefreshDone, Connect, Accept, Register, OnOpen, OnMessage,
           ScheduleUpdateFlush
  <2>5. RefreshInv' /\ SnapshotKeepsReceived'
    BY RefreshStep
  <2>6. QED
    BY <2>1, <2>2, <2>3, <2>4, <2>5 DEF IInv
<1>2. QED
  BY Initially, <1>1, PTL DEF Spec

\* Every variable of the browser keeps its type, and no frame is requested while a
\* refresh runs.
THEOREM TypeCorrect == Spec => []TypeOK
<1>1. IInv => TypeOK
  BY DEF IInv
<1>2. QED
  BY <1>1, Inductive, PTL

\* No received update is forgotten: a refresh or a frame is still to come
\* (scheduleUpdateFlush and the finally of refreshSnapshot).
THEOREM NothingForgotten == Spec => []PendingHasFlush
<1>1. IInv => PendingHasFlush
  BY DEF IInv
<1>2. QED
  BY <1>1, Inductive, PTL

\* An older snapshot hides no update that was received while it was on its way
\* (mergeAircraftUpdate in refreshSnapshot).
THEOREM SnapshotHidesNothing == Spec => []SnapshotKeepsReceived
<1>1. IInv => SnapshotKeepsReceived
  BY DEF IInv
<1>2. QED
  BY <1>1, Inductive, PTL

\* The browser steps back to an older observation only where a snapshot was read
\* while MongoDB was behind the gateway.
THEOREM NeverBack == Spec => ShownNeverRegresses
<1>1. IInv /\ [Next]_vars =>
        [\/ fetch = "answered" /\ fetch' = "applied" /\ lagged
         \/ \A a \in Aircraft : shown'[a].observed_at >= shown[a].observed_at]_vars
  <2> SUFFICES ASSUME IInv, [Next]_vars,
                      ~(fetch = "answered" /\ fetch' = "applied" /\ lagged),
                      NEW a \in Aircraft
               PROVE  shown'[a].observed_at >= shown[a].observed_at
    OBVIOUS
  <2>1. TypeOK /\ RefreshInv
    BY DEF IInv
  <2>2. /\ shown[a].observed_at \in Nat /\ snap[a].observed_at \in Nat
        /\ shown \in [Aircraft -> UpdateType] /\ snap \in [Aircraft -> UpdateType]
        /\ pending \in [Aircraft -> UpdateType]
    BY <2>1, Numbers DEF TypeOK
  <2>3. \A f \in [Aircraft -> UpdateType] :
           /\ f[a].observed_at \in Nat => MergedAll(f, pending)[a].observed_at \in Nat
           /\ f[a].observed_at <= MergedAll(f, pending)[a].observed_at
    <3> SUFFICES ASSUME NEW f \in [Aircraft -> UpdateType]
                 PROVE  /\ MergedAll(f, pending)[a].observed_at \in Nat
                        /\ f[a].observed_at <= MergedAll(f, pending)[a].observed_at
      OBVIOUS
    <3>1. MergedAll(f, pending)[a] \in UpdateType
      BY <2>2, MergingAll
    <3>2. MergedAll(f, pending)[a].observed_at \in Time \cup {0}
      BY <3>1 DEF UpdateType
    <3>3. QED
      BY <2>2, <3>2, MergingAll, Times
  <2>4. CASE Apply
    <3>1. shown[a].observed_at <= snap[a].observed_at
      BY <2>1, <2>4 DEF Apply, RefreshInv
    <3>2. shown' = MergedAll(snap, pending)
      BY <2>4 DEF Apply
    <3>3. QED
      BY <2>2, <2>3, <3>1, <3>2
  <2>5. CASE Flush
    <3>1. shown' = MergedAll(shown, pending)
      BY <2>5 DEF Flush
    <3>2. QED
      BY <2>2, <2>3, <3>1
  <2>6. CASE UNCHANGED shown
    BY <2>2, <2>6
  <2>7. QED
    BY <2>4, <2>5, <2>6
       DEF Next, Browser, vars, maps, Produce, Store, Publish, Reread, Click,
           RefreshFails, OnClose, Answer, RefreshDone, Connect, Accept, Register, OnOpen, OnMessage
<1>2. QED
  BY <1>1, Inductive, PTL DEF Spec, ShownNeverRegresses
=============================================================================
