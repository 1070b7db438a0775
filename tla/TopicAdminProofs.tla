--------------------------- MODULE TopicAdminProofs ---------------------------
(***************************************************************************)
(* Proofs about TopicAdmin for every set of topics and of commands and      *)
(* every number of attempts and failures: what a command that exited with 0  *)
(* has reported is true, whatever other commands and failing calls do.      *)
(***************************************************************************)
EXTENDS TopicAdmin, TLAPS

\* What a command has read stays as it was read, and what it has verified as it was
\* counted, until somebody changes it by hand; it verifies only what it has read, and
\* one that is done has verified everything.
VerifiedInv ==
    \A a \in Admin :
        /\ admin[a].described \subseteq configured \union admin[a].reset
        /\ admin[a].step \in {"count", "done"} =>
              /\ admin[a].verified \subseteq admin[a].described
              /\ admin[a].verified \subseteq (made \ wide) \union admin[a].widened
        /\ admin[a].step \in {"list", "create", "configure", "describe"} =>
              admin[a].verified = {}
        /\ admin[a].step = "done" => admin[a].verified = Topic

Record == [step : AdminStep, attempt : 1..MaxAttempts, missing : SUBSET Topic,
           described : SUBSET Topic, verified : SUBSET Topic,
           reset : SUBSET Topic, widened : SUBSET Topic]

BrokerType == made \subseteq Topic /\ configured \subseteq made /\ wide \subseteq made

USE TopicAdminAssumption

\* What commands do to topics: they create and configure, and take nothing back.
Gentle ==
    /\ made \subseteq made' /\ configured \subseteq configured' /\ wide' = wide
    /\ made' \subseteq Topic /\ configured' \subseteq made'

LEMMA TypeAdmin == TaTypeOK => admin \in [Admin -> Record] /\ BrokerType
BY DEF TaTypeOK, Record, BrokerType

\* Changing one or two fields of a record.
LEMMA RecordFields ==
    ASSUME NEW r \in Record
    PROVE  /\ \A x \in AdminStep : [r EXCEPT !.step = x] \in Record
           /\ \A n \in 1..MaxAttempts : [r EXCEPT !.attempt = n] \in Record
           /\ \A S \in SUBSET Topic : /\ [r EXCEPT !.missing = S] \in Record
                                     /\ [r EXCEPT !.described = S] \in Record
                                     /\ [r EXCEPT !.verified = S] \in Record
                                     /\ [r EXCEPT !.reset = S] \in Record
                                     /\ [r EXCEPT !.widened = S] \in Record
BY DEF Record

-----------------------------------------------------------------------------
(* The pieces the steps are made of.                                       *)

\* A command that keeps what it has read and verified, and is not done, keeps the
\* invariant; so do those that do not move.
LEMMA KeepOK ==
    ASSUME TaTypeOK, VerifiedInv, Gentle, NEW a \in Admin,
           admin' \in [Admin -> Record],
           \A b \in Admin \ {a} : admin'[b] = admin[b],
           admin'[a].described = admin[a].described, admin'[a].reset = admin[a].reset,
           admin'[a].step \notin {"count", "done"},
           admin'[a].step \in {"list", "create", "configure", "describe"}
               => admin'[a].verified = {}
    PROVE  VerifiedInv'
<1>1. \A b \in Admin : admin[b].verified \subseteq Topic
  BY TypeAdmin DEF Record
<1>2. ASSUME NEW b \in Admin \ {a}
      PROVE  /\ admin'[b].described \subseteq configured' \union admin'[b].reset
             /\ admin'[b].step \in {"count", "done"} =>
                   /\ admin'[b].verified \subseteq admin'[b].described
                   /\ admin'[b].verified \subseteq (made' \ wide') \union admin'[b].widened
             /\ admin'[b].step \in {"list", "create", "configure", "describe"} =>
                   admin'[b].verified = {}
             /\ admin'[b].step = "done" => admin'[b].verified = Topic
  BY <1>2 DEF VerifiedInv, Gentle
<1>3. admin'[a].described \subseteq configured' \union admin'[a].reset
  BY DEF VerifiedInv, Gentle
<1>4. QED
  BY <1>2, <1>3 DEF VerifiedInv

\* A command goes on to a step in which it has nothing verified yet, or ends.
LEMMA EnterOK ==
    ASSUME TaTypeOK, VerifiedInv, Gentle, NEW a \in Admin,
           NEW step \in AdminStep \ {"count", "done"}, Enter(a, step),
           step \in {"wait", "failed"} \/ admin[a].verified = {}
    PROVE  admin' \in [Admin -> Record] /\ VerifiedInv'
<1>1. admin' = [admin EXCEPT ![a].step = step] /\ admin \in [Admin -> Record]
  BY TypeAdmin DEF Enter
<1>2. admin' \in [Admin -> Record]
  BY <1>1, RecordFields
<1>3. /\ admin'[a].verified = admin[a].verified /\ admin'[a].described = admin[a].described
      /\ admin'[a].reset = admin[a].reset /\ admin'[a].step = step
  BY <1>1 DEF Record
<1>4. \A b \in Admin \ {a} : admin'[b] = admin[b]
  BY <1>1
<1>5. VerifiedInv'
  BY <1>2, <1>3, <1>4, KeepOK
<1>6. QED
  BY <1>2, <1>5

\* A new attempt has verified nothing.
LEMMA AttemptOK ==
    ASSUME TaTypeOK, VerifiedInv, Gentle, NEW a \in Admin, NEW n \in 1..MaxAttempts,
           admin' = Attempt(a, n)
    PROVE  admin' \in [Admin -> Record] /\ VerifiedInv'
<1> DEFINE step == IF a \in Inits THEN "list" ELSE "describe"
<1>0. step \in AdminStep \ {"count", "done"}
  BY DEF AdminStep
<1> HIDE DEF step
<1>1. /\ admin' = [admin EXCEPT ![a].step = step,
                                ![a].attempt = n, ![a].missing = {}, ![a].verified = {}]
      /\ admin \in [Admin -> Record]
  BY TypeAdmin DEF Attempt, step
<1>2. /\ admin'[a].step = step /\ admin'[a].verified = {}
      /\ admin'[a].described = admin[a].described /\ admin'[a].reset = admin[a].reset
  BY <1>1 DEF Record
<1>3. \A b \in Admin \ {a} : admin'[b] = admin[b]
  BY <1>1
<1>4. admin' \in [Admin -> Record]
  <2> HIDE DEF Record
  <2>1. \A f \in [Admin -> Record] : \A r \in Record : [f EXCEPT ![a] = r] \in [Admin -> Record]
    OBVIOUS
  <2>2. [admin EXCEPT ![a].step = step] \in [Admin -> Record]
    BY <1>0, <1>1, <2>1, RecordFields
  <2>3. [admin EXCEPT ![a].step = step, ![a].attempt = n] \in [Admin -> Record]
    BY <2>1, <2>2, RecordFields
  <2>4. [admin EXCEPT ![a].step = step, ![a].attempt = n, ![a].missing = {}]
          \in [Admin -> Record]
    BY <2>1, <2>3, RecordFields
  <2>5. [admin EXCEPT ![a].step = step, ![a].attempt = n, ![a].missing = {},
                      ![a].verified = {}] \in [Admin -> Record]
    BY <2>1, <2>4, RecordFields
  <2>6. QED
    BY <1>1, <2>5
<1>5. VerifiedInv'
  BY <1>0, <1>2, <1>3, <1>4, KeepOK
<1>6. QED
  BY <1>4, <1>5

LEMMA NextAttemptOK ==
    ASSUME TaTypeOK, VerifiedInv, Gentle, NEW a \in Admin, NextAttempt(a)
    PROVE  admin' \in [Admin -> Record] /\ VerifiedInv'
<1>1. admin[a].attempt \in 1..MaxAttempts /\ MaxAttempts \in Nat
  BY TypeAdmin DEF Record
<1>2. CASE admin[a].attempt < MaxAttempts
  <2>1. admin[a].attempt + 1 \in 1..MaxAttempts
    BY <1>1, <1>2
  <2>2. admin' = Attempt(a, admin[a].attempt + 1)
    BY <1>2 DEF NextAttempt
  <2>3. QED
    BY <2>1, <2>2, AttemptOK
<1>3. CASE ~(admin[a].attempt < MaxAttempts)
  <2>1. Enter(a, "failed") /\ "failed" \in AdminStep \ {"count", "done"}
    BY <1>3 DEF NextAttempt, AdminStep
  <2>2. QED
    BY <2>1, EnterOK
<1>4. QED
  BY <1>2, <1>3

-----------------------------------------------------------------------------
(* The steps.                                                              *)

\* Every command remembers what was reset and widened by hand.
LEMMA ByHandOK ==
    ASSUME TaTypeOK, VerifiedInv, NEW t \in Topic,
           CreateByHand(t) \/ ResetByHand(t) \/ WidenByHand(t)
    PROVE  admin' \in [Admin -> Record] /\ VerifiedInv' /\ BrokerType'
<1>0. admin \in [Admin -> Record] /\ BrokerType
  BY TypeAdmin
<1>1. CASE CreateByHand(t)
  <2>1. /\ made' = made \union {t} /\ wide' \subseteq wide \union {t} /\ t \notin made
        /\ configured' = configured /\ admin' = admin
    BY <1>0, <1>1 DEF CreateByHand
  <2>2. \A a \in Admin : admin[a].verified \subseteq Topic
    BY <1>0 DEF Record
  <2>3. BrokerType'
    BY <1>0, <2>1 DEF BrokerType
  <2>4. VerifiedInv'
    <3>1. made \ wide \subseteq made' \ wide'
      BY <2>1
    <3>2. QED
      BY <2>1, <3>1 DEF VerifiedInv
  <2>5. QED
    BY <1>0, <2>1, <2>3, <2>4
<1>2. CASE ResetByHand(t)
  <2>1. /\ configured' = configured \ {t} /\ made' = made /\ wide' = wide
        /\ admin' = [a \in Admin |-> [admin[a] EXCEPT !.reset = @ \union {t}]]
    BY <1>2 DEF ResetByHand
  <2>2. \A a \in Admin : /\ admin'[a].described = admin[a].described
                         /\ admin'[a].verified = admin[a].verified
                         /\ admin'[a].reset = admin[a].reset \union {t}
                         /\ admin'[a].widened = admin[a].widened
                         /\ admin'[a].step = admin[a].step
    BY <1>0, <2>1 DEF Record
  <2>3. admin' \in [Admin -> Record]
    <3>1. \A a \in Admin : admin[a].reset \union {t} \in SUBSET Topic
      BY <1>0 DEF Record
    <3>2. \A a \in Admin : [admin[a] EXCEPT !.reset = admin[a].reset \union {t}] \in Record
      BY <1>0, <3>1, RecordFields
    <3>3. QED
      BY <2>1, <3>2
  <2>4. BrokerType'
    BY <1>0, <2>1 DEF BrokerType
  <2>5. VerifiedInv'
    BY <2>1, <2>2 DEF VerifiedInv
  <2>6. QED
    BY <2>3, <2>4, <2>5
<1>3. CASE WidenByHand(t)
  <2>1. /\ wide' = wide \union {t} /\ t \in made /\ made' = made /\ configured' = configured
        /\ admin' = [a \in Admin |-> [admin[a] EXCEPT !.widened = @ \union {t}]]
    BY <1>3 DEF WidenByHand
  <2>2. \A a \in Admin : /\ admin'[a].described = admin[a].described
                         /\ admin'[a].verified = admin[a].verified
                         /\ admin'[a].reset = admin[a].reset
                         /\ admin'[a].widened = admin[a].widened \union {t}
                         /\ admin'[a].step = admin[a].step
    BY <1>0, <2>1 DEF Record
  <2>3. admin' \in [Admin -> Record]
    <3>1. \A a \in Admin : admin[a].widened \union {t} \in SUBSET Topic
      BY <1>0 DEF Record
    <3>2. \A a \in Admin : [admin[a] EXCEPT !.widened = admin[a].widened \union {t}] \in Record
      BY <1>0, <3>1, RecordFields
    <3>3. QED
      BY <2>1, <3>2
  <2>4. BrokerType'
    BY <1>0, <2>1 DEF BrokerType
  <2>5. VerifiedInv'
    BY <2>1, <2>2 DEF VerifiedInv
  <2>6. QED
    BY <2>3, <2>4, <2>5
<1>4. QED
  BY <1>1, <1>2, <1>3

\* A call that fails may have been applied: it still takes nothing back.
LEMMA FailingOK ==
    ASSUME TaTypeOK, VerifiedInv, NEW a \in Admin, CallFails(a)
    PROVE  admin' \in [Admin -> Record] /\ VerifiedInv' /\ BrokerType'
<1>0. admin \in [Admin -> Record] /\ BrokerType /\ admin[a].missing \subseteq Topic
  BY TypeAdmin DEF Record
<1>1. Gentle /\ BrokerType'
  <2>1. /\ made \subseteq made' /\ made' \subseteq made \union admin[a].missing
        /\ configured \subseteq configured' /\ configured' \subseteq configured \union made
        /\ wide' = wide
    BY DEF CallFails
  <2>2. QED
    BY <1>0, <2>1 DEF Gentle, BrokerType
<1>2. NextAttempt(a) \/ Enter(a, "failed")
  BY DEF CallFails
<1>3. "failed" \in AdminStep \ {"count", "done"}
  BY DEF AdminStep
<1>4. QED
  BY <1>1, <1>2, <1>3, NextAttemptOK, EnterOK

\* Creation and configuration take nothing back.
LEMMA CreatingOK ==
    ASSUME TaTypeOK, VerifiedInv, NEW a \in Admin, CreateTopics(a) \/ ConfigureTopics(a)
    PROVE  admin' \in [Admin -> Record] /\ VerifiedInv' /\ BrokerType'
<1>0. admin \in [Admin -> Record] /\ BrokerType /\ admin[a].missing \subseteq Topic
  BY TypeAdmin DEF Record
<1>1. Gentle /\ BrokerType'
  BY <1>0 DEF CreateTopics, ConfigureTopics, Gentle, BrokerType
<1>2. NextAttempt(a) \/ Enter(a, "configure") \/ Enter(a, "describe")
  BY DEF CreateTopics, ConfigureTopics
<1>3. /\ "configure" \in AdminStep \ {"count", "done"}
      /\ "describe" \in AdminStep \ {"count", "done"}
  BY DEF AdminStep
<1>4. admin[a].verified = {}
  BY DEF CreateTopics, ConfigureTopics, VerifiedInv
<1>5. QED
  BY <1>1, <1>2, <1>3, <1>4, NextAttemptOK, EnterOK

\* What is described is configured now, and nothing has been reset since.
LEMMA DescribingOK ==
    ASSUME TaTypeOK, VerifiedInv, NEW a \in Admin, DescribeTopics(a)
    PROVE  admin' \in [Admin -> Record] /\ VerifiedInv' /\ BrokerType'
<1>0. admin \in [Admin -> Record] /\ BrokerType /\ configured \in SUBSET Topic
  BY TypeAdmin DEF BrokerType
<1>1. /\ admin' = [admin EXCEPT ![a].step = "count", ![a].described = configured,
                                ![a].reset = {}]
      /\ UNCHANGED broker /\ admin[a].step = "describe"
  BY DEF DescribeTopics
<1>2. admin' \in [Admin -> Record]
  <2> HIDE DEF Record
  <2>1. \A f \in [Admin -> Record] : \A r \in Record : [f EXCEPT ![a] = r] \in [Admin -> Record]
    OBVIOUS
  <2>2. [admin EXCEPT ![a].step = "count"] \in [Admin -> Record]
    BY <1>0, <2>1, RecordFields DEF AdminStep
  <2>3. [admin EXCEPT ![a].step = "count", ![a].described = configured] \in [Admin -> Record]
    BY <1>0, <2>1, <2>2, RecordFields
  <2>4. [admin EXCEPT ![a].step = "count", ![a].described = configured, ![a].reset = {}]
          \in [Admin -> Record]
    BY <2>1, <2>3, RecordFields
  <2>5. QED
    BY <1>1, <2>4
<1>3. /\ admin'[a].step = "count" /\ admin'[a].described = configured
      /\ admin'[a].verified = admin[a].verified
  BY <1>0, <1>1 DEF Record
<1>4. admin[a].verified = {}
  BY <1>1 DEF VerifiedInv
<1>5. \A b \in Admin \ {a} : admin'[b] = admin[b]
  BY <1>0, <1>1
<1>6. /\ admin'[a].described \subseteq configured' \union admin'[a].reset
      /\ admin'[a].verified = {}
  BY <1>1, <1>3, <1>4 DEF broker
<1>7. VerifiedInv'
  <2>1. made' = made /\ configured' = configured /\ wide' = wide
    BY <1>1 DEF broker
  <2>2. SUFFICES ASSUME NEW b \in Admin
                 PROVE  VerifiedInv!(b)'
    BY DEF VerifiedInv
  <2>3. CASE b = a
    BY <1>3, <1>6, <2>3
  <2>4. CASE b # a
    BY <1>5, <2>1, <2>4 DEF VerifiedInv
  <2>5. QED
    BY <2>3, <2>4
<1>8. QED
  BY <1>0, <1>1, <1>2, <1>7 DEF BrokerType, broker

\* A topic is verified only when it was described as wanted and has one partition
\* now; the last one ends the command.
LEMMA VerifyingOK ==
    ASSUME TaTypeOK, VerifiedInv, NEW a \in Admin, VerifyTopic(a)
    PROVE  admin' \in [Admin -> Record] /\ VerifiedInv' /\ BrokerType'
<1>0. admin \in [Admin -> Record] /\ admin[a] \in Record /\ BrokerType
  BY TypeAdmin
<1>1. PICK t \in Topic \ admin[a].verified :
        IF t \in admin[a].described /\ t \in made \ wide
        THEN admin' = [admin EXCEPT
               ![a].verified = @ \union {t}, ![a].widened = @ \ {t},
               ![a].step = IF admin[a].verified \union {t} = Topic THEN "done" ELSE @]
        ELSE NextAttempt(a)
  BY DEF VerifyTopic
<1>2. UNCHANGED broker /\ admin[a].step = "count"
  BY DEF VerifyTopic
<1>3. Gentle /\ BrokerType'
  BY <1>0, <1>2 DEF Gentle, BrokerType, broker
<1>4. CASE t \in admin[a].described /\ t \in made \ wide
  <2> DEFINE seen == admin[a].verified \union {t}
             rest == admin[a].widened \ {t}
             step == IF seen = Topic THEN "done" ELSE admin[a].step
  <2>1. admin' = [admin EXCEPT ![a].verified = seen, ![a].widened = rest, ![a].step = step]
    BY <1>1, <1>4
  <2>2. seen \in SUBSET Topic /\ rest \in SUBSET Topic /\ step \in AdminStep
    BY <1>0 DEF Record, AdminStep
  <2>3. /\ seen \subseteq admin[a].described
        /\ seen \subseteq (made \ wide) \union rest
        /\ step \in {"count", "done"} /\ (step = "done" => seen = Topic)
    BY <1>2, <1>4 DEF VerifiedInv
  <2> HIDE DEF seen, rest, step
  <2>4. admin' \in [Admin -> Record]
    <3> HIDE DEF Record
    <3>1. \A f \in [Admin -> Record] : \A r \in Record : [f EXCEPT ![a] = r] \in [Admin -> Record]
      OBVIOUS
    <3>2. [admin EXCEPT ![a].verified = seen] \in [Admin -> Record]
      BY <1>0, <2>2, <3>1, RecordFields
    <3>3. [admin EXCEPT ![a].verified = seen, ![a].widened = rest] \in [Admin -> Record]
      BY <2>2, <3>1, <3>2, RecordFields
    <3>4. [admin EXCEPT ![a].verified = seen, ![a].widened = rest, ![a].step = step]
            \in [Admin -> Record]
      BY <2>2, <3>1, <3>3, RecordFields
    <3>5. QED
      BY <2>1, <3>4
  <2>5. /\ admin'[a].verified = seen /\ admin'[a].widened = rest /\ admin'[a].step = step
        /\ admin'[a].described = admin[a].described /\ admin'[a].reset = admin[a].reset
    BY <1>0, <2>1 DEF Record
  <2>6. \A b \in Admin \ {a} : admin'[b] = admin[b]
    BY <1>0, <2>1
  <2>7. VerifiedInv'
    <3>1. ASSUME NEW b \in Admin \ {a}
          PROVE  /\ admin'[b].described \subseteq configured' \union admin'[b].reset
                 /\ admin'[b].step \in {"count", "done"} =>
                       /\ admin'[b].verified \subseteq admin'[b].described
                       /\ admin'[b].verified \subseteq (made' \ wide') \union admin'[b].widened
                 /\ admin'[b].step \in {"list", "create", "configure", "describe"} =>
                       admin'[b].verified = {}
                 /\ admin'[b].step = "done" => admin'[b].verified = Topic
      BY <1>2, <2>6 DEF VerifiedInv, broker
    <3>2. /\ admin'[a].described \subseteq configured' \union admin'[a].reset
          /\ admin'[a].step \in {"count", "done"} =>
                /\ admin'[a].verified \subseteq admin'[a].described
                /\ admin'[a].verified \subseteq (made' \ wide') \union admin'[a].widened
          /\ admin'[a].step \notin {"list", "create", "configure", "describe"}
          /\ admin'[a].step = "done" => admin'[a].verified = Topic
      BY <1>2, <2>3, <2>5 DEF VerifiedInv, broker
    <3>3. QED
      BY <3>1, <3>2 DEF VerifiedInv
  <2>8. QED
    BY <1>3, <2>4, <2>7
<1>5. CASE ~(t \in admin[a].described /\ t \in made \ wide)
  <2>1. NextAttempt(a)
    BY <1>1, <1>5
  <2>2. QED
    BY <1>3, <2>1, NextAttemptOK
<1>6. QED
  BY <1>4, <1>5

\* The broker's answer begins the first attempt, the list of topics the creation.
LEMMA BeginningOK ==
    ASSUME TaTypeOK, VerifiedInv, NEW a \in Admin,
           BrokerAnswers(a) \/ BrokerSilent(a) \/ ListTopics(a) \/ RunAgain(a)
    PROVE  admin' \in [Admin -> Record] /\ VerifiedInv' /\ BrokerType'
<1>1. Gentle /\ BrokerType'
  <2>1. UNCHANGED broker
    BY DEF BrokerAnswers, BrokerSilent, ListTopics, RunAgain
  <2>2. QED
    BY <2>1, TypeAdmin DEF Gentle, BrokerType, broker
<1>2. CASE BrokerAnswers(a)
  <2>1. admin' = Attempt(a, 1) /\ 1 \in 1..MaxAttempts
    BY <1>2 DEF BrokerAnswers
  <2>2. QED
    BY <1>1, <2>1, AttemptOK
<1>3. CASE BrokerSilent(a) \/ RunAgain(a)
  <2>1. Enter(a, "failed") \/ Enter(a, "wait")
    BY <1>3 DEF BrokerSilent, RunAgain
  <2>2. /\ "failed" \in AdminStep \ {"count", "done"}
        /\ "wait" \in AdminStep \ {"count", "done"}
    BY DEF AdminStep
  <2>3. QED
    BY <1>1, <2>1, <2>2, EnterOK
<1>4. CASE ListTopics(a)
  <2> DEFINE missing == Topic \ made
             step == IF Topic \subseteq made THEN "configure" ELSE "create"
  <2>1. /\ admin' = [admin EXCEPT ![a].step = step, ![a].missing = missing]
        /\ admin \in [Admin -> Record] /\ admin[a].step = "list"
    BY <1>4, TypeAdmin DEF ListTopics
  <2>2. missing \in SUBSET Topic /\ step \in AdminStep \ {"count", "done"}
    BY DEF AdminStep
  <2> HIDE DEF missing, step
  <2>3. admin' \in [Admin -> Record]
    <3> HIDE DEF Record
    <3>1. \A f \in [Admin -> Record] : \A r \in Record : [f EXCEPT ![a] = r] \in [Admin -> Record]
      OBVIOUS
    <3>2. [admin EXCEPT ![a].step = step] \in [Admin -> Record]
      BY <2>1, <2>2, <3>1, RecordFields
    <3>3. [admin EXCEPT ![a].step = step, ![a].missing = missing] \in [Admin -> Record]
      BY <2>2, <3>1, <3>2, RecordFields
    <3>4. QED
      BY <2>1, <3>3
  <2>4. /\ admin'[a].verified = admin[a].verified /\ admin'[a].step = step
        /\ admin'[a].described = admin[a].described /\ admin'[a].reset = admin[a].reset
    BY <2>1 DEF Record
  <2>5. admin[a].verified = {} /\ \A b \in Admin \ {a} : admin'[b] = admin[b]
    BY <2>1 DEF VerifiedInv
  <2>6. VerifiedInv'
    BY <1>1, <2>2, <2>3, <2>4, <2>5, KeepOK
  <2>7. QED
    BY <1>1, <2>3, <2>6
<1>5. QED
  BY <1>2, <1>3, <1>4

LEMMA FaultsOK == ASSUME TaTypeOK, [TaNext]_adminVars PROVE adminFaults' \in 0..MaxAdminFaults
<1>1. AdminFault => adminFaults' \in 0..MaxAdminFaults
  BY DEF AdminFault, TaTypeOK
<1>2. UNCHANGED adminFaults => adminFaults' \in 0..MaxAdminFaults
  BY DEF TaTypeOK
<1>3. QED
  BY <1>1, <1>2 DEF TaNext, adminVars, Command, CreateByHand, ResetByHand, WidenByHand,
     BrokerAnswers, BrokerSilent, CallFails, ListTopics, CreateTopics, ConfigureTopics,
     DescribeTopics, VerifyTopic, RunAgain

LEMMA AdminStepOK ==
    ASSUME TaTypeOK, VerifiedInv, [TaNext]_adminVars PROVE TaTypeOK' /\ VerifiedInv'
<1>1. admin' \in [Admin -> Record] /\ VerifiedInv' /\ BrokerType'
  <2>1. CASE UNCHANGED adminVars
    BY <2>1, TypeAdmin DEF adminVars, broker, VerifiedInv, BrokerType
  <2>2. CASE TaNext
    BY <2>2, ByHandOK, FailingOK, CreatingOK, DescribingOK, VerifyingOK, BeginningOK
       DEF TaNext, Command
  <2>3. QED
    BY <2>1, <2>2
<1>2. QED
  BY <1>1, FaultsOK DEF TaTypeOK, Record, BrokerType

-----------------------------------------------------------------------------
LEMMA Initially == TaInit => TaTypeOK /\ VerifiedInv
<1> SUFFICES ASSUME TaInit PROVE TaTypeOK /\ VerifiedInv
  OBVIOUS
<1>1. \A a \in Admin : admin[a] = [step |-> "wait", attempt |-> 1, missing |-> {},
                                   described |-> {}, verified |-> {},
                                   reset |-> {}, widened |-> {}]
  BY DEF TaInit
<1>2. \A a \in Admin : admin[a] \in Record
  BY <1>1 DEF Record, AdminStep
<1>3. admin \in [Admin -> Record] /\ BrokerType
  BY <1>2 DEF TaInit, BrokerType
<1>4. TaTypeOK
  BY <1>3 DEF TaTypeOK, Record, BrokerType, TaInit
<1>5. VerifiedInv
  BY <1>1 DEF VerifiedInv
<1>6. QED
  BY <1>4, <1>5

\* Types; the attempts of a command never exceed max_attempts
\* (reconcile_topics_with_retry).
THEOREM TypeCorrect == TaSpec => []TaTypeOK
<1>1. QED
  BY Initially, AdminStepOK, PTL DEF TaSpec

\* A command that exited with 0 says the truth: of the configuration as of the one
\* answer to describe_configs, of the partitions as of each topic's turn, until somebody
\* changes them by hand after that; no other command and no failing call takes back
\* what it verified (verify_topics).
THEOREM SuccessIsTrue == TaSpec => []ReadyIsReal
<1>1. TaTypeOK /\ VerifiedInv => ReadyIsReal
  BY DEF VerifiedInv, ReadyIsReal
<1>2. QED
  BY Initially, AdminStepOK, <1>1, PTL DEF TaSpec
=============================================================================
