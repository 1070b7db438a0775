----------------------------- MODULE TopicAdmin -----------------------------
(***************************************************************************)
(* kafka/admin.py beside the broker: the topic-init command creates the     *)
(* missing topics, sets their configuration, verifies both and starts over  *)
(* after a failure, max_attempts times; the topics command only verifies.   *)
(* Several of them may run at once (the Job of the cluster, an operator's   *)
(* shell), and topics may be changed by hand between any two calls.         *)
(***************************************************************************)
EXTENDS Integers, FiniteSets

CONSTANTS
    Topic,          \* the names of topic_specs()
    Admin,          \* processes running kafka/admin.py
    Inits,          \* those of them started with "init"
    MaxAttempts,    \* max_attempts
    MaxAdminFaults  \* bound on failing calls and manual changes

ASSUME TopicAdminAssumption ==
    /\ Inits \subseteq Admin /\ Cardinality(Topic) > 0
    /\ MaxAttempts \in Nat \ {0} /\ MaxAdminFaults \in Nat

VARIABLES
    made,         \* the topics the broker has ...
    configured,   \* ... those of them with the configuration of topic_specs() ...
    wide,         \* ... and those with more than one partition
    admin,        \* admin[a]: where process a is
    adminFaults

broker == <<made, configured, wide>>
adminVars == <<broker, admin, adminFaults>>

AdminStep == {"wait", "list", "create", "configure", "describe", "count", "done", "failed"}

\* described: what describe_configs found configured.  History: the topics reset by
\* hand since then, and those widened by hand since their partitions were counted.
TaInit ==
    /\ made \in SUBSET Topic /\ configured = {} /\ wide = {}
    /\ admin = [a \in Admin |-> [step |-> "wait", attempt |-> 1, missing |-> {},
                                 described |-> {}, verified |-> {},
                                 reset |-> {}, widened |-> {}]]
    /\ adminFaults = 0

AdminFault == adminFaults < MaxAdminFaults /\ adminFaults' = adminFaults + 1

\* Somebody creates a topic, resets its configuration or gives it more partitions.
CreateByHand(t) ==
    /\ t \notin made /\ AdminFault
    /\ made' = made \union {t} /\ wide' \in {wide, wide \union {t}}
    /\ UNCHANGED <<configured, admin>>

ResetByHand(t) ==
    /\ t \in configured /\ AdminFault
    /\ configured' = configured \ {t}
    /\ admin' = [a \in Admin |-> [admin[a] EXCEPT !.reset = @ \union {t}]]
    /\ UNCHANGED <<made, wide>>

WidenByHand(t) ==
    /\ t \in made \ wide /\ AdminFault
    /\ wide' = wide \union {t}
    /\ admin' = [a \in Admin |-> [admin[a] EXCEPT !.widened = @ \union {t}]]
    /\ UNCHANGED <<made, configured>>

Enter(a, step) == admin' = [admin EXCEPT ![a].step = step]

\* One attempt of reconcile_topics_with_retry.
Attempt(a, n) ==
    [admin EXCEPT ![a].step = IF a \in Inits THEN "list" ELSE "describe",
                  ![a].attempt = n, ![a].missing = {}, ![a].verified = {}]

\* wait_for_broker got an answer; without one in 90 seconds it raises.
BrokerAnswers(a) ==
    /\ admin[a].step = "wait"
    /\ admin' = Attempt(a, 1)
    /\ UNCHANGED <<broker, adminFaults>>

BrokerSilent(a) ==
    /\ admin[a].step = "wait" /\ AdminFault
    /\ Enter(a, "failed")
    /\ UNCHANGED broker

\* Bug: one attempt too many.
BugOneMore(a) ==
    IF admin[a].attempt <= MaxAttempts
    THEN admin' = Attempt(a, admin[a].attempt + 1)
    ELSE Enter(a, "failed")

\* What a KafkaException or RuntimeError of a call leads to.
NextAttempt(a) ==
    IF admin[a].attempt < MaxAttempts
    THEN admin' = Attempt(a, admin[a].attempt + 1)
    ELSE Enter(a, "failed")

\* A call fails, its answer is lost, or a result does not arrive in time (that
\* TimeoutError nobody catches); what it asked for may have been applied to any of
\* the topics.
CallFails(a) ==
    /\ admin[a].step \in {"list", "create", "configure", "describe", "count"} /\ AdminFault
    /\ made' \in {made \union S : S \in SUBSET admin[a].missing}
    /\ configured' \in {configured \union S : S \in SUBSET made}
    /\ admin[a].step # "create" => made' = made
    /\ admin[a].step # "configure" => configured' = configured
    /\ \/ NextAttempt(a)
       \/ admin[a].step # "list" /\ Enter(a, "failed")
    /\ UNCHANGED wide

\* Bug: every topic is created, whether the broker lists it or not.
BugCreateAll(a) ==
    /\ admin[a].step = "list"
    /\ admin' = [admin EXCEPT ![a].step = "create", ![a].missing = Topic]
    /\ UNCHANGED <<broker, adminFaults>>

\* create_topics: the metadata request, then only what it does not list.
ListTopics(a) ==
    /\ admin[a].step = "list"
    /\ admin' = [admin EXCEPT ![a].step = IF Topic \subseteq made THEN "configure" ELSE "create",
                              ![a].missing = Topic \ made]
    /\ UNCHANGED <<broker, adminFaults>>

\* The broker creates each topic or refuses it because it exists by now; the
\* first refused one raises.
CreateTopics(a) ==
    /\ admin[a].step = "create"
    /\ made' = made \union admin[a].missing
    /\ IF admin[a].missing \intersect made # {} THEN NextAttempt(a) ELSE Enter(a, "configure")
    /\ UNCHANGED <<configured, wide, adminFaults>>

\* The configuration is set whatever it was; the partitions are not touched.
ConfigureTopics(a) ==
    /\ admin[a].step = "configure"
    /\ configured' = made
    /\ IF Topic \subseteq made THEN Enter(a, "describe") ELSE NextAttempt(a)
    /\ UNCHANGED <<made, wide, adminFaults>>

\* verify_topics asks for all configurations at once.
DescribeTopics(a) ==
    /\ admin[a].step = "describe"
    /\ admin' = [admin EXCEPT ![a].step = "count", ![a].described = configured,
                              ![a].reset = {}]
    /\ UNCHANGED <<broker, adminFaults>>

\* Bug: the partitions are not counted.
BugPartitionsUnchecked(a) ==
    /\ admin[a].step = "count"
    /\ \E t \in Topic \ admin[a].verified :
         IF t \in admin[a].described
         THEN admin' = [admin EXCEPT
                ![a].verified = @ \union {t}, ![a].widened = @ \ {t},
                ![a].step = IF admin[a].verified \union {t} = Topic THEN "done" ELSE @]
         ELSE NextAttempt(a)
    /\ UNCHANGED <<broker, adminFaults>>

\* One topic of the loop of verify_topics: the configuration that was described, and
\* the partitions it has now.
VerifyTopic(a) ==
    /\ admin[a].step = "count"
    /\ \E t \in Topic \ admin[a].verified :
         IF t \in admin[a].described /\ t \in made \ wide
         THEN admin' = [admin EXCEPT
                ![a].verified = @ \union {t}, ![a].widened = @ \ {t},
                ![a].step = IF admin[a].verified \union {t} = Topic THEN "done" ELSE @]
         ELSE NextAttempt(a)
    /\ UNCHANGED <<broker, adminFaults>>

\* The Job and the operator start a failed command again; a finished one too.
RunAgain(a) ==
    /\ admin[a].step \in {"done", "failed"}
    /\ Enter(a, "wait")
    /\ UNCHANGED <<broker, adminFaults>>

Command(a) ==
    \/ BrokerAnswers(a) \/ ListTopics(a) \/ CreateTopics(a)
    \/ ConfigureTopics(a) \/ DescribeTopics(a) \/ VerifyTopic(a)

Restart(a) == admin[a].step = "failed" /\ RunAgain(a)

TaNext ==
    \/ \E t \in Topic : CreateByHand(t) \/ ResetByHand(t) \/ WidenByHand(t)
    \/ \E a \in Admin : Command(a) \/ BrokerSilent(a) \/ CallFails(a) \/ RunAgain(a)

TaSpec == TaInit /\ [][TaNext]_adminVars

\* The Job: its command goes on, and is started again while it fails.  Its
\* backoffLimit of 3 allows that as long as MaxAdminFaults is at most 3.
TaFairness == \A a \in Inits : WF_adminVars(Command(a)) /\ WF_adminVars(Restart(a))

-----------------------------------------------------------------------------
(* Properties.                                                             *)

\* Types; no command makes more attempts than it may.
TaTypeOK ==
    /\ made \subseteq Topic /\ configured \subseteq made /\ wide \subseteq made
    /\ admin \in [Admin -> [step : AdminStep, attempt : 1..MaxAttempts, missing : SUBSET Topic,
                            described : SUBSET Topic, verified : SUBSET Topic,
                            reset : SUBSET Topic, widened : SUBSET Topic]]
    /\ adminFaults \in 0..MaxAdminFaults

\* When a command has exited with 0, every topic has the wanted configuration unless
\* somebody has reset it since the command read them all, and one partition unless
\* somebody has widened it since the command counted, whatever other commands and
\* failing calls did.
ReadyIsReal ==
    \A a \in Admin : admin[a].step = "done" =>
        /\ Topic \subseteq configured \union admin[a].reset
        /\ Topic \subseteq (made \ wide) \union admin[a].widened

\* Creation converges: whatever failed or was applied without an answer, and
\* whoever else creates the same topics, in the end an init has succeeded, unless a
\* topic was given more partitions by hand.
InitSucceeds == []<>((\E a \in Inits : admin[a].step = "done") \/ wide # {})
=============================================================================
