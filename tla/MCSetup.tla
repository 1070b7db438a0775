------------------------------- MODULE MCSetup -------------------------------
(***************************************************************************)
(* TopicAdmin and MongoMaintenance share no state, so the instance explores *)
(* their sum and not their product: scene says which of the two moves.      *)
(***************************************************************************)
EXTENDS TopicAdmin, MongoMaintenance

CONSTANTS raw, dlq, a1, a2, w1, w2

VARIABLE scene

mcVars == <<scene, platform, adminVars, mmVars>>

\* Of the databases of the earlier version: both indexes on ingested_at alike, or one
\* collection has none yet and the other an index of that name on another key.  Documents
\* with a date in observed_at are left to kubernetes, where every start is possible that
\* compose has; what compose adds, the restores, never looks at a date.
Chosen ==
    /\ {index[c].ttl : c \in Coll} \in {{"none"}, {"other"}, {"none", "foreign"}}
    /\ platform = "compose" /\ docs # Nothing => dateless = 1..Legacy

MCInit ==
    /\ TaInit /\ MmInit /\ Chosen
    /\ \/ scene = "topics" /\ platform = "compose" /\ docs = Nothing
       \/ scene = "database" /\ made = {}

MCNext ==
    \/ scene = "topics" /\ TaNext /\ UNCHANGED <<scene, mmVars>>
    \/ scene = "database" /\ MmNext /\ UNCHANGED <<scene, adminVars>>

MCSpec ==
    /\ MCInit /\ [][MCNext]_mcVars
    /\ \A a \in Inits : /\ WF_adminVars(scene = "topics" /\ Command(a))
                        /\ WF_adminVars(scene = "topics" /\ Restart(a))
    /\ WF_mmVars(scene = "database" /\ SomeConsumer)

-----------------------------------------------------------------------------
\* InitSucceeds of TopicAdmin (kafka/admin.py), where the topics are what moves.
TopicsConverge == scene = "topics" => InitSucceeds

\* ConsumerReturns of MongoMaintenance (prepare_indexes), where the database moves.
PreparationConverges == scene = "database" => ConsumerReturns
==============================================================================
