---------------------------- MODULE MCMongoWriter ----------------------------
(* Instances of MongoWriter for TLC. *)
EXTENDS MongoWriter, TLC

CONSTANTS w1, w2, a1, e1, e2

Event(kind, id, icao, time) ==
    [kind |-> kind, event_id |-> id, icao24 |-> icao, observed_at |-> time]

\* An event with an id, a tie with it under another id, a newer one without an
\* id, the two kinds that go to the dead-letter topic, and one that only
\* raw_positions takes.
MCPayload == {Event("valid", e1, a1, 1), Event("valid", e2, a1, 1),
              Event("valid", NoId, a1, 2),
              Event("malformed", NoId, a1, 1), Event("unstorable", NoId, a1, 1),
              Event("halfway", e2, a1, 3)}

\* For the liveness run: one storable, one refused, and the three on which the
\* writer stays.
MCPayloadLive == {Event("valid", NoId, a1, 1), Event("malformed", NoId, a1, 1),
                  Event("poison", NoId, a1, 1), Event("halfway", NoId, a1, 1),
                  Event("oversize", NoId, a1, 1)}

MCSymmetry == Permutations(Worker)
=============================================================================
