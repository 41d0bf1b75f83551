----------------------------- MODULE BridgeRelay -----------------------------
(* How Bridge implements Relay.                                            *)
EXTENDS Bridge

\* The measurements without an outcome: the publisher's, the queue, the callback's.
Unsettled ==
  (IF pub \in {"select", "done"} THEN <<>> ELSE <<pubM>>)
  \o queue
  \o (IF cb = "idle" THEN <<>> ELSE <<cbM>>)

\* The measurements the client keeps a message of.
Kept == {x.m : x \in store}

R == INSTANCE Relay WITH
  Measurements <- {m \in Measurement : FilterNamed => m.dev \in Configured},
  MinInterval <- Interval, Copies <- PublishRetries + 1,
  QueueSize <- PublishQueueSize, Acknowledged <- QoS > 0,
  accepted <- admitted, pending <- Unsettled, kept <- Kept,
  received <- [i \in DOMAIN broker |-> broker[i].m],
  published <- publishedTotal, failed <- publishFailures, up <- Alive

\* Bridge implements the abstract relay: listed devices only, spacing, bounded
\* backlog, one outcome per measurement, refusal only by a full queue; order and
\* bounded repeats at QoS 0; and at QoS 1 published only what the broker has or the
\* client keeps, and sends again, until the broker has it or the process ends.
ImplementsRelay == R!RelaySpec
=============================================================================
