-------------------------------- MODULE Relay --------------------------------
(***************************************************************************)
(* What ruuvihome promises of a measurement, without callback, publisher,  *)
(* retries or shutdown: a relay that accepts measurements no closer        *)
(* together than their device's interval, holds a bounded number of them,  *)
(* settles them first in first out, and refuses the newest only when it is *)
(* full.                                                                   *)
(*                                                                         *)
(* Where the QoS does not acknowledge, the broker receives a measurement   *)
(* at most Copies times, maybe after it was settled as failed, but never   *)
(* after a newer one.  Where it does, the relay settles as published only  *)
(* what the broker has or what it keeps, and it keeps a measurement until  *)
(* the broker has it: as long as the process is up, nothing that counts as *)
(* published is lost, though it may come late, again, or after a newer one.*)
(*                                                                         *)
(* An abstract specification of Bridge; BridgeRelay states the mapping.    *)
(***************************************************************************)
EXTENDS Integers, Sequences, FiniteSets

CONSTANTS
  Measurements,   \* records with at least the fields id, dev and at; of listed devices only
  MinInterval(_), \* the least time between two measurements of a device
  Copies,         \* how often the broker may receive one it does not acknowledge
  QueueSize,      \* how many wait between the two ends
  Acknowledged    \* whether the broker acknowledges (QoS 1)

VARIABLES
  accepted,   \* every measurement accepted so far
  pending,    \* the accepted ones that have no outcome, oldest first
  kept,       \* those kept for the broker until it has them
  received,   \* what the broker received, in order
  published,  \* how many were settled as published
  failed,     \* how many were refused or settled as failed
  up          \* the process runs

relayVars == <<accepted, pending, kept, received, published, failed, up>>

RelayInit ==
  /\ accepted = {} /\ pending = <<>> /\ kept = {} /\ received = <<>>
  /\ published = 0 /\ failed = 0
  /\ up = TRUE

\* One more measurement, newer than all and spaced from its device's last one.
\* Beside the queue, one can be at each end.
Accept(m) ==
  /\ up = TRUE
  /\ m \in Measurements
  /\ Len(pending) < QueueSize + 2
  /\ \A n \in accepted : n.id < m.id
  /\ \A n \in accepted : n.dev = m.dev => m.at - n.at >= MinInterval(m.dev)
  /\ accepted' = accepted \cup {m}
  /\ pending' = Append(pending, m)
  /\ UNCHANGED <<kept, received, published, failed, up>>

\* The newest is dropped, because the queue before it is full.
Refuse ==
  /\ up = TRUE
  /\ Len(pending) > QueueSize
  /\ pending' = SubSeq(pending, 1, Len(pending) - 1)
  /\ failed' = failed + 1
  /\ UNCHANGED <<accepted, kept, received, published, up>>

\* The oldest is kept, for a broker that acknowledges.
Keep ==
  /\ up = TRUE /\ Acknowledged
  /\ pending # <<>>
  /\ kept' = kept \cup {Head(pending)}
  /\ UNCHANGED <<accepted, pending, received, published, failed, up>>

\* What does not count as acknowledged comes in order, and not too often.
InOrder(m) ==
  /\ \A i \in DOMAIN received : received[i].id <= m.id
  /\ Cardinality({i \in DOMAIN received : received[i] = m}) < Copies

\* The broker has m, which may end its being kept.
Receive(m) ==
  /\ ~Acknowledged => InOrder(m)
  /\ received' = Append(received, m)
  /\ kept' \in {kept, kept \ {m}}
  /\ UNCHANGED <<accepted, pending, published, failed, up>>

SettlePublished ==
  /\ up = TRUE
  /\ pending # <<>>
  /\ Acknowledged =>
       \/ Head(pending) \in kept
       \/ \E i \in DOMAIN received : received[i] = Head(pending)
  /\ pending' = Tail(pending)
  /\ published' = published + 1
  /\ UNCHANGED <<accepted, kept, received, failed, up>>

SettleFailed ==
  /\ up = TRUE
  /\ pending # <<>>
  /\ pending' = Tail(pending)
  /\ failed' = failed + 1
  /\ UNCHANGED <<accepted, kept, received, published, up>>

\* The process ends, and what it kept is gone.
End ==
  /\ up = TRUE
  /\ up' = FALSE /\ kept' = {}
  /\ UNCHANGED <<accepted, pending, received, published, failed>>

RelayNext ==
  \/ \E m \in accepted' \ accepted : Accept(m)
  \/ Refuse
  \/ Keep
  \/ \E m \in accepted : Receive(m)
  \/ SettlePublished
  \/ SettleFailed
  \/ End

RelaySpec == RelayInit /\ [][RelayNext]_relayVars
=============================================================================
