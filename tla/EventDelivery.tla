--------------------------- MODULE EventDelivery ---------------------------
(***************************************************************************)
(* The OrderProcessed events between orderservice and analyticsservice:    *)
(* the Kafka sink that sends them, the topic order-processed with its one  *)
(* partition, and the Kafka source of analyticsservice, whose handler      *)
(* counts an event and marks its message processed in the result callback. *)
(*                                                                         *)
(* Kafka and the client library are outside the repository.  What is       *)
(* assumed of them: a message handed to send is stored, once or, when an   *)
(* acknowledgement is lost, again, or it is lost; the group has one        *)
(* consumer, which hands out the messages from the committed offset on, in *)
(* order, several at a time; what is committed is a prefix of the          *)
(* partition whose messages are all marked; after a restart of the service *)
(* or a rebalance of the group delivery resumes at the committed offset.   *)
(*                                                                         *)
(* Left out.  A message that does not parse, for which consumeMessage      *)
(* throws before there is a callback to mark it: nothing but the sink      *)
(* writes to the topic here.  Handlers that were under way when the group  *)
(* was rebalanced and still count and mark: Rebalance ends them.           *)
(***************************************************************************)
EXTENDS Naturals, Sequences, FiniteSets

CONSTANTS
  Events,        \* the OrderProcessed events orderservice may send
  Confirmed,     \* those with status CONFIRMED
  MaxStored,     \* bound: messages in the partition
  MaxResumptions \* bound: restarts and rebalances

VARIABLES
  outbox,       \* events handed to message.send, not acknowledged
  partition,    \* the messages stored, by offset
  committed,    \* the committed offset: messages up to it are not redelivered
  first,        \* the committed offset the running service started from
  handling,     \* the messages delivered, and how far each handler is
  successful,   \* State.successful of CountOrderProcessed
  unsuccessful, \* State.unsuccessful
  counted,      \* offsets the counting function has seen since Kafka was empty
  resumptions,  \* restarts and rebalances so far
  redelivered   \* has a rebalance repeated deliveries to the running service

topic    == <<outbox, partition>>
counters == <<successful, unsuccessful>>
vars     == <<outbox, partition, committed, first, handling, successful,
              unsuccessful, counted, resumptions, redelivered>>

Stages == {"waiting", "delivered", "counted", "marked"}

Nothing == [n \in 1..MaxStored |-> "waiting"]

Init ==
  /\ outbox       = {}
  /\ partition    = << >>
  /\ committed    = 0
  /\ first        = 0
  /\ handling     = Nothing
  /\ successful   = 0
  /\ unsuccessful = 0
  /\ counted      = {}
  /\ resumptions  = 0
  /\ redelivered  = FALSE

(***************************************************************************)
(* orderservice: the sink publishOrderProcessed.                           *)
(***************************************************************************)

\* consumeMessage of the sink serializes the event and calls message.send.
ConsumeMessage(e) ==
  /\ outbox' = outbox \cup {e}
  /\ UNCHANGED <<partition, committed, first, handling, counters, counted,
                 resumptions, redelivered>>

\* Kafka stores the message; without the acknowledgement it is sent again.
Store(e, acknowledged) ==
  /\ e \in outbox
  /\ Len(partition) < MaxStored
  /\ partition' = Append(partition, e)
  /\ outbox'    = IF acknowledged THEN outbox \ {e} ELSE outbox
  /\ UNCHANGED <<committed, first, handling, counters, counted, resumptions, redelivered>>

\* The send fails; endRequest of the sink drops the error.
EndRequestWithError(e) ==
  /\ e \in outbox
  /\ outbox' = outbox \ {e}
  /\ UNCHANGED <<partition, committed, first, handling, counters, counted,
                 resumptions, redelivered>>

(***************************************************************************)
(* analyticsservice: one handler for each message delivered.               *)
(***************************************************************************)

Advance(n, from, to) ==
  /\ handling[n] = from
  /\ handling' = [handling EXCEPT ![n] = to]

\* The client hands the next message to consumeMessage, which parses it (it is
\* one of the sink's, so that does not throw) and registers the callback that will
\* mark it.
Deliver(n) ==
  /\ n \in DOMAIN partition
  /\ \A k \in 1..(n - 1) : k <= committed \/ handling[k] # "waiting"
  /\ n > committed
  /\ Advance(n, "waiting", "delivered")
  /\ UNCHANGED <<topic, committed, first, counters, counted, resumptions, redelivered>>

\* (defect) an event that is not CONFIRMED is passed on without being counted
CountConfirmedOnly(n) ==
  /\ n \in DOMAIN partition
  /\ Advance(n, "delivered", "counted")
  /\ counted' = counted \cup {n}
  /\ successful' = IF partition[n] \in Confirmed THEN successful + 1 ELSE successful
  /\ UNCHANGED <<topic, committed, first, unsuccessful, resumptions, redelivered>>

\* stream.collect: operator() of CountOrderProcessed, in the same thread.
Count(n) ==
  /\ n \in DOMAIN partition
  /\ Advance(n, "delivered", "counted")
  /\ counted' = counted \cup {n}
  /\ IF partition[n] \in Confirmed
     THEN successful' = successful + 1 /\ UNCHANGED unsuccessful
     ELSE unsuccessful' = unsuccessful + 1 /\ UNCHANGED successful
  /\ UNCHANGED <<topic, committed, first, resumptions, redelivered>>

\* (defect) the message is marked before its event is collected
MarkOnDelivery(n) ==
  /\ handling[n] \in {"delivered", "counted"}
  /\ handling' = [handling EXCEPT ![n] = "marked"]
  /\ UNCHANGED <<topic, committed, first, counters, counted, resumptions, redelivered>>

\* (defect) the callback is looked up by an identifier it was not registered under
MarkUnderOtherId(n) ==
  /\ Advance(n, "counted", "marked")
  /\ partition[n] \in Confirmed
  /\ UNCHANGED <<topic, committed, first, counters, counted, resumptions, redelivered>>

\* out.out returns the value to the source, whose callback, found by
\* getMessageId, calls markMessage and done.
Mark(n) ==
  /\ Advance(n, "counted", "marked")
  /\ UNCHANGED <<topic, committed, first, counters, counted, resumptions, redelivered>>

\* The client commits a prefix of the marked messages.
Commit(n) ==
  /\ n \in DOMAIN partition
  /\ n > committed
  /\ \A k \in (committed + 1)..n : handling[k] = "marked"
  /\ committed' = n
  /\ UNCHANGED <<topic, first, handling, counters, counted, resumptions, redelivered>>

(***************************************************************************)
(* Resuming at the committed offset.                                       *)
(***************************************************************************)

Resume ==
  /\ resumptions < MaxResumptions
  /\ resumptions' = resumptions + 1
  /\ handling' = [n \in 1..MaxStored |->
                    IF n > committed THEN "waiting" ELSE handling[n]]
  /\ UNCHANGED <<topic, committed, counted>>

\* analyticsservice stops or crashes and starts again: a new CountOrderProcessed
\* makes a new State.
Restart ==
  /\ Resume
  /\ first' = committed
  /\ redelivered' = FALSE
  /\ successful' = 0
  /\ unsuccessful' = 0

\* The group is rebalanced under the running service.
Rebalance ==
  /\ Resume
  /\ redelivered' = TRUE
  /\ UNCHANGED <<first, counters>>

Handle(n) == Deliver(n) \/ Count(n) \/ Mark(n) \/ Commit(n)

\* Every step but the sending of an event.
Step ==
  \/ \E e \in Events : Store(e, TRUE) \/ Store(e, FALSE) \/ EndRequestWithError(e)
  \/ \E n \in 1..MaxStored : Handle(n)
  \/ Restart
  \/ Rebalance

Next == Step \/ \E e \in Events : ConsumeMessage(e)

\* A handler runs to its end, and the client delivers and commits.
Fairness == \A n \in 1..MaxStored : WF_vars(Handle(n))

Spec == Init /\ [][Next]_vars

-----------------------------------------------------------------------------
(* Properties *)

TypeOK ==
  /\ outbox \in SUBSET Events
  /\ partition \in Seq(Events)
  /\ Len(partition) <= MaxStored
  /\ committed \in 0..Len(partition)
  /\ first \in 0..committed
  /\ handling \in [1..MaxStored -> Stages]
  /\ successful \in Nat
  /\ unsuccessful \in Nat
  /\ counted \subseteq 1..Len(partition)
  /\ resumptions \in 0..MaxResumptions
  /\ redelivered \in BOOLEAN

\* analyticsservice/config/config.generated.hpp:866: consumers "mark its Kafka
\* message processed only after the pipeline handles it successfully".  A
\* message that will not be delivered again has been counted, by this
\* incarnation of the service or an earlier one, whatever restarts fell between.
CommittedWereCounted == \A n \in 1..committed : n \in counted

\* The offsets whose handler of this incarnation has passed the counting.
Passed(n) == n > first /\ handling[n] \in {"counted", "marked"}

PassedIn(S) == { n \in DOMAIN partition : Passed(n) /\ partition[n] \in S }

\* The counters of count_order_processed.hpp:35-37 are the numbers of CONFIRMED
\* and other messages handled since the service started, and more only after a
\* redelivery to it: nothing is counted twice, missed or under the other status.
CountersMatchDeliveries ==
  LET others == Events \ Confirmed IN
  /\ successful   >= Cardinality(PassedIn(Confirmed))
  /\ unsuccessful >= Cardinality(PassedIn(others))
  /\ ~redelivered =>
       /\ successful   = Cardinality(PassedIn(Confirmed))
       /\ unsuccessful = Cardinality(PassedIn(others))

\* A stored message does not stay unhandled: it is counted, marked and committed.
StoredAreCommitted ==
  \A n \in 1..MaxStored : n \in DOMAIN partition ~> n <= committed
=============================================================================
