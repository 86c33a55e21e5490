---------------------- MODULE AnalyticsService_proofs ----------------------
(***************************************************************************)
(* analyticsservice implements the delivery of events: whatever its start, *)
(* its example streams, its stop and its crashes do in between, its Kafka  *)
(* handler behaves like EventDelivery.  And its example streams never      *)
(* fail, no call of them throws, and bring every result exactly once.      *)
(***************************************************************************)
EXTENDS AnalyticsService, FiniteSetTheorems, TLAPS

Proved == INSTANCE EventDelivery_proofs

LEMMA InitIsDeliveryInit == Init => Delivery!Init
BY DEF Init

\* Starting, stopping and the streams leave the delivery alone.
LEMMA OtherSteps ==
  ASSUME \/ Starting \/ Stop \/ ReleaseRuntime \/ Idle
         \/ \E x \in Produced : Begin(x) \/ ThreadStep(x)
         \/ \E j \in Joins, key \in Keys : Expire(j, key)
  PROVE  UNCHANGED deliveryVars
<1>1. CASE Starting
  BY <1>1 DEF Starting, CustomMakersInit, InitFunctions, BuildStreams, Bind, InitDataSinks,
              InitDataSources, StartStep
<1>2. CASE Stop \/ ReleaseRuntime \/ Idle
  BY <1>2 DEF Stop, ReleaseRuntime, Idle, vars
<1>3. ASSUME NEW x \in Produced, Begin(x) \/ ThreadStep(x) PROVE UNCHANGED deliveryVars
  BY <1>3 DEF Begin, ThreadStep, Pass, Invoke, Join, Write
<1>4. ASSUME NEW j \in Joins, NEW key \in Keys, Expire(j, key) PROVE UNCHANGED deliveryVars
  BY <1>4 DEF Expire
<1> QED
  BY <1>1, <1>2, <1>3, <1>4

LEMMA StepIsDeliveryStep == [Next]_vars => [Delivery!Next]_(Delivery!vars)
<1> SUFFICES ASSUME [Next]_vars PROVE [Delivery!Next]_(Delivery!vars)
  OBVIOUS
<1>1. CASE UNCHANGED deliveryVars
  BY <1>1 DEF deliveryVars, Delivery!vars, Delivery!counters
<1>2. CASE UNCHANGED vars
  BY <1>1, <1>2 DEF vars
<1>3. CASE \/ Starting \/ Stop \/ ReleaseRuntime \/ Idle
           \/ \E x \in Produced : Begin(x) \/ ThreadStep(x)
           \/ \E j \in Joins, key \in Keys : Expire(j, key)
  BY <1>1, <1>3, OtherSteps
<1>4. CASE \E n \in 1..MaxStored : HandleMessage(n)
  BY <1>4 DEF HandleMessage, Delivery!Next, Delivery!Step
<1>5. CASE KafkaStep \/ Rebalance
  BY <1>5 DEF KafkaStep, Rebalance, Delivery!Next, Delivery!Step
<1>6. CASE StartAgain \/ Crash
  BY <1>6 DEF StartAgain, Crash, NewProcess, Delivery!Next, Delivery!Step
<1> QED
  BY <1>2, <1>3, <1>4, <1>5, <1>6 DEF Next

\* Every step of the service is a step of the delivery or leaves it alone.
THEOREM ServiceImplementsDelivery == Spec => Delivery!Spec
BY InitIsDeliveryInit, StepIsDeliveryStep, PTL DEF Spec, Delivery!Spec

\* The module of the proofs has the steps of the delivery.
LEMMA SameSteps == [Delivery!Next]_(Delivery!vars) <=> [Proved!Next]_(Proved!vars)
<1>1. Delivery!Resume <=> Proved!Resume
  BY DEF Delivery!Resume, Proved!Resume, Delivery!topic, Proved!topic
<1>2. \A n : Delivery!Handle(n) <=> Proved!Handle(n)
  BY DEF Delivery!Handle, Delivery!Deliver, Delivery!Count, Delivery!Mark, Delivery!Commit,
         Delivery!Advance, Delivery!topic, Delivery!counters,
         Proved!Handle, Proved!Deliver, Proved!Count, Proved!Mark, Proved!Commit,
         Proved!Advance, Proved!topic, Proved!counters
<1>3. \A e : /\ Delivery!ConsumeMessage(e) <=> Proved!ConsumeMessage(e)
             /\ Delivery!Store(e, TRUE) <=> Proved!Store(e, TRUE)
             /\ Delivery!Store(e, FALSE) <=> Proved!Store(e, FALSE)
             /\ Delivery!EndRequestWithError(e) <=> Proved!EndRequestWithError(e)
  BY DEF Delivery!ConsumeMessage, Delivery!Store, Delivery!EndRequestWithError, Delivery!counters,
         Proved!ConsumeMessage, Proved!Store, Proved!EndRequestWithError, Proved!counters
<1>4. /\ Delivery!Restart <=> Proved!Restart
      /\ Delivery!Rebalance <=> Proved!Rebalance
  BY <1>1 DEF Delivery!Restart, Proved!Restart, Delivery!Rebalance, Proved!Rebalance,
              Delivery!counters, Proved!counters
<1>5. Delivery!vars = Proved!vars /\ (Delivery!vars' = Proved!vars')
  BY DEF Delivery!vars, Proved!vars
<1> QED
  BY <1>2, <1>3, <1>4, <1>5 DEF Delivery!Next, Proved!Next, Delivery!Step, Proved!Step

LEMMA SpecIsProvedSpec == Spec => Proved!Spec
<1>1. Delivery!Init => Proved!Init
  BY DEF Delivery!Init, Proved!Init, Delivery!Nothing, Proved!Nothing
<1> QED
  BY <1>1, SameSteps, ServiceImplementsDelivery, PTL DEF Delivery!Spec, Proved!Spec

\* In the running service, too, a message that will not be delivered again has
\* been counted.
THEOREM ServiceCountsCommitted == Spec => []CommittedWereCounted
<1>1. Proved!Spec => []Proved!CommittedWereCounted
  BY BoundsAreNatural, Proved!CommittedAreCounted DEF Proved!Bounds
<1>2. Proved!CommittedWereCounted => CommittedWereCounted
  BY DEF CommittedWereCounted, Delivery!CommittedWereCounted, Proved!CommittedWereCounted
<1> QED
  BY <1>1, <1>2, SpecIsProvedSpec, PTL

\* In the running service, too, the counters are exact until a redelivery.
THEOREM ServiceCountersAreExact == Spec => []CountersMatchDeliveries
<1>1. Proved!Spec => []Proved!CountersMatchDeliveries
  BY BoundsAreNatural, Proved!CountersAreExact DEF Proved!Bounds
<1>2. \A n : Delivery!Passed(n) = Proved!Passed(n)
  BY DEF Delivery!Passed, Proved!Passed
<1>3. \A S : Delivery!PassedIn(S) = Proved!PassedIn(S)
  BY <1>2 DEF Delivery!PassedIn, Proved!PassedIn
<1>4. \A S : Delivery!Cardinality(S) = Proved!Cardinality(S)
  BY DEF Delivery!Cardinality, Proved!Cardinality
<1>5. Proved!CountersMatchDeliveries => CountersMatchDeliveries
  BY <1>3, <1>4 DEF CountersMatchDeliveries, Delivery!CountersMatchDeliveries,
              Proved!CountersMatchDeliveries
<1> QED
  BY <1>1, <1>5, SpecIsProvedSpec, PTL

-----------------------------------------------------------------------------
(***************************************************************************)
(* No call of the example streams throws.                                  *)
(*                                                                         *)
(* The inductive invariant has two parts.  What start has set up is there  *)
(* whenever a call can run: streams run only between the end of start and  *)
(* the release of the graph.  And a stream is only ever called with the    *)
(* values of its kind: each one comes from the source at the beginning of  *)
(* its branch, and a join holds on a side only the value of that source.   *)
(***************************************************************************)
StartedInv ==
  /\ stage \in {"functions", "built", "bound", "sinks", "running", "stopping"} => function = "withHandle"
  /\ stage \in {"bound", "sinks", "running", "stopping"} => handle = "bound"
  /\ stage \in {"sinks", "running", "stopping"} => bindings = Sinks
  /\ \A x \in Produced : Running(x) => stage \in {"running", "stopping"} /\ x \in Inputs

Kinds == {"order", "payment", "shipment", "cycle", "input", "join", "multi", "substream"}

Values == [key : Keys, value : Int, kind : Kinds]

\* The streams that inputs reach, and their sources.
Streams ==
  {"analyticsOrders", "splitAnalyticsOrders", "keyOrdersForJoin", "keyOrdersForMultiJoin",
   "analyticsPayments", "splitAnalyticsPayments", "keyPaymentsForJoin", "keyPaymentsForMultiJoin",
   "analyticsShipments", "keyShipmentsForMultiJoin",
   "joinOrderPaymentAnalytics", "multiJoinAnalyticsEvents", "routeAnalyticsResult",
   "highValueAnalytics", "standardAnalytics", "cycleAnalyticsInput", "cycleAnalyticsLink",
   "mergeCycleAnalytics", "advanceCycleAnalytics", "splitCycleAnalytics", "completeCycleAnalytics",
   "continueCycleAnalytics", "substreamAnalyticsInput", "invokeAnalyticsSubstream",
   "analyzeAnalyticsSubstream", "buildSubstreamAnalyticsResult", "writeCycleAnalytics",
   "writeJoinedAnalytics", "writeHighValueAnalytics", "writeStandardAnalytics",
   "writeSubstreamAnalytics"}

OrderEvents    == {Value("high-value", 10, "order"), Value("standard", 1, "order")}
PaymentEvents  == {Value("high-value", 20, "payment"), Value("standard", 2, "payment")}
ShipmentEvents == {Value("high-value", 30, "shipment"), Value("standard", 3, "shipment")}

\* The values that reach a side of a join.
SideEvents(k) ==
  CASE k = 1 -> OrderEvents
    [] k = 2 -> PaymentEvents
    [] k = 3 -> ShipmentEvents

SideEventsOf(k, key) == { v \in SideEvents(k) : v.key = key }

CycleEvents(ns) == { Value("cycle", n, "cycle") : n \in ns }

HighValueResult == Value("high-value", 60, "multi")
StandardResult  == Value("standard", 6, "multi")
JoinedResults   == {Value("high-value", 30, "join"), Value("standard", 3, "join")}
SubstreamEvent  == Value("substream", 7, "input")
SubstreamResult == Value("substream", 14, "substream")

\* The values a stream is called with, if it is not a join.
ValuesAt(s) ==
  CASE s \in {"splitAnalyticsOrders", "keyOrdersForJoin", "keyOrdersForMultiJoin"} -> OrderEvents
    [] s \in {"splitAnalyticsPayments", "keyPaymentsForJoin", "keyPaymentsForMultiJoin"} -> PaymentEvents
    [] s = "keyShipmentsForMultiJoin" -> ShipmentEvents
    [] s = "routeAnalyticsResult" -> {HighValueResult, StandardResult}
    [] s \in {"highValueAnalytics", "writeHighValueAnalytics"} -> {HighValueResult}
    [] s \in {"standardAnalytics", "writeStandardAnalytics"} -> {StandardResult}
    [] s = "writeJoinedAnalytics" -> JoinedResults
    [] s \in {"mergeCycleAnalytics", "advanceCycleAnalytics"} -> CycleEvents(0..2)
    [] s \in {"splitCycleAnalytics", "completeCycleAnalytics", "continueCycleAnalytics"} -> CycleEvents(1..3)
    [] s = "cycleAnalyticsLink" -> CycleEvents(1..2)
    [] s = "writeCycleAnalytics" -> CycleEvents({3})
    [] s \in {"invokeAnalyticsSubstream", "analyzeAnalyticsSubstream", "buildSubstreamAnalyticsResult"} ->
         {SubstreamEvent}
    [] s = "writeSubstreamAnalytics" -> {SubstreamResult}
    [] OTHER -> {}

InBranch(c) ==
  IF c.at \in Joins
  THEN \A k \in Sides(c.at) : AnalyticsSources[c.at][k] = c.from => c.value \in SideEvents(k)
  ELSE c.value \in ValuesAt(c.at)

StreamCalls == { c \in [at : Streams, from : Streams, value : Values] : InBranch(c) }

Vectors(j) == [Sides(j) -> Seq(Values)]

HeldType ==
  [Joins -> [Keys -> Vectors("joinOrderPaymentAnalytics") \cup Vectors("multiJoinAnalyticsEvents")]]

FlowInv ==
  /\ stack \in [Produced -> Seq(StreamCalls)]
  /\ held \in HeldType
  /\ \A j \in Joins, key \in Keys :
       /\ DOMAIN held[j][key] = Sides(j)
       /\ \A k \in Sides(j) : held[j][key][k] \in Seq(SideEventsOf(k, key))

AInv == StartedInv /\ FlowInv /\ NothingFails

(***************************************************************************)
(* The graph, link by link.                                                *)
(***************************************************************************)

LEMMA JoinSources ==
  /\ AnalyticsSources["joinOrderPaymentAnalytics"] = <<"keyOrdersForJoin", "keyPaymentsForJoin">>
  /\ AnalyticsSources["multiJoinAnalyticsEvents"] =
       <<"keyOrdersForMultiJoin", "keyPaymentsForMultiJoin", "keyShipmentsForMultiJoin">>
BY DEF AnalyticsSources, AnalyticsSourcesAdvanceToConsume, AnalyticsSourcesContinueToKeyOrders,
   AnalyticsSourcesKeyOrdersToMultiJoin, AnalyticsSourcesRouteToWrite, Together

LEMMA Links ==
  /\ AnalyticsConsumers["analyticsOrders"] = <<"splitAnalyticsOrders">>
  /\ AnalyticsConsumers["splitAnalyticsOrders"] = <<"keyOrdersForJoin", "keyOrdersForMultiJoin">>
  /\ AnalyticsConsumers["keyOrdersForJoin"] = <<"joinOrderPaymentAnalytics">>
  /\ AnalyticsConsumers["keyOrdersForMultiJoin"] = <<"multiJoinAnalyticsEvents">>
  /\ AnalyticsConsumers["analyticsPayments"] = <<"splitAnalyticsPayments">>
  /\ AnalyticsConsumers["splitAnalyticsPayments"] = <<"keyPaymentsForJoin", "keyPaymentsForMultiJoin">>
  /\ AnalyticsConsumers["keyPaymentsForJoin"] = <<"joinOrderPaymentAnalytics">>
  /\ AnalyticsConsumers["keyPaymentsForMultiJoin"] = <<"multiJoinAnalyticsEvents">>
  /\ AnalyticsConsumers["analyticsShipments"] = <<"keyShipmentsForMultiJoin">>
  /\ AnalyticsConsumers["keyShipmentsForMultiJoin"] = <<"multiJoinAnalyticsEvents">>
  /\ AnalyticsConsumers["joinOrderPaymentAnalytics"] = <<"writeJoinedAnalytics">>
  /\ AnalyticsConsumers["multiJoinAnalyticsEvents"] = <<"routeAnalyticsResult">>
  /\ AnalyticsConsumers["routeAnalyticsResult"] = <<"highValueAnalytics", "standardAnalytics">>
  /\ AnalyticsConsumers["highValueAnalytics"] = <<"writeHighValueAnalytics">>
  /\ AnalyticsConsumers["standardAnalytics"] = <<"writeStandardAnalytics">>
  /\ AnalyticsConsumers["cycleAnalyticsInput"] = <<"mergeCycleAnalytics">>
  /\ AnalyticsConsumers["cycleAnalyticsLink"] = <<"mergeCycleAnalytics">>
  /\ AnalyticsConsumers["mergeCycleAnalytics"] = <<"advanceCycleAnalytics">>
  /\ AnalyticsConsumers["advanceCycleAnalytics"] = <<"splitCycleAnalytics">>
  /\ AnalyticsConsumers["splitCycleAnalytics"] = <<"completeCycleAnalytics", "continueCycleAnalytics">>
  /\ AnalyticsConsumers["completeCycleAnalytics"] = <<"writeCycleAnalytics">>
  /\ AnalyticsConsumers["substreamAnalyticsInput"] = <<"invokeAnalyticsSubstream">>
  /\ AnalyticsConsumers["invokeAnalyticsSubstream"] = <<"writeSubstreamAnalytics">>
  /\ AnalyticsConsumers["analyzeAnalyticsSubstream"] = <<"buildSubstreamAnalyticsResult">>
BY DEF AnalyticsConsumers

LEMMA SinkEndpoints ==
  /\ Sinks = {"writeCycleAnalytics", "writeJoinedAnalytics", "writeHighValueAnalytics",
              "writeStandardAnalytics", "writeSubstreamAnalytics"}
  /\ AnalyticsBindings["writeCycleAnalytics"] = "cycleAnalyticsResult"
  /\ AnalyticsBindings["writeJoinedAnalytics"] = "joinedAnalytics"
  /\ AnalyticsBindings["writeHighValueAnalytics"] = "highValueAnalytics"
  /\ AnalyticsBindings["writeStandardAnalytics"] = "standardAnalytics"
  /\ AnalyticsBindings["writeSubstreamAnalytics"] = "substreamAnalyticsResult"
BY DEF Sinks, AnalyticsBindings

\* A stream with one consumer makes one call, one with two makes two.
LEMMA CallsOfOne ==
  ASSUME NEW s, NEW v, NEW t, AnalyticsConsumers[s] = <<t>>
  PROVE  Calls(s, v) = <<Call(t, s, v)>>
BY DEF Calls

LEMMA CallsOfTwo ==
  ASSUME NEW s, NEW v, NEW t, NEW u, AnalyticsConsumers[s] = <<t, u>>
  PROVE  Calls(s, v) = <<Call(t, s, v), Call(u, s, v)>>
BY DEF Calls

LEMMA CallsInSeq ==
  ASSUME NEW S, NEW c \in S
  PROVE  /\ <<c>> \in Seq(S)
         /\ << >> \in Seq(S)
         /\ \A d \in S : <<c, d>> \in Seq(S)
OBVIOUS

(***************************************************************************)
(* The values, branch by branch.                                           *)
(***************************************************************************)

LEMMA KeysOfInputs == Keys = {"high-value", "standard", "cycle", "substream"}
BY DEF Keys, Produced, OrderInputs, PaymentInputs, ShipmentInputs, CycleInput, SubstreamInput, Input, Value

LEMMA EventsAreValues ==
  /\ OrderEvents \subseteq Values /\ PaymentEvents \subseteq Values /\ ShipmentEvents \subseteq Values
  /\ \A ns \in SUBSET Int : CycleEvents(ns) \subseteq Values
  /\ {HighValueResult, StandardResult} \subseteq Values
  /\ JoinedResults \subseteq Values
  /\ SubstreamEvent \in Values /\ SubstreamResult \in Values
BY KeysOfInputs
   DEF Values, Kinds, Value, OrderEvents, PaymentEvents, ShipmentEvents, CycleEvents, HighValueResult,
   StandardResult, JoinedResults, SubstreamEvent, SubstreamResult

LEMMA InBranchIsCall ==
  ASSUME NEW to \in Streams, NEW from \in Streams, NEW v \in Values, InBranch(Call(to, from, v))
  PROVE  Call(to, from, v) \in StreamCalls
BY DEF Call, StreamCalls

LEMMA ValuesOfStreams ==
  /\ \A s \in {"splitAnalyticsOrders", "keyOrdersForJoin", "keyOrdersForMultiJoin"} :
       ValuesAt(s) = OrderEvents
  /\ \A s \in {"splitAnalyticsPayments", "keyPaymentsForJoin", "keyPaymentsForMultiJoin"} :
       ValuesAt(s) = PaymentEvents
  /\ ValuesAt("keyShipmentsForMultiJoin") = ShipmentEvents
  /\ ValuesAt("routeAnalyticsResult") = {HighValueResult, StandardResult}
  /\ \A s \in {"highValueAnalytics", "writeHighValueAnalytics"} : ValuesAt(s) = {HighValueResult}
  /\ \A s \in {"standardAnalytics", "writeStandardAnalytics"} : ValuesAt(s) = {StandardResult}
  /\ ValuesAt("writeJoinedAnalytics") = JoinedResults
  /\ \A s \in {"mergeCycleAnalytics", "advanceCycleAnalytics"} : ValuesAt(s) = CycleEvents(0..2)
  /\ \A s \in {"splitCycleAnalytics", "completeCycleAnalytics", "continueCycleAnalytics"} :
       ValuesAt(s) = CycleEvents(1..3)
  /\ ValuesAt("cycleAnalyticsLink") = CycleEvents(1..2)
  /\ ValuesAt("writeCycleAnalytics") = CycleEvents({3})
  /\ \A s \in {"invokeAnalyticsSubstream", "analyzeAnalyticsSubstream", "buildSubstreamAnalyticsResult"} :
       ValuesAt(s) = {SubstreamEvent}
  /\ ValuesAt("writeSubstreamAnalytics") = {SubstreamResult}
BY DEF ValuesAt

LEMMA CycleEventsAreValues ==
  /\ CycleEvents(0..2) \subseteq Values /\ CycleEvents(1..3) \subseteq Values
  /\ CycleEvents(1..2) \subseteq Values /\ CycleEvents({3}) \subseteq Values
<1>1. 0..2 \in SUBSET Int /\ 1..3 \in SUBSET Int /\ 1..2 \in SUBSET Int /\ {3} \in SUBSET Int
  OBVIOUS
<1> QED
  BY <1>1, EventsAreValues

\* A stream that is no join may be called with its values, whoever calls it.
LEMMA HandedOn ==
  ASSUME NEW to \in Streams \ Joins, NEW from \in Streams, NEW v \in ValuesAt(to)
  PROVE  Call(to, from, v) \in StreamCalls
<1>1. v \in Values
  BY EventsAreValues, CycleEventsAreValues, ValuesOfStreams DEF Streams, Joins, ValuesAt
<1>2. InBranch(Call(to, from, v))
  BY DEF InBranch, Call
<1> QED
  BY <1>1, <1>2, InBranchIsCall

\* A join is called from each side with the values of that side.
LEMMA JoinCalls ==
  /\ \A v \in OrderEvents :
       /\ Call("joinOrderPaymentAnalytics", "keyOrdersForJoin", v) \in StreamCalls
       /\ Call("multiJoinAnalyticsEvents", "keyOrdersForMultiJoin", v) \in StreamCalls
  /\ \A v \in PaymentEvents :
       /\ Call("joinOrderPaymentAnalytics", "keyPaymentsForJoin", v) \in StreamCalls
       /\ Call("multiJoinAnalyticsEvents", "keyPaymentsForMultiJoin", v) \in StreamCalls
  /\ \A v \in ShipmentEvents :
       Call("multiJoinAnalyticsEvents", "keyShipmentsForMultiJoin", v) \in StreamCalls
<1>1. ASSUME NEW j \in Joins, NEW from \in Streams, NEW v \in Values,
             \A k \in Sides(j) : AnalyticsSources[j][k] = from => v \in SideEvents(k)
      PROVE  Call(j, from, v) \in StreamCalls
  <2>1. Call(j, from, v).at = j /\ Call(j, from, v).value = v /\ Call(j, from, v).from = from
    BY DEF Call
  <2>2. j \in Streams
    BY DEF Joins, Streams
  <2> QED
    BY <1>1, <2>1, <2>2, InBranchIsCall DEF InBranch
<1>2. /\ Sides("joinOrderPaymentAnalytics") = 1..2
      /\ Sides("multiJoinAnalyticsEvents") = 1..3
  BY JoinSources DEF Sides
<1>3. SideEvents(1) = OrderEvents /\ SideEvents(2) = PaymentEvents /\ SideEvents(3) = ShipmentEvents
  BY DEF SideEvents
<1>4. "joinOrderPaymentAnalytics" \in Joins /\ "multiJoinAnalyticsEvents" \in Joins
  BY DEF Joins
<1>5. ASSUME NEW from \in {"keyOrdersForJoin", "keyPaymentsForJoin"}, NEW k \in 1..2,
             AnalyticsSources["joinOrderPaymentAnalytics"][k] = from
      PROVE  k = IF from = "keyOrdersForJoin" THEN 1 ELSE 2
  BY <1>5, JoinSources
<1>6. ASSUME NEW from \in {"keyOrdersForMultiJoin", "keyPaymentsForMultiJoin", "keyShipmentsForMultiJoin"},
             NEW k \in 1..3, AnalyticsSources["multiJoinAnalyticsEvents"][k] = from
      PROVE  k = IF from = "keyOrdersForMultiJoin" THEN 1
                 ELSE IF from = "keyPaymentsForMultiJoin" THEN 2 ELSE 3
  BY <1>6, JoinSources
<1>7. \A v \in OrderEvents :
        /\ Call("joinOrderPaymentAnalytics", "keyOrdersForJoin", v) \in StreamCalls
        /\ Call("multiJoinAnalyticsEvents", "keyOrdersForMultiJoin", v) \in StreamCalls
  BY <1>1, <1>2, <1>3, <1>4, <1>5, <1>6, EventsAreValues DEF Streams
<1>8. \A v \in PaymentEvents :
        /\ Call("joinOrderPaymentAnalytics", "keyPaymentsForJoin", v) \in StreamCalls
        /\ Call("multiJoinAnalyticsEvents", "keyPaymentsForMultiJoin", v) \in StreamCalls
  BY <1>1, <1>2, <1>3, <1>4, <1>5, <1>6, EventsAreValues DEF Streams
<1>9. \A v \in ShipmentEvents :
        Call("multiJoinAnalyticsEvents", "keyShipmentsForMultiJoin", v) \in StreamCalls
  BY <1>1, <1>2, <1>3, <1>4, <1>6, EventsAreValues DEF Streams
<1> QED
  BY <1>7, <1>8, <1>9

\* What the filters and the function of the cycle make of a value.
LEMMA CycleValues ==
  /\ \A v \in CycleEvents(0..2) : Advance(v) \in CycleEvents(1..3)
  /\ \A v \in CycleEvents(1..3) : /\ Completes(v) => v \in CycleEvents({3})
                                  /\ Continues(v) => v \in CycleEvents(1..2)
  /\ CycleEvents(1..2) \subseteq CycleEvents(0..2)
BY DEF CycleEvents, Advance, Completes, Continues, Value

(***************************************************************************)
(* What a call of a stream that keeps no state sets off.                   *)
(***************************************************************************)

LEMMA OneCall ==
  ASSUME NEW s \in Streams, NEW t \in Streams \ Joins, AnalyticsConsumers[s] = <<t>>,
         NEW v \in ValuesAt(t)
  PROVE  Calls(s, v) \in Seq(StreamCalls)
<1>1. Calls(s, v) = <<Call(t, s, v)>>
  BY CallsOfOne
<1>2. Call(t, s, v) \in StreamCalls
  BY HandedOn
<1> QED
  BY <1>1, <1>2, CallsInSeq

LEMMA TwoCalls ==
  ASSUME NEW s \in Streams, NEW t \in Streams \ Joins, NEW u \in Streams \ Joins,
         AnalyticsConsumers[s] = <<t, u>>, NEW v \in ValuesAt(t), v \in ValuesAt(u)
  PROVE  Calls(s, v) \in Seq(StreamCalls)
<1>1. Calls(s, v) = <<Call(t, s, v), Call(u, s, v)>>
  BY CallsOfTwo
<1>2. Call(t, s, v) \in StreamCalls /\ Call(u, s, v) \in StreamCalls
  BY HandedOn
<1> QED
  BY <1>1, <1>2, CallsInSeq

LEMMA KeyedCalls ==
  /\ \A v \in OrderEvents : /\ Calls("keyOrdersForJoin", v) \in Seq(StreamCalls)
                            /\ Calls("keyOrdersForMultiJoin", v) \in Seq(StreamCalls)
  /\ \A v \in PaymentEvents : /\ Calls("keyPaymentsForJoin", v) \in Seq(StreamCalls)
                              /\ Calls("keyPaymentsForMultiJoin", v) \in Seq(StreamCalls)
  /\ \A v \in ShipmentEvents : Calls("keyShipmentsForMultiJoin", v) \in Seq(StreamCalls)
<1>1. ASSUME NEW s, NEW t, NEW v, AnalyticsConsumers[s] = <<t>>, Call(t, s, v) \in StreamCalls
      PROVE  Calls(s, v) \in Seq(StreamCalls)
  <2>1. Calls(s, v) = <<Call(t, s, v)>>
    BY <1>1, CallsOfOne
  <2> QED
    BY <1>1, <2>1, CallsInSeq
<1> QED
  BY <1>1, Links, JoinCalls

LEMMA PassedOn ==
  ASSUME NEW s \in Streams \ Joins, NEW v \in ValuesAt(s),
         s \notin Sinks \cup {"invokeAnalyticsSubstream", "advanceCycleAnalytics",
                              "completeCycleAnalytics", "continueCycleAnalytics",
                              "routeAnalyticsResult", "buildSubstreamAnalyticsResult"}
  PROVE  Calls(s, v) \in Seq(StreamCalls)
<1>0. s \in {"splitAnalyticsOrders", "keyOrdersForJoin", "keyOrdersForMultiJoin", "splitAnalyticsPayments",
             "keyPaymentsForJoin", "keyPaymentsForMultiJoin", "keyShipmentsForMultiJoin",
             "highValueAnalytics", "standardAnalytics", "mergeCycleAnalytics", "cycleAnalyticsLink",
             "splitCycleAnalytics", "analyzeAnalyticsSubstream"}
  BY SinkEndpoints DEF Streams, Joins, ValuesAt
<1>1. CASE s \in {"keyOrdersForJoin", "keyOrdersForMultiJoin", "keyPaymentsForJoin",
                  "keyPaymentsForMultiJoin", "keyShipmentsForMultiJoin"}
  BY <1>1, ValuesOfStreams, KeyedCalls
<1>2. CASE s = "splitAnalyticsOrders"
  BY <1>2, ValuesOfStreams, Links, TwoCalls DEF Streams, Joins
<1>3. CASE s = "splitAnalyticsPayments"
  BY <1>3, ValuesOfStreams, Links, TwoCalls DEF Streams, Joins
<1>4. CASE s = "highValueAnalytics"
  BY <1>4, ValuesOfStreams, Links, OneCall DEF Streams, Joins
<1>5. CASE s = "standardAnalytics"
  BY <1>5, ValuesOfStreams, Links, OneCall DEF Streams, Joins
<1>6. CASE s = "mergeCycleAnalytics"
  BY <1>6, ValuesOfStreams, Links, OneCall DEF Streams, Joins
<1>7. CASE s = "cycleAnalyticsLink"
  BY <1>7, ValuesOfStreams, CycleValues, Links, OneCall DEF Streams, Joins
<1>8. CASE s = "splitCycleAnalytics"
  BY <1>8, ValuesOfStreams, Links, TwoCalls DEF Streams, Joins
<1>9. CASE s = "analyzeAnalyticsSubstream"
  BY <1>9, ValuesOfStreams, Links, OneCall DEF Streams, Joins
<1> QED
  BY <1>0, <1>1, <1>2, <1>3, <1>4, <1>5, <1>6, <1>7, <1>8, <1>9

LEMMA PureCallsInBranch ==
  ASSUME NEW c \in StreamCalls, c.at \notin Joins \cup Sinks \cup {"invokeAnalyticsSubstream"}
  PROVE  PureCalls(c.at, c.value) \in Seq(StreamCalls)
<1> DEFINE s == c.at
           v == c.value
<1>0. s \in Streams \ Joins /\ v \in ValuesAt(s)
  BY DEF StreamCalls, InBranch
<1>1. CASE s = "advanceCycleAnalytics"
  <2>1. PureCalls(s, v) = Calls(s, Advance(v))
    BY <1>1 DEF PureCalls
  <2>2. Advance(v) \in ValuesAt("splitCycleAnalytics")
    BY <1>0, <1>1, ValuesOfStreams, CycleValues
  <2> QED
    BY <1>1, <2>1, <2>2, Links, OneCall DEF Streams, Joins
<1>2. CASE s = "completeCycleAnalytics"
  <2>1. PureCalls(s, v) = When(Completes(v), Calls(s, v))
    BY <1>2 DEF PureCalls
  <2>2. ASSUME Completes(v) PROVE Calls(s, v) \in Seq(StreamCalls)
    <3>1. v \in ValuesAt("writeCycleAnalytics")
      BY <1>0, <1>2, <2>2, ValuesOfStreams, CycleValues
    <3> QED
      BY <1>2, <3>1, Links, OneCall DEF Streams, Joins
  <2> QED
    BY <2>1, <2>2 DEF When
<1>3. CASE s = "continueCycleAnalytics"
  <2>1. PureCalls(s, v) = When(Continues(v), <<Call("cycleAnalyticsLink", s, v)>>)
    BY <1>3 DEF PureCalls
  <2>2. ASSUME Continues(v) PROVE Call("cycleAnalyticsLink", s, v) \in StreamCalls
    <3>1. v \in ValuesAt("cycleAnalyticsLink")
      BY <1>0, <1>3, <2>2, ValuesOfStreams, CycleValues
    <3> QED
      BY <1>0, <3>1, HandedOn DEF Streams, Joins
  <2> QED
    BY <2>1, <2>2, CallsInSeq DEF When
<1>4. CASE s = "routeAnalyticsResult"
  <2>1. PureCalls(s, v) = <<Calls(s, v)[Branch(v)]>>
    BY <1>4 DEF PureCalls
  <2>2. Calls(s, v) = <<Call("highValueAnalytics", s, v), Call("standardAnalytics", s, v)>>
    BY <1>4, Links, CallsOfTwo
  <2>3. (v = HighValueResult /\ Branch(v) = 1) \/ (v = StandardResult /\ Branch(v) = 2)
    BY <1>0, <1>4, ValuesOfStreams DEF HighValueResult, StandardResult, Branch, Value
  <2>4. \/ v = HighValueResult /\ PureCalls(s, v) = <<Call("highValueAnalytics", s, v)>>
        \/ v = StandardResult /\ PureCalls(s, v) = <<Call("standardAnalytics", s, v)>>
    BY <2>1, <2>2, <2>3
  <2>5. /\ Call("highValueAnalytics", s, HighValueResult) \in StreamCalls
        /\ Call("standardAnalytics", s, StandardResult) \in StreamCalls
    BY <1>0, ValuesOfStreams, HandedOn DEF Streams, Joins
  <2> QED
    BY <2>4, <2>5, CallsInSeq
<1>5. CASE s = "buildSubstreamAnalyticsResult"
  <2>1. PureCalls(s, v) = Calls("invokeAnalyticsSubstream", BuildSubstreamResult(v))
    BY <1>5 DEF PureCalls
  <2>2. BuildSubstreamResult(v) \in ValuesAt("writeSubstreamAnalytics")
    BY <1>0, <1>5, ValuesOfStreams DEF BuildSubstreamResult, SubstreamEvent, SubstreamResult, Value
  <2> QED
    BY <2>1, <2>2, Links, OneCall DEF Streams, Joins
<1>6. CASE s \notin {"advanceCycleAnalytics", "completeCycleAnalytics", "continueCycleAnalytics",
                     "routeAnalyticsResult", "buildSubstreamAnalyticsResult"}
  <2>1. PureCalls(s, v) = Calls(s, v)
    BY <1>6 DEF PureCalls
  <2> QED
    BY <1>0, <1>6, <2>1, PassedOn
<1> QED
  BY <1>1, <1>2, <1>3, <1>4, <1>5, <1>6

\* A sink accepts what is written to it.
LEMMA SinksAccept ==
  ASSUME NEW c \in StreamCalls, c.at \in Sinks
  PROVE  Accepts(AnalyticsBindings[c.at], c.value)
<1>1. c.value \in ValuesAt(c.at)
  BY SinkEndpoints DEF StreamCalls, InBranch, Joins
<1>2. CASE c.at = "writeCycleAnalytics"
  BY <1>1, <1>2, SinkEndpoints, ValuesOfStreams DEF Accepts, CycleAccepts, CycleEvents
<1>3. CASE c.at = "writeHighValueAnalytics"
  BY <1>1, <1>3, SinkEndpoints, ValuesOfStreams DEF Accepts, HighValueAccepts, HighValueResult
<1>4. CASE c.at = "writeStandardAnalytics"
  BY <1>1, <1>4, SinkEndpoints, ValuesOfStreams DEF Accepts, StandardAccepts, StandardResult
<1>5. CASE c.at = "writeSubstreamAnalytics"
  BY <1>1, <1>5, SinkEndpoints, ValuesOfStreams DEF Accepts, SubstreamAccepts, SubstreamResult
<1>6. CASE c.at = "writeJoinedAnalytics"
  BY <1>1, <1>6, SinkEndpoints, ValuesOfStreams DEF Accepts, JoinedAccepts, JoinedResults
<1> QED
  BY <1>2, <1>3, <1>4, <1>5, <1>6, SinkEndpoints

(***************************************************************************)
(* The joins.                                                              *)
(***************************************************************************)

\* The vectors that a join may hold for a key.
OfSides(j, key, sides) ==
  /\ sides \in Vectors(j)
  /\ \A k \in Sides(j) : sides[k] \in Seq(SideEventsOf(k, key))

LEMMA SidesOfJoins ==
  /\ Sides("joinOrderPaymentAnalytics") = 1..2
  /\ Sides("multiJoinAnalyticsEvents") = 1..3
BY JoinSources DEF Sides

LEMMA SideEventsAreValues ==
  ASSUME NEW j \in Joins, NEW k \in Sides(j), NEW key
  PROVE  SideEventsOf(k, key) \subseteq Values
<1>1. k \in 1..3
  BY SidesOfJoins DEF Joins
<1> QED
  BY <1>1, EventsAreValues DEF SideEventsOf, SideEvents

LEMMA ArrivalOnItsSide ==
  ASSUME NEW c \in StreamCalls, c.at \in Joins, OfSides(c.at, c.value.key, held[c.at][c.value.key])
  PROVE  OfSides(c.at, c.value.key, Arrived(c.at, c))
<1> DEFINE j == c.at
           v == c.value
           key == c.value.key
           old == held[j][key]
<1>1. v \in Values /\ \A k \in Sides(j) : AnalyticsSources[j][k] = c.from => v \in SideEvents(k)
  BY DEF StreamCalls, InBranch
<1>2. \A k \in Sides(j) : old[k] \in Seq(SideEventsOf(k, key)) /\ old[k] \in Seq(Values)
  BY DEF OfSides, Vectors
<1>3. \A k \in Sides(j) : AnalyticsSources[j][k] = c.from =>
        Append(old[k], v) \in Seq(SideEventsOf(k, key)) /\ Append(old[k], v) \in Seq(Values)
  <2> SUFFICES ASSUME NEW k \in Sides(j), AnalyticsSources[j][k] = c.from
               PROVE  Append(old[k], v) \in Seq(SideEventsOf(k, key)) /\ Append(old[k], v) \in Seq(Values)
    OBVIOUS
  <2>1. v \in SideEventsOf(k, key)
    BY <1>1 DEF SideEventsOf
  <2> HIDE DEF v, old, key
  <2> QED
    BY <1>1, <1>2, <2>1
<1>4. Arrived(j, c) = [k \in Sides(j) |-> IF AnalyticsSources[j][k] = c.from THEN Append(old[k], v) ELSE old[k]]
  BY DEF Arrived
<1> HIDE DEF old, v, key, j
<1>5. OfSides(j, key, Arrived(j, c))
  BY <1>2, <1>3, <1>4 DEF OfSides, Vectors
<1> QED
  BY <1>5 DEF j, key

\* A complete join has exactly the value it waits for on each side.
LEMMA JoinCompletes ==
  ASSUME NEW j \in Joins, NEW key \in Keys, NEW sides, OfSides(j, key, sides), Complete(sides)
  PROVE  Calls(j, JoinResult(j, key, sides)) \in Seq(StreamCalls)
<1>1. \A k \in Sides(j) : Head(sides[k]) \in SideEventsOf(k, key)
  <2>1. \A k \in Sides(j) : sides[k] \in Seq(SideEventsOf(k, key)) /\ sides[k] # << >>
    BY DEF OfSides, Vectors, Complete
  <2> QED
    BY <2>1
<1> DEFINE front(k) == Head(sides[k]).value
<1>2. 1 \in Sides(j) =>
        \/ key = "high-value" /\ front(1) = 10
        \/ key = "standard" /\ front(1) = 1
  BY <1>1 DEF SideEventsOf, SideEvents, OrderEvents, Value
<1>3. 2 \in Sides(j) =>
        \/ key = "high-value" /\ front(2) = 20
        \/ key = "standard" /\ front(2) = 2
  BY <1>1 DEF SideEventsOf, SideEvents, PaymentEvents, Value
<1>4. 3 \in Sides(j) =>
        \/ key = "high-value" /\ front(3) = 30
        \/ key = "standard" /\ front(3) = 3
  BY <1>1 DEF SideEventsOf, SideEvents, ShipmentEvents, Value
<1> HIDE DEF front
<1>5. CASE j = "joinOrderPaymentAnalytics"
  <2>1. JoinResult(j, key, sides) = Value(key, front(1) + front(2), "join")
    BY <1>5 DEF JoinResult, front
  <2>2. JoinResult(j, key, sides) \in ValuesAt("writeJoinedAnalytics")
    BY <1>2, <1>3, <1>5, <2>1, SidesOfJoins, ValuesOfStreams DEF JoinedResults
  <2> QED
    BY <1>5, <2>2, Links, OneCall DEF Streams, Joins
<1>6. CASE j = "multiJoinAnalyticsEvents"
  <2>1. JoinResult(j, key, sides) = Value(key, front(1) + front(2) + front(3), "multi")
    BY <1>6 DEF JoinResult, front
  <2>2. JoinResult(j, key, sides) \in ValuesAt("routeAnalyticsResult")
    BY <1>2, <1>3, <1>4, <1>6, <2>1, SidesOfJoins, ValuesOfStreams DEF HighValueResult, StandardResult
  <2> QED
    BY <1>6, <2>2, Links, OneCall DEF Streams, Joins
<1> QED
  BY <1>5, <1>6 DEF Joins

LEMMA ForgottenIsOfSides ==
  ASSUME NEW j \in Joins, NEW key
  PROVE  OfSides(j, key, Forgotten(j))
<1>1. \A S : << >> \in Seq(S)
  OBVIOUS
<1> QED
  BY <1>1 DEF OfSides, Vectors, Forgotten

LEMMA HeldIsOfSides ==
  ASSUME FlowInv, NEW j \in Joins, NEW key \in Keys
  PROVE  OfSides(j, key, held[j][key])
<1>1. DOMAIN held[j][key] = Sides(j)
  BY DEF FlowInv
<1>2. held[j][key] \in Vectors("joinOrderPaymentAnalytics") \cup Vectors("multiJoinAnalyticsEvents")
  BY DEF FlowInv, HeldType
<1>3. Sides("joinOrderPaymentAnalytics") # Sides("multiJoinAnalyticsEvents")
  BY SidesOfJoins
<1>4. held[j][key] \in Vectors(j)
  BY <1>1, <1>2, <1>3 DEF Vectors, Joins
<1> QED
  BY <1>4 DEF FlowInv, OfSides

\* What a join may hold for a key may take the place of what it holds.
LEMMA HeldChanges ==
  ASSUME FlowInv, NEW j \in Joins, NEW key \in Keys, NEW sides, OfSides(j, key, sides),
         held' = [held EXCEPT ![j][key] = sides],
         stack' \in [Produced -> Seq(StreamCalls)]
  PROVE  FlowInv'
<1>1. sides \in Vectors("joinOrderPaymentAnalytics") \cup Vectors("multiJoinAnalyticsEvents")
  BY DEF OfSides, Joins
<1>2. held' \in HeldType
  BY <1>1 DEF FlowInv, HeldType
<1>3. \A i \in Joins, other \in Keys :
        held'[i][other] = IF i = j /\ other = key THEN sides ELSE held[i][other]
  BY DEF FlowInv, HeldType
<1>4. ASSUME NEW i \in Joins, NEW other \in Keys
      PROVE  /\ DOMAIN held'[i][other] = Sides(i)
             /\ \A k \in Sides(i) : held'[i][other][k] \in Seq(SideEventsOf(k, other))
  <2>1. OfSides(i, other, held'[i][other])
    BY <1>3, HeldIsOfSides
  <2> QED
    BY <2>1 DEF OfSides, Vectors
<1> QED
  BY <1>2, <1>4 DEF FlowInv

(***************************************************************************)
(* The invariant, step by step.                                            *)
(***************************************************************************)

LEMMA AInvInitially == Init => AInv
<1> SUFFICES ASSUME Init PROVE AInv
  OBVIOUS
<1>1. StartedInv /\ NothingFails
  BY DEF Init, NoStreams, StartedInv, NothingFails, Running
<1>2. stack \in [Produced -> Seq(StreamCalls)]
  BY DEF Init, NoStreams
<1>3. held = NothingHeld
  BY DEF Init, NoStreams
<1>4. \A j \in Joins, key \in Keys : OfSides(j, key, held[j][key])
  BY <1>3, ForgottenIsOfSides DEF NothingHeld
<1>5. held \in HeldType
  BY <1>3, <1>4 DEF HeldType, NothingHeld, OfSides, Joins
<1> QED
  BY <1>1, <1>2, <1>4, <1>5 DEF AInv, FlowInv, OfSides, Vectors

\* A new process is in an initial state of the streams.
LEMMA AInvOfNewProcess == NewProcess => AInv'
<1> SUFFICES ASSUME NewProcess PROVE AInv'
  OBVIOUS
<1>1. StartedInv' /\ NothingFails'
  BY DEF NewProcess, StartedInv, NothingFails, Running
<1>2. stack' \in [Produced -> Seq(StreamCalls)]
  BY DEF NewProcess
<1>3. held' = NothingHeld
  BY DEF NewProcess
<1>4. \A j \in Joins, key \in Keys : OfSides(j, key, held'[j][key])
  BY <1>3, ForgottenIsOfSides DEF NothingHeld
<1>5. held' \in HeldType
  BY <1>3, <1>4 DEF HeldType, NothingHeld, OfSides, Joins
<1> QED
  BY <1>1, <1>2, <1>4, <1>5 DEF AInv, FlowInv, OfSides, Vectors

\* The steps of start, stop and release, in which no stream is called.
LEMMA AInvOfProcessSteps ==
  ASSUME AInv, Starting \/ Stop \/ ReleaseRuntime
  PROVE  AInv'
<1>1. UNCHANGED <<keys, streamVars>>
  BY DEF Starting, CustomMakersInit, InitFunctions, BuildStreams, Bind, InitDataSinks,
         InitDataSources, StartStep, Stop, ReleaseRuntime
<1>2. FlowInv' /\ NothingFails'
  BY <1>1 DEF AInv, FlowInv, NothingFails, streamVars
<1>3. (\A x \in Produced : Running(x)' <=> Running(x)) /\ Inputs' = Inputs
  BY <1>1 DEF Running, Inputs, streamVars
<1>4. CASE Starting
  <2>1. stage \in {"constructed", "makers", "functions", "built", "bound", "sinks"}
    BY <1>4 DEF Starting, CustomMakersInit, InitFunctions, BuildStreams, Bind, InitDataSinks,
                InitDataSources, StartStep
  <2>2. \A x \in Produced : ~Running(x)
    BY <2>1 DEF AInv, StartedInv
  <2>3. \A x \in Produced : ~Running(x)'
    BY <1>3, <2>2
  <2>4. CASE CustomMakersInit \/ InitFunctions \/ BuildStreams
    BY <1>2, <2>3, <2>4 DEF CustomMakersInit, InitFunctions, BuildStreams, StartStep, AInv, StartedInv
  <2>5. CASE Bind
    BY <1>2, <2>3, <2>5 DEF Bind, StartStep, AInv, StartedInv
  <2>6. CASE InitDataSinks
    BY <1>2, <2>3, <2>6 DEF InitDataSinks, StartStep, AInv, StartedInv
  <2>7. CASE InitDataSources
    BY <1>2, <2>3, <2>7 DEF InitDataSources, StartStep, AInv, StartedInv
  <2> QED
    BY <1>4, <2>4, <2>5, <2>6, <2>7 DEF Starting
<1>5. CASE Stop
  BY <1>2, <1>3, <1>5 DEF Stop, AInv, StartedInv
<1>6. CASE ReleaseRuntime
  <2>1. \A x \in Produced : ~Running(x)
    BY <1>6 DEF ReleaseRuntime, Quiet, AInv, StartedInv
  <2> QED
    BY <1>2, <1>3, <1>6, <2>1 DEF ReleaseRuntime, AInv, StartedInv
<1> QED
  BY <1>4, <1>5, <1>6

\* A thread runs on: the streams are up and stay up.
LEMMA StartedStays ==
  ASSUME StartedInv, NEW x \in Inputs, stage \in {"running", "stopping"},
         UNCHANGED <<startVars, keys>>, \A y \in Produced : y # x => stack'[y] = stack[y]
  PROVE  StartedInv'
BY DEF StartedInv, startVars, Running, Inputs

\* The thread of an input has other calls to make.
LEMMA StackChanges ==
  ASSUME FlowInv, NEW x \in Produced, NEW calls \in Seq(StreamCalls),
         stack' = [stack EXCEPT ![x] = calls], UNCHANGED held
  PROVE  FlowInv'
BY DEF FlowInv

\* A source hands on what it produces.
LEMMA InputCalls ==
  ASSUME NEW x \in Produced
  PROVE  Calls(x.source, x.value) \in Seq(StreamCalls)
<1>1. CASE x \in OrderInputs
  <2>1. x.source = "analyticsOrders" /\ x.value \in OrderEvents
    BY <1>1 DEF OrderInputs, OrderEvents, Input
  <2> QED
    BY <2>1, Links, OneCall, ValuesOfStreams DEF Streams, Joins
<1>2. CASE x \in PaymentInputs
  <2>1. x.source = "analyticsPayments" /\ x.value \in PaymentEvents
    BY <1>2 DEF PaymentInputs, PaymentEvents, Input
  <2> QED
    BY <2>1, Links, OneCall, ValuesOfStreams DEF Streams, Joins
<1>3. CASE x \in ShipmentInputs
  <2>1. x.source = "analyticsShipments" /\ x.value \in ShipmentEvents
    BY <1>3 DEF ShipmentInputs, ShipmentEvents, Input
  <2> QED
    BY <2>1, Links, OneCall, ValuesOfStreams DEF Streams, Joins
<1>4. CASE x = CycleInput
  <2>1. x.source = "cycleAnalyticsInput" /\ x.value \in CycleEvents(0..2)
    BY <1>4 DEF CycleInput, CycleEvents, Input
  <2> QED
    BY <2>1, Links, OneCall, ValuesOfStreams DEF Streams, Joins
<1>5. CASE x = SubstreamInput
  <2>1. x.source = "substreamAnalyticsInput" /\ x.value = SubstreamEvent
    BY <1>5 DEF SubstreamInput, SubstreamEvent, Input
  <2> QED
    BY <2>1, Links, OneCall, ValuesOfStreams DEF Streams, Joins
<1> QED
  BY <1>1, <1>2, <1>3, <1>4, <1>5 DEF Produced

LEMMA AInvOfBegin ==
  ASSUME AInv, NEW x \in Produced, Begin(x)
  PROVE  AInv'
<1>1. StartedInv'
  BY StartedStays DEF AInv, FlowInv, Begin
<1>2. FlowInv'
  BY InputCalls, StackChanges DEF AInv, Begin
<1> QED
  BY <1>1, <1>2 DEF AInv, Begin, NothingFails

\* The current call of a thread, and the calls that replace it.
LEMMA CurrentCall ==
  ASSUME AInv, NEW x \in Produced, Running(x)
  PROVE  /\ Current(x) \in StreamCalls
         /\ Tail(stack[x]) \in Seq(StreamCalls)
         /\ x \in Inputs /\ stage \in {"running", "stopping"}
<1>1. stack[x] \in Seq(StreamCalls) /\ stack[x] # << >>
  BY DEF AInv, FlowInv, Running
<1> QED
  BY <1>1 DEF AInv, StartedInv, Current

LEMMA Replaced ==
  ASSUME AInv, NEW x \in Produced, Running(x), NEW calls \in Seq(StreamCalls), Replace(x, calls)
  PROVE  \E rest \in Seq(StreamCalls) : stack' = [stack EXCEPT ![x] = rest]
<1>1. calls \o Tail(stack[x]) \in Seq(StreamCalls)
  BY CurrentCall
<1>2. stack' = [stack EXCEPT ![x] = calls \o Tail(stack[x])]
  BY DEF Replace, AInv, FlowInv
<1> QED
  BY <1>1, <1>2

\* A call that is replaced by others, while the joins stay as they are.
LEMMA AInvOfReplacement ==
  ASSUME AInv, NEW x \in Produced, Running(x), NEW calls \in Seq(StreamCalls), Replace(x, calls),
         UNCHANGED <<startVars, keys, held, failed>>
  PROVE  AInv'
<1>1. PICK rest \in Seq(StreamCalls) : stack' = [stack EXCEPT ![x] = rest]
  BY Replaced
<1>2. StartedInv'
  BY <1>1, CurrentCall, StartedStays DEF AInv, FlowInv
<1>3. FlowInv'
  BY <1>1, StackChanges DEF AInv
<1> QED
  BY <1>2, <1>3 DEF AInv, NothingFails

LEMMA AInvOfPass ==
  ASSUME AInv, NEW x \in Produced, Pass(x)
  PROVE  AInv'
BY CurrentCall, PureCallsInBranch, AInvOfReplacement DEF Pass

LEMMA AInvOfInvoke ==
  ASSUME AInv, NEW x \in Produced, Invoke(x)
  PROVE  AInv'
<1>1. handle = "bound" /\ function = "withHandle"
  BY CurrentCall DEF Invoke, AInv, StartedInv
<1> DEFINE c == Call("analyzeAnalyticsSubstream", Current(x).at, Current(x).value)
<1>2. Current(x) \in StreamCalls /\ Current(x).at = "invokeAnalyticsSubstream"
  BY CurrentCall DEF Invoke
<1>3. Current(x).value \in ValuesAt("analyzeAnalyticsSubstream")
  BY <1>2, ValuesOfStreams DEF StreamCalls, InBranch, Joins
<1>4. <<c>> \in Seq(StreamCalls)
  BY <1>2, <1>3, HandedOn, CallsInSeq DEF Streams, Joins
<1>5. Replace(x, <<c>>) /\ Running(x) /\ UNCHANGED <<startVars, keys, held, failed>>
  BY <1>1 DEF Invoke
<1> QED
  BY <1>4, <1>5, AInvOfReplacement

LEMMA AInvOfWrite ==
  ASSUME AInv, NEW x \in Produced, Write(x)
  PROVE  AInv'
<1>1. Current(x).at \in bindings
  BY CurrentCall DEF Write, AInv, StartedInv
<1>2. Accepts(AnalyticsBindings[Current(x).at], Current(x).value)
  BY CurrentCall, SinksAccept DEF Write
<1>3. Replace(x, << >>) /\ Running(x) /\ UNCHANGED <<startVars, keys, held, failed>>
  BY <1>1, <1>2 DEF Write
<1>4. << >> \in Seq(StreamCalls)
  OBVIOUS
<1> QED
  BY <1>3, <1>4, AInvOfReplacement

LEMMA AInvOfJoin ==
  ASSUME AInv, NEW x \in Produced, Join(x)
  PROVE  AInv'
<1> DEFINE j     == Current(x).at
           key   == Current(x).value.key
           sides == Arrived(j, Current(x))
<1>1. Running(x) /\ Current(x) \in StreamCalls /\ j \in Joins
  BY CurrentCall DEF Join
<1>2. key \in Keys
  BY <1>1 DEF StreamCalls, Values
<1>3. OfSides(j, key, sides)
  BY <1>1, <1>2, HeldIsOfSides, ArrivalOnItsSide DEF AInv
<1>4. \E calls \in Seq(StreamCalls) : \E kept :
        Replace(x, calls) /\ OfSides(j, key, kept) /\ held' = [held EXCEPT ![j][key] = kept]
  <2>1. CASE Complete(sides)
    <3>1. Calls(j, JoinResult(j, key, sides)) \in Seq(StreamCalls)
      BY <1>1, <1>2, <1>3, <2>1, JoinCompletes
    <3>2. /\ held' = [held EXCEPT ![j][key] = Forgotten(j)]
          /\ Replace(x, Calls(j, JoinResult(j, key, sides)))
      BY <2>1 DEF Join
    <3>3. OfSides(j, key, Forgotten(j))
      BY <1>1, ForgottenIsOfSides
    <3> HIDE DEF j, key, sides
    <3> QED
      BY <3>1, <3>2, <3>3
  <2>2. CASE ~Complete(sides)
    <3>1. held' = [held EXCEPT ![j][key] = sides] /\ Replace(x, << >>)
      BY <2>2 DEF Join
    <3>2. << >> \in Seq(StreamCalls)
      OBVIOUS
    <3> HIDE DEF j, key, sides
    <3> QED
      BY <1>3, <3>1, <3>2
  <2> QED
    BY <2>1, <2>2
<1> HIDE DEF j, key, sides
<1>5. PICK calls \in Seq(StreamCalls) : \E kept :
        Replace(x, calls) /\ OfSides(j, key, kept) /\ held' = [held EXCEPT ![j][key] = kept]
  BY <1>4
<1>6. PICK kept : OfSides(j, key, kept) /\ held' = [held EXCEPT ![j][key] = kept]
  BY <1>5
<1>7. PICK rest \in Seq(StreamCalls) : stack' = [stack EXCEPT ![x] = rest]
  BY <1>1, <1>5, Replaced
<1>8. stack' \in [Produced -> Seq(StreamCalls)]
  BY <1>7 DEF AInv, FlowInv
<1>9. FlowInv'
  BY <1>1, <1>2, <1>6, <1>8, HeldChanges DEF AInv
<1>10. StartedInv'
  BY <1>1, <1>7, CurrentCall, StartedStays DEF AInv, FlowInv, Join
<1> QED
  BY <1>9, <1>10 DEF AInv, NothingFails, Join

LEMMA AInvOfExpire ==
  ASSUME AInv, NEW j \in Joins, NEW key \in Keys, Expire(j, key)
  PROVE  AInv'
<1>1. FlowInv'
  BY ForgottenIsOfSides, HeldChanges DEF AInv, Expire, FlowInv
<1>2. StartedInv'
  BY DEF AInv, StartedInv, Expire, startVars, Running, Inputs
<1> QED
  BY <1>1, <1>2 DEF AInv, NothingFails, Expire

LEMMA AInvOfNothing ==
  ASSUME AInv, UNCHANGED <<startVars, keys, streamVars>>
  PROVE  AInv'
BY DEF AInv, StartedInv, FlowInv, NothingFails, startVars, streamVars, Running, Inputs

LEMMA AInvPreserved == AInv /\ [Next]_vars => AInv'
<1> SUFFICES ASSUME AInv, [Next]_vars PROVE AInv'
  OBVIOUS
<1>1. CASE UNCHANGED vars
  BY <1>1, AInvOfNothing DEF vars
<1>2. CASE Starting \/ Stop \/ ReleaseRuntime
  BY <1>2, AInvOfProcessSteps
<1>3. ASSUME NEW x \in Produced, Begin(x) \/ ThreadStep(x) PROVE AInv'
  BY <1>3, AInvOfBegin, AInvOfPass, AInvOfInvoke, AInvOfJoin, AInvOfWrite DEF ThreadStep
<1>4. ASSUME NEW j \in Joins, NEW key \in Keys, Expire(j, key) PROVE AInv'
  BY <1>4, AInvOfExpire
<1>5. CASE (\E n \in 1..MaxStored : HandleMessage(n)) \/ KafkaStep \/ Rebalance \/ Idle
  BY <1>5, AInvOfNothing DEF HandleMessage, KafkaStep, Rebalance, Idle, vars
<1>6. CASE StartAgain \/ Crash
  BY <1>6, AInvOfNewProcess DEF StartAgain, Crash
<1> QED
  BY <1>1, <1>2, <1>3, <1>4, <1>5, <1>6 DEF Next

\* No call of the example streams throws, for whatever inputs run together and
\* however their threads interleave, joins expire, and the service stops,
\* crashes and starts again: the sub-stream handle is bound and alive when it is
\* called, each sink has its binding and gets a value it checks for.
THEOREM StreamsNeverFail == Spec => []NothingFails
<1>1. AInv => NothingFails
  BY DEF AInv
<1> QED
  BY <1>1, AInvInitially, AInvPreserved, PTL DEF Spec

-----------------------------------------------------------------------------
(***************************************************************************)
(* Every result arrives exactly once.                                      *)
(*                                                                         *)
(* Each call has goals: the arrivals at sides of joins and the results at  *)
(* sinks that it leads to before the next join.  A step hands the goals of *)
(* a call on to the calls it makes, or reaches them; only a join that is   *)
(* complete opens a new one, its result.  So a goal is never that of two   *)
(* calls, and a goal that is not open any more was reached.  An input that *)
(* has not begun counts as a call of its source.                           *)
(***************************************************************************)
WriterOf(key) == IF key = "high-value" THEN "writeHighValueAnalytics" ELSE "writeStandardAnalytics"

SinkOf(j, key) == IF j = "joinOrderPaymentAnalytics" THEN "writeJoinedAnalytics" ELSE WriterOf(key)

Arrival(j, k, key) == <<j, k, key>>

Result(sink, key) == <<sink, 0, key>>

Goals(c) ==
  LET s   == c.at
      key == c.value.key
  IN
  CASE s \in {"analyticsOrders", "splitAnalyticsOrders"} ->
         {Arrival("joinOrderPaymentAnalytics", 1, key), Arrival("multiJoinAnalyticsEvents", 1, key)}
    [] s \in {"analyticsPayments", "splitAnalyticsPayments"} ->
         {Arrival("joinOrderPaymentAnalytics", 2, key), Arrival("multiJoinAnalyticsEvents", 2, key)}
    [] s = "keyOrdersForJoin"        -> {Arrival("joinOrderPaymentAnalytics", 1, key)}
    [] s = "keyPaymentsForJoin"      -> {Arrival("joinOrderPaymentAnalytics", 2, key)}
    [] s = "keyOrdersForMultiJoin"   -> {Arrival("multiJoinAnalyticsEvents", 1, key)}
    [] s = "keyPaymentsForMultiJoin" -> {Arrival("multiJoinAnalyticsEvents", 2, key)}
    [] s \in {"analyticsShipments", "keyShipmentsForMultiJoin"} ->
         {Arrival("multiJoinAnalyticsEvents", 3, key)}
    [] s \in Joins -> { Arrival(s, k, key) : k \in { n \in Sides(s) : AnalyticsSources[s][n] = c.from } }
    [] s \in Sinks -> {Result(s, key)}
    [] s = "routeAnalyticsResult" -> {Result(WriterOf(key), key)}
    [] s = "highValueAnalytics"   -> {Result("writeHighValueAnalytics", key)}
    [] s = "standardAnalytics"    -> {Result("writeStandardAnalytics", key)}
    [] s \in {"cycleAnalyticsInput", "cycleAnalyticsLink", "mergeCycleAnalytics",
              "advanceCycleAnalytics", "splitCycleAnalytics"} -> {Result("writeCycleAnalytics", key)}
    [] s = "completeCycleAnalytics" -> IF Completes(c.value) THEN {Result("writeCycleAnalytics", key)} ELSE {}
    [] s = "continueCycleAnalytics" -> IF Continues(c.value) THEN {Result("writeCycleAnalytics", key)} ELSE {}
    [] s \in {"substreamAnalyticsInput", "invokeAnalyticsSubstream", "analyzeAnalyticsSubstream",
              "buildSubstreamAnalyticsResult"} -> {Result("writeSubstreamAnalytics", key)}
    [] OTHER -> {}

GoalsOf(calls) == UNION { Goals(calls[i]) : i \in DOMAIN calls }

Apart(calls) == \A i, k \in DOMAIN calls : i # k => Goals(calls[i]) \cap Goals(calls[k]) = {}

\* What the thread of an input has still to do.
SourceCall(x) == Call(x.source, x.source, x.value)

Work == [x \in Produced |-> IF x \in begun THEN stack[x] ELSE <<SourceCall(x)>>]

Open(g) == \E x \in Produced : g \in GoalsOf(Work[x])

Once ==
  /\ \A x \in Produced : Apart(Work[x])
  /\ \A x, y \in Produced : x # y => GoalsOf(Work[x]) \cap GoalsOf(Work[y]) = {}

Done(sink, key) == ResultsAt(sink, key) # {}

JoinKeys == {"high-value", "standard"}

Fired(j, key) == Open(Result(SinkOf(j, key), key)) \/ Done(SinkOf(j, key), key)

\* The value of a side came, and is not held any more.
Gone(j, k, key) == ~Open(Arrival(j, k, key)) /\ held[j][key][k] = << >>

JoinInv(j, key) ==
  /\ \A k \in Sides(j) : Open(Arrival(j, k, key)) => held[j][key][k] = << >>
  /\ \A k \in Sides(j) : Gone(j, k, key) => Fired(j, key) \/ <<j, key>> \in expired
  /\ Fired(j, key) => \A k \in Sides(j) : Gone(j, k, key)
  /\ <<j, key>> \in expired => ~Fired(j, key) /\ \E k \in Sides(j) : Gone(j, k, key)
  /\ \E k \in Sides(j) : held[j][key][k] = << >>

DeliveredInv ==
  /\ delivered \in Seq([sink : Sinks, value : Values])
  /\ \A k \in DOMAIN delivered : delivered[k].value \in ValuesAt(delivered[k].sink)
  /\ \A k, n \in DOMAIN delivered :
       delivered[k].sink = delivered[n].sink /\ delivered[k].value.key = delivered[n].value.key => k = n

SinkInv ==
  /\ \A sink \in Sinks, key \in Keys : Open(Result(sink, key)) => ~Done(sink, key)
  /\ Open(Result("writeCycleAnalytics", "cycle")) \/ Done("writeCycleAnalytics", "cycle")
  /\ Open(Result("writeSubstreamAnalytics", "substream")) \/ Done("writeSubstreamAnalytics", "substream")

ExactInv ==
  /\ \A x \in Produced : Running(x) => x \in begun
  /\ expired \subseteq Joins \X JoinKeys
  /\ Once
  /\ DeliveredInv
  /\ SinkInv
  /\ \A j \in Joins, key \in JoinKeys : JoinInv(j, key)

(***************************************************************************)
(* A call that is replaced by the calls it makes.                          *)
(***************************************************************************)

LEMMA Spliced ==
  ASSUME NEW S, NEW w \in Seq(S), w # << >>, NEW calls \in Seq(S), NEW r, r = calls \o Tail(w)
  PROVE  /\ \A i \in DOMAIN r : \/ i \in DOMAIN calls /\ r[i] = calls[i]
                                \/ /\ i \notin DOMAIN calls
                                   /\ i - Len(calls) + 1 \in DOMAIN w \ {1}
                                   /\ r[i] = w[i - Len(calls) + 1]
         /\ \A i \in DOMAIN calls : i \in DOMAIN r /\ r[i] = calls[i]
         /\ \A k \in DOMAIN w \ {1} : k + Len(calls) - 1 \in DOMAIN r /\ r[k + Len(calls) - 1] = w[k]
<1>1. /\ Len(w) \in Nat \ {0} /\ Len(calls) \in Nat
      /\ DOMAIN w = 1..Len(w) /\ DOMAIN calls = 1..Len(calls)
  OBVIOUS
<1>2. /\ Tail(w) \in Seq(S) /\ Len(Tail(w)) = Len(w) - 1
      /\ \A k \in 1 .. Len(w) - 1 : Tail(w)[k] = w[k + 1]
  OBVIOUS
<1>3. /\ r \in Seq(S) /\ DOMAIN r = 1 .. Len(calls) + Len(w) - 1
      /\ \A i \in 1 .. Len(calls) + Len(w) - 1 :
           r[i] = IF i <= Len(calls) THEN calls[i] ELSE Tail(w)[i - Len(calls)]
  BY <1>1, <1>2
<1>4. ASSUME NEW i \in DOMAIN r, i \notin DOMAIN calls
      PROVE  i - Len(calls) + 1 \in DOMAIN w \ {1} /\ r[i] = w[i - Len(calls) + 1]
  <2>1. i - Len(calls) \in 1 .. Len(w) - 1 /\ r[i] = Tail(w)[i - Len(calls)]
    BY <1>1, <1>3, <1>4
  <2> QED
    BY <1>1, <1>2, <2>1
<1>5. ASSUME NEW k \in DOMAIN w \ {1}
      PROVE  k + Len(calls) - 1 \in DOMAIN r /\ r[k + Len(calls) - 1] = w[k]
  <2>1. k - 1 \in 1 .. Len(w) - 1 /\ k + Len(calls) - 1 \in 1 .. Len(calls) + Len(w) - 1
    BY <1>1
  <2>2. r[k + Len(calls) - 1] = Tail(w)[k - 1]
    BY <1>1, <1>3, <2>1
  <2> QED
    BY <1>1, <1>2, <1>3, <2>1, <2>2
<1>6. \A i \in DOMAIN calls : i \in DOMAIN r /\ r[i] = calls[i]
  BY <1>1, <1>3
<1>7. \A i \in DOMAIN r : i \in DOMAIN calls => r[i] = calls[i]
  BY <1>6
<1> QED
  BY <1>4, <1>5, <1>6, <1>7

LEMMA SplicedGoals ==
  ASSUME NEW S, NEW w \in Seq(S), w # << >>, NEW calls \in Seq(S), NEW r, r = calls \o Tail(w),
         Apart(calls), Apart(w),
         \A k \in DOMAIN w \ {1} : Goals(w[k]) \cap GoalsOf(calls) = {}
  PROVE  /\ Apart(r)
         /\ \A g : g \in GoalsOf(r) <=> g \in GoalsOf(calls) \/ (g \in GoalsOf(w) /\ g \notin Goals(Head(w)))
<1>1. /\ \A i \in DOMAIN r : \/ i \in DOMAIN calls /\ r[i] = calls[i]
                             \/ /\ i \notin DOMAIN calls
                                /\ i - Len(calls) + 1 \in DOMAIN w \ {1}
                                /\ r[i] = w[i - Len(calls) + 1]
      /\ \A i \in DOMAIN calls : i \in DOMAIN r /\ r[i] = calls[i]
      /\ \A k \in DOMAIN w \ {1} : k + Len(calls) - 1 \in DOMAIN r /\ r[k + Len(calls) - 1] = w[k]
  BY Spliced
<1>2. 1 \in DOMAIN w /\ Head(w) = w[1] /\ Len(calls) \in Nat
  OBVIOUS
<1>3. DOMAIN r \subseteq Int
  <2>1. Tail(w) \in Seq(S)
    OBVIOUS
  <2>2. r \in Seq(S)
    BY <2>1
  <2> QED
    BY <2>2
<1>4. Apart(r)
  <2> SUFFICES ASSUME NEW i \in DOMAIN r, NEW k \in DOMAIN r, i # k,
                      NEW g, g \in Goals(r[i]), g \in Goals(r[k])
               PROVE  FALSE
    BY DEF Apart
  <2>1. CASE i \in DOMAIN calls /\ k \in DOMAIN calls
    BY <1>1, <2>1 DEF Apart
  <2>2. CASE i \in DOMAIN calls /\ k \notin DOMAIN calls
    <3>1. g \in GoalsOf(calls)
      BY <1>1, <2>2 DEF GoalsOf
    <3> QED
      BY <1>1, <2>2, <3>1
  <2>3. CASE i \notin DOMAIN calls /\ k \in DOMAIN calls
    <3>1. g \in GoalsOf(calls)
      BY <1>1, <2>3 DEF GoalsOf
    <3> QED
      BY <1>1, <2>3, <3>1
  <2>4. CASE i \notin DOMAIN calls /\ k \notin DOMAIN calls
    <3>1. /\ i - Len(calls) + 1 \in DOMAIN w /\ g \in Goals(w[i - Len(calls) + 1])
          /\ k - Len(calls) + 1 \in DOMAIN w /\ g \in Goals(w[k - Len(calls) + 1])
      BY <1>1, <2>4
    <3>2. i \in Int /\ k \in Int
      BY <1>3
    <3>3. i - Len(calls) + 1 # k - Len(calls) + 1
      BY <1>2, <3>2
    <3> QED
      BY <3>1, <3>3 DEF Apart
  <2> QED
    BY <2>1, <2>2, <2>3, <2>4
<1>5. ASSUME NEW g PROVE g \in GoalsOf(r) <=> g \in GoalsOf(calls) \/ \E k \in DOMAIN w \ {1} : g \in Goals(w[k])
  <2>1. ASSUME g \in GoalsOf(r) PROVE g \in GoalsOf(calls) \/ \E k \in DOMAIN w \ {1} : g \in Goals(w[k])
    <3>1. PICK i \in DOMAIN r : g \in Goals(r[i])
      BY <2>1 DEF GoalsOf
    <3>2. CASE i \in DOMAIN calls
      BY <1>1, <3>1, <3>2 DEF GoalsOf
    <3>3. CASE i \notin DOMAIN calls
      BY <1>1, <3>1, <3>3
    <3> QED
      BY <3>2, <3>3
  <2>2. ASSUME g \in GoalsOf(calls) PROVE g \in GoalsOf(r)
    <3>1. PICK i \in DOMAIN calls : g \in Goals(calls[i])
      BY <2>2 DEF GoalsOf
    <3> QED
      BY <1>1, <3>1 DEF GoalsOf
  <2>3. ASSUME NEW k \in DOMAIN w \ {1}, g \in Goals(w[k]) PROVE g \in GoalsOf(r)
    <3>1. k + Len(calls) - 1 \in DOMAIN r /\ r[k + Len(calls) - 1] = w[k]
      BY <1>1
    <3> QED
      BY <2>3, <3>1 DEF GoalsOf
  <2> QED
    BY <2>1, <2>2, <2>3
<1>6. ASSUME NEW g
      PROVE  (\E k \in DOMAIN w \ {1} : g \in Goals(w[k])) <=> (g \in GoalsOf(w) /\ g \notin Goals(Head(w)))
  BY <1>2 DEF GoalsOf, Apart
<1> QED
  BY <1>4, <1>5, <1>6

\* The first call of the thread of x gives way to others.
GivesWay(x, calls) ==
  /\ Work[x] # << >>
  /\ Work' = [Work EXCEPT ![x] = calls \o Tail(Work[x])]

LEMMA WorkIsOfCalls ==
  ASSUME FlowInv, NEW x \in Produced
  PROVE  Work[x] \in Seq(StreamCalls \cup { SourceCall(y) : y \in Produced })
<1> DEFINE S == StreamCalls \cup { SourceCall(y) : y \in Produced }
<1>1. CASE x \in begun
  <2>1. stack[x] \in Seq(StreamCalls)
    BY DEF FlowInv
  <2>2. \A n \in Nat : [1..n -> StreamCalls] \subseteq [1..n -> S]
    OBVIOUS
  <2> HIDE DEF S
  <2>3. stack[x] \in Seq(S)
    BY <2>1, <2>2
  <2> QED
    BY <1>1, <2>3 DEF Work, S
<1>2. CASE x \notin begun
  <2>1. SourceCall(x) \in S
    OBVIOUS
  <2> HIDE DEF S
  <2>2. <<SourceCall(x)>> \in Seq(S)
    BY <2>1
  <2> QED
    BY <1>2, <2>2 DEF Work, S
<1> QED
  BY <1>1, <1>2

\* It hands on its goals, or they are reached; what it opens was not open.
LEMMA GoalsHandedOn ==
  ASSUME FlowInv, Once, NEW x \in Produced, NEW calls \in Seq(StreamCalls), GivesWay(x, calls),
         Apart(calls), \A g \in GoalsOf(calls) : g \in Goals(Head(Work[x])) \/ ~Open(g)
  PROVE  /\ Once'
         /\ \A g : Open(g)' <=> g \in GoalsOf(calls) \/ (Open(g) /\ g \notin Goals(Head(Work[x])))
<1> DEFINE S == StreamCalls \cup { SourceCall(y) : y \in Produced }
<1>1. PICK w \in Seq(S) : w = Work[x] /\ w # << >>
  BY WorkIsOfCalls DEF GivesWay
<1>2. calls \in Seq(S)
  <2>1. \A n \in Nat : [1..n -> StreamCalls] \subseteq [1..n -> S]
    OBVIOUS
  <2> HIDE DEF S
  <2> QED
    BY <2>1
<1> HIDE DEF S
<1>3. PICK r : r = calls \o Tail(w)
  OBVIOUS
<1>4. /\ Work'[x] = r
      /\ \A y \in Produced : y # x => Work'[y] = Work[y]
  BY <1>1, <1>3 DEF GivesWay, Work
<1>5. 1 \in DOMAIN w /\ Head(w) = w[1]
  BY <1>1
<1>6. \A g : Open(g) <=> g \in GoalsOf(w) \/ \E y \in Produced : y # x /\ g \in GoalsOf(Work[y])
  BY <1>1 DEF Open
<1>7. \A y \in Produced : y # x => \A g \in GoalsOf(Work[y]) : Open(g) /\ g \notin GoalsOf(w)
  BY <1>1 DEF Once, Open
<1>8. Goals(Head(w)) \subseteq GoalsOf(w)
  BY <1>5 DEF GoalsOf
<1>9. \A k \in DOMAIN w \ {1} : Goals(w[k]) \cap GoalsOf(calls) = {}
  <2>1. \A k \in DOMAIN w \ {1} : \A g \in Goals(w[k]) : g \in GoalsOf(w) /\ g \notin Goals(Head(w))
    BY <1>1, <1>5 DEF Once, Apart, GoalsOf
  <2> QED
    BY <1>1, <1>6, <2>1
<1>10. /\ Apart(r)
       /\ \A g : g \in GoalsOf(r) <=> g \in GoalsOf(calls) \/ (g \in GoalsOf(w) /\ g \notin Goals(Head(w)))
  BY <1>1, <1>2, <1>3, <1>9, SplicedGoals DEF Once
<1>11. \A y \in Produced : y # x => GoalsOf(r) \cap GoalsOf(Work[y]) = {}
  BY <1>1, <1>7, <1>8, <1>10
<1>12. Once'
  BY <1>4, <1>10, <1>11 DEF Once
<1>13. ASSUME NEW g PROVE Open(g)' <=> g \in GoalsOf(calls) \/ (Open(g) /\ g \notin Goals(Head(w)))
  <2>1. Open(g)' <=> g \in GoalsOf(r) \/ \E y \in Produced : y # x /\ g \in GoalsOf(Work[y])
    BY <1>4 DEF Open
  <2> QED
    BY <1>6, <1>7, <1>8, <1>10, <2>1
<1> QED
  BY <1>1, <1>12, <1>13

(***************************************************************************)
(* The goals of the streams.                                               *)
(***************************************************************************)

LEMMA GoalsOfStreams ==
  ASSUME NEW c
  PROVE  LET key == c.value.key IN
         /\ c.at \in {"analyticsOrders", "splitAnalyticsOrders"} =>
              Goals(c) = {Arrival("joinOrderPaymentAnalytics", 1, key), Arrival("multiJoinAnalyticsEvents", 1, key)}
         /\ c.at \in {"analyticsPayments", "splitAnalyticsPayments"} =>
              Goals(c) = {Arrival("joinOrderPaymentAnalytics", 2, key), Arrival("multiJoinAnalyticsEvents", 2, key)}
         /\ c.at = "keyOrdersForJoin" => Goals(c) = {Arrival("joinOrderPaymentAnalytics", 1, key)}
         /\ c.at = "keyPaymentsForJoin" => Goals(c) = {Arrival("joinOrderPaymentAnalytics", 2, key)}
         /\ c.at = "keyOrdersForMultiJoin" => Goals(c) = {Arrival("multiJoinAnalyticsEvents", 1, key)}
         /\ c.at = "keyPaymentsForMultiJoin" => Goals(c) = {Arrival("multiJoinAnalyticsEvents", 2, key)}
         /\ c.at \in {"analyticsShipments", "keyShipmentsForMultiJoin"} =>
              Goals(c) = {Arrival("multiJoinAnalyticsEvents", 3, key)}
         /\ c.at \in Joins =>
              Goals(c) = { Arrival(c.at, k, key) : k \in { n \in Sides(c.at) : AnalyticsSources[c.at][n] = c.from } }
         /\ c.at \in Sinks => Goals(c) = {Result(c.at, key)}
         /\ c.at = "routeAnalyticsResult" => Goals(c) = {Result(WriterOf(key), key)}
         /\ c.at = "highValueAnalytics" => Goals(c) = {Result("writeHighValueAnalytics", key)}
         /\ c.at = "standardAnalytics" => Goals(c) = {Result("writeStandardAnalytics", key)}
         /\ c.at \in {"cycleAnalyticsInput", "cycleAnalyticsLink", "mergeCycleAnalytics",
                      "advanceCycleAnalytics", "splitCycleAnalytics"} =>
              Goals(c) = {Result("writeCycleAnalytics", key)}
         /\ c.at = "completeCycleAnalytics" =>
              Goals(c) = IF Completes(c.value) THEN {Result("writeCycleAnalytics", key)} ELSE {}
         /\ c.at = "continueCycleAnalytics" =>
              Goals(c) = IF Continues(c.value) THEN {Result("writeCycleAnalytics", key)} ELSE {}
         /\ c.at \in {"substreamAnalyticsInput", "invokeAnalyticsSubstream", "analyzeAnalyticsSubstream",
                      "buildSubstreamAnalyticsResult"} => Goals(c) = {Result("writeSubstreamAnalytics", key)}
BY SinkEndpoints DEF Goals, Joins

LEMMA GoalsOfJoinCalls ==
  ASSUME NEW v
  PROVE  /\ Goals(Call("joinOrderPaymentAnalytics", "keyOrdersForJoin", v)) =
              {Arrival("joinOrderPaymentAnalytics", 1, v.key)}
         /\ Goals(Call("joinOrderPaymentAnalytics", "keyPaymentsForJoin", v)) =
              {Arrival("joinOrderPaymentAnalytics", 2, v.key)}
         /\ Goals(Call("multiJoinAnalyticsEvents", "keyOrdersForMultiJoin", v)) =
              {Arrival("multiJoinAnalyticsEvents", 1, v.key)}
         /\ Goals(Call("multiJoinAnalyticsEvents", "keyPaymentsForMultiJoin", v)) =
              {Arrival("multiJoinAnalyticsEvents", 2, v.key)}
         /\ Goals(Call("multiJoinAnalyticsEvents", "keyShipmentsForMultiJoin", v)) =
              {Arrival("multiJoinAnalyticsEvents", 3, v.key)}
<1>1. ASSUME NEW j \in Joins, NEW from
      PROVE  Goals(Call(j, from, v)) =
               { Arrival(j, k, v.key) : k \in { n \in Sides(j) : AnalyticsSources[j][n] = from } }
  BY GoalsOfStreams DEF Call
<1>2. /\ { n \in Sides("joinOrderPaymentAnalytics") :
             AnalyticsSources["joinOrderPaymentAnalytics"][n] = "keyOrdersForJoin" } = {1}
      /\ { n \in Sides("joinOrderPaymentAnalytics") :
             AnalyticsSources["joinOrderPaymentAnalytics"][n] = "keyPaymentsForJoin" } = {2}
  BY JoinSources, SidesOfJoins
<1>3. /\ { n \in Sides("multiJoinAnalyticsEvents") :
             AnalyticsSources["multiJoinAnalyticsEvents"][n] = "keyOrdersForMultiJoin" } = {1}
      /\ { n \in Sides("multiJoinAnalyticsEvents") :
             AnalyticsSources["multiJoinAnalyticsEvents"][n] = "keyPaymentsForMultiJoin" } = {2}
      /\ { n \in Sides("multiJoinAnalyticsEvents") :
             AnalyticsSources["multiJoinAnalyticsEvents"][n] = "keyShipmentsForMultiJoin" } = {3}
  BY JoinSources, SidesOfJoins
<1> QED
  BY <1>1, <1>2, <1>3 DEF Joins

\* The calls have the goals of the call that makes them, each of them once.
HandsOn(c, calls) == Apart(calls) /\ GoalsOf(calls) = Goals(c)

LEMMA OneHandsOn ==
  ASSUME NEW c, NEW d, Goals(d) = Goals(c)
  PROVE  HandsOn(c, <<d>>)
BY DEF HandsOn, Apart, GoalsOf

LEMMA TwoHandOn ==
  ASSUME NEW c, NEW d, NEW e, Goals(d) \cap Goals(e) = {}, Goals(d) \cup Goals(e) = Goals(c)
  PROVE  HandsOn(c, <<d, e>>)
<1>1. DOMAIN <<d, e>> = {1, 2}
  OBVIOUS
<1> QED
  BY <1>1 DEF HandsOn, Apart, GoalsOf

LEMMA NoneHandOn ==
  ASSUME NEW c, Goals(c) = {}
  PROVE  HandsOn(c, << >>)
BY DEF HandsOn, Apart, GoalsOf

LEMMA PassedOnHandsOn ==
  ASSUME NEW c \in StreamCalls, c.at \notin Joins \cup Sinks,
         c.at \notin {"invokeAnalyticsSubstream", "advanceCycleAnalytics", "completeCycleAnalytics",
                      "continueCycleAnalytics", "routeAnalyticsResult", "buildSubstreamAnalyticsResult"}
  PROVE  HandsOn(c, Calls(c.at, c.value))
<1> DEFINE s == c.at
           v == c.value
<1>0. s \in {"splitAnalyticsOrders", "keyOrdersForJoin", "keyOrdersForMultiJoin", "splitAnalyticsPayments",
             "keyPaymentsForJoin", "keyPaymentsForMultiJoin", "keyShipmentsForMultiJoin",
             "highValueAnalytics", "standardAnalytics", "mergeCycleAnalytics", "cycleAnalyticsLink",
             "splitCycleAnalytics", "analyzeAnalyticsSubstream"} /\ v \in ValuesAt(s)
  BY SinkEndpoints DEF StreamCalls, InBranch, Streams, Joins, ValuesAt
<1>1. \A to : Call(to, s, v).at = to /\ Call(to, s, v).value = v
  BY DEF Call
<1> SUFFICES HandsOn(c, Calls(s, v))
  OBVIOUS
<1> HIDE DEF s, v
<1>2. ASSUME NEW to, AnalyticsConsumers[s] = <<to>>, Goals(Call(to, s, v)) = Goals(c)
      PROVE  HandsOn(c, Calls(s, v))
  BY <1>2, CallsOfOne, OneHandsOn
<1>3. CASE s \in {"keyOrdersForJoin", "keyOrdersForMultiJoin", "keyPaymentsForJoin",
                  "keyPaymentsForMultiJoin", "keyShipmentsForMultiJoin"}
  <2>1. /\ s = "keyOrdersForJoin" => Goals(c) = {Arrival("joinOrderPaymentAnalytics", 1, v.key)}
        /\ s = "keyPaymentsForJoin" => Goals(c) = {Arrival("joinOrderPaymentAnalytics", 2, v.key)}
        /\ s = "keyOrdersForMultiJoin" => Goals(c) = {Arrival("multiJoinAnalyticsEvents", 1, v.key)}
        /\ s = "keyPaymentsForMultiJoin" => Goals(c) = {Arrival("multiJoinAnalyticsEvents", 2, v.key)}
        /\ s = "keyShipmentsForMultiJoin" => Goals(c) = {Arrival("multiJoinAnalyticsEvents", 3, v.key)}
    BY GoalsOfStreams DEF s, v
  <2>2. CASE s \in {"keyOrdersForJoin", "keyPaymentsForJoin"}
    <3>1. Goals(Call("joinOrderPaymentAnalytics", s, v)) = Goals(c)
      BY <2>1, <2>2, GoalsOfJoinCalls
    <3> QED
      BY <1>2, <2>2, <3>1, Links
  <2>3. CASE s \in {"keyOrdersForMultiJoin", "keyPaymentsForMultiJoin", "keyShipmentsForMultiJoin"}
    <3>1. Goals(Call("multiJoinAnalyticsEvents", s, v)) = Goals(c)
      BY <2>1, <2>3, GoalsOfJoinCalls
    <3> QED
      BY <1>2, <2>3, <3>1, Links
  <2> QED
    BY <1>3, <2>2, <2>3
<1>4. CASE s = "splitAnalyticsOrders"
  <2>1. /\ Goals(Call("keyOrdersForJoin", s, v)) = {Arrival("joinOrderPaymentAnalytics", 1, v.key)}
        /\ Goals(Call("keyOrdersForMultiJoin", s, v)) = {Arrival("multiJoinAnalyticsEvents", 1, v.key)}
    BY <1>1, GoalsOfStreams
  <2>2. Calls(s, v) = <<Call("keyOrdersForJoin", s, v), Call("keyOrdersForMultiJoin", s, v)>>
    BY <1>4, Links, CallsOfTwo
  <2>3. Goals(c) = {Arrival("joinOrderPaymentAnalytics", 1, v.key), Arrival("multiJoinAnalyticsEvents", 1, v.key)}
    BY <1>4, GoalsOfStreams DEF s, v
  <2>4. Goals(Call("keyOrdersForJoin", s, v)) \cap Goals(Call("keyOrdersForMultiJoin", s, v)) = {}
    BY <2>1 DEF Arrival
  <2>5. Goals(Call("keyOrdersForJoin", s, v)) \cup Goals(Call("keyOrdersForMultiJoin", s, v)) = Goals(c)
    BY <2>1, <2>3
  <2> QED
    BY <2>2, <2>4, <2>5, TwoHandOn
<1>5. CASE s = "splitAnalyticsPayments"
  <2>1. /\ Goals(Call("keyPaymentsForJoin", s, v)) = {Arrival("joinOrderPaymentAnalytics", 2, v.key)}
        /\ Goals(Call("keyPaymentsForMultiJoin", s, v)) = {Arrival("multiJoinAnalyticsEvents", 2, v.key)}
    BY <1>1, GoalsOfStreams
  <2>2. Calls(s, v) = <<Call("keyPaymentsForJoin", s, v), Call("keyPaymentsForMultiJoin", s, v)>>
    BY <1>5, Links, CallsOfTwo
  <2>3. Goals(c) = {Arrival("joinOrderPaymentAnalytics", 2, v.key), Arrival("multiJoinAnalyticsEvents", 2, v.key)}
    BY <1>5, GoalsOfStreams DEF s, v
  <2>4. Goals(Call("keyPaymentsForJoin", s, v)) \cap Goals(Call("keyPaymentsForMultiJoin", s, v)) = {}
    BY <2>1 DEF Arrival
  <2>5. Goals(Call("keyPaymentsForJoin", s, v)) \cup Goals(Call("keyPaymentsForMultiJoin", s, v)) = Goals(c)
    BY <2>1, <2>3
  <2> QED
    BY <2>2, <2>4, <2>5, TwoHandOn
<1>6. CASE s = "highValueAnalytics"
  <2>1. Goals(Call("writeHighValueAnalytics", s, v)) = {Result("writeHighValueAnalytics", v.key)}
    BY <1>1, GoalsOfStreams, SinkEndpoints
  <2> QED
    BY <1>2, <1>6, <2>1, Links, GoalsOfStreams DEF s, v
<1>7. CASE s = "standardAnalytics"
  <2>1. Goals(Call("writeStandardAnalytics", s, v)) = {Result("writeStandardAnalytics", v.key)}
    BY <1>1, GoalsOfStreams, SinkEndpoints
  <2> QED
    BY <1>2, <1>7, <2>1, Links, GoalsOfStreams DEF s, v
<1>8. CASE s \in {"mergeCycleAnalytics", "cycleAnalyticsLink"}
  <2>1. \A to \in {"mergeCycleAnalytics", "advanceCycleAnalytics"} :
          Goals(Call(to, s, v)) = {Result("writeCycleAnalytics", v.key)}
    BY <1>1, GoalsOfStreams
  <2> QED
    BY <1>2, <1>8, <2>1, Links, GoalsOfStreams DEF s, v
<1>9. CASE s = "splitCycleAnalytics"
  <2>1. Completes(v) <=> ~Continues(v)
    BY <1>0, <1>9, ValuesOfStreams DEF Completes, Continues, CycleEvents, Value
  <2>2. /\ Goals(Call("completeCycleAnalytics", s, v)) =
             IF Completes(v) THEN {Result("writeCycleAnalytics", v.key)} ELSE {}
        /\ Goals(Call("continueCycleAnalytics", s, v)) =
             IF Continues(v) THEN {Result("writeCycleAnalytics", v.key)} ELSE {}
    BY <1>1, GoalsOfStreams
  <2>3. Calls(s, v) = <<Call("completeCycleAnalytics", s, v), Call("continueCycleAnalytics", s, v)>>
    BY <1>9, Links, CallsOfTwo
  <2>4. Goals(c) = {Result("writeCycleAnalytics", v.key)}
    BY <1>9, GoalsOfStreams DEF s, v
  <2>5. Goals(Call("completeCycleAnalytics", s, v)) \cap Goals(Call("continueCycleAnalytics", s, v)) = {}
    BY <2>1, <2>2
  <2>6. Goals(Call("completeCycleAnalytics", s, v)) \cup Goals(Call("continueCycleAnalytics", s, v)) = Goals(c)
    BY <2>1, <2>2, <2>4
  <2> QED
    BY <2>3, <2>5, <2>6, TwoHandOn
<1>10. CASE s = "analyzeAnalyticsSubstream"
  <2>1. Goals(Call("buildSubstreamAnalyticsResult", s, v)) = {Result("writeSubstreamAnalytics", v.key)}
    BY <1>1, GoalsOfStreams
  <2> QED
    BY <1>2, <1>10, <2>1, Links, GoalsOfStreams DEF s, v
<1> QED
  BY <1>0, <1>3, <1>4, <1>5, <1>6, <1>7, <1>8, <1>9, <1>10

LEMMA PureCallsHandOn ==
  ASSUME NEW c \in StreamCalls, c.at \notin Joins \cup Sinks \cup {"invokeAnalyticsSubstream"}
  PROVE  HandsOn(c, PureCalls(c.at, c.value))
<1> DEFINE s == c.at
           v == c.value
<1>0. v \in ValuesAt(s)
  BY DEF StreamCalls, InBranch
<1>1. \A to, from, w : Call(to, from, w).at = to /\ Call(to, from, w).value = w
  BY DEF Call
<1>2. CASE s = "advanceCycleAnalytics"
  <2>1. PureCalls(s, v) = <<Call("splitCycleAnalytics", s, Advance(v))>>
    BY <1>2, Links, CallsOfOne DEF PureCalls
  <2>2. Advance(v).key = v.key
    BY <1>0, <1>2, ValuesOfStreams DEF Advance, CycleEvents, Value
  <2>3. Goals(Call("splitCycleAnalytics", s, Advance(v))) = {Result("writeCycleAnalytics", Advance(v).key)}
    BY <1>1, GoalsOfStreams
  <2> QED
    BY <1>2, <2>1, <2>2, <2>3, GoalsOfStreams, OneHandsOn
<1>3. CASE s = "completeCycleAnalytics"
  <2>1. PureCalls(s, v) = IF Completes(v) THEN <<Call("writeCycleAnalytics", s, v)>> ELSE << >>
    BY <1>3, Links, CallsOfOne DEF PureCalls, When
  <2>2. Goals(c) = IF Completes(v) THEN {Result("writeCycleAnalytics", v.key)} ELSE {}
    BY <1>3, GoalsOfStreams
  <2>3. Goals(Call("writeCycleAnalytics", s, v)) = {Result("writeCycleAnalytics", v.key)}
    BY <1>1, GoalsOfStreams, SinkEndpoints
  <2> QED
    BY <2>1, <2>2, <2>3, OneHandsOn, NoneHandOn
<1>4. CASE s = "continueCycleAnalytics"
  <2>1. PureCalls(s, v) = IF Continues(v) THEN <<Call("cycleAnalyticsLink", s, v)>> ELSE << >>
    BY <1>4 DEF PureCalls, When
  <2>2. Goals(c) = IF Continues(v) THEN {Result("writeCycleAnalytics", v.key)} ELSE {}
    BY <1>4, GoalsOfStreams
  <2>3. Goals(Call("cycleAnalyticsLink", s, v)) = {Result("writeCycleAnalytics", v.key)}
    BY <1>1, GoalsOfStreams
  <2> QED
    BY <2>1, <2>2, <2>3, OneHandsOn, NoneHandOn
<1>5. CASE s = "routeAnalyticsResult"
  <2>1. PureCalls(s, v) = <<Calls(s, v)[Branch(v)]>>
    BY <1>5 DEF PureCalls
  <2>2. Calls(s, v) = <<Call("highValueAnalytics", s, v), Call("standardAnalytics", s, v)>>
    BY <1>5, Links, CallsOfTwo
  <2>3. \/ v.key = "high-value" /\ Branch(v) = 1
        \/ v.key = "standard" /\ Branch(v) = 2
    BY <1>0, <1>5, ValuesOfStreams DEF HighValueResult, StandardResult, Branch, Value
  <2>4. /\ Goals(Call("highValueAnalytics", s, v)) = {Result("writeHighValueAnalytics", v.key)}
        /\ Goals(Call("standardAnalytics", s, v)) = {Result("writeStandardAnalytics", v.key)}
    BY <1>1, GoalsOfStreams
  <2>5. Goals(Calls(s, v)[Branch(v)]) = {Result(WriterOf(v.key), v.key)}
    BY <2>2, <2>3, <2>4 DEF WriterOf
  <2>6. Goals(c) = {Result(WriterOf(v.key), v.key)}
    BY <1>5, GoalsOfStreams
  <2>7. Goals(Calls(s, v)[Branch(v)]) = Goals(c)
    BY <2>5, <2>6
  <2> QED
    BY <2>1, <2>7, OneHandsOn
<1>6. CASE s = "buildSubstreamAnalyticsResult"
  <2> DEFINE result == BuildSubstreamResult(v)
  <2>1. PureCalls(s, v) = <<Call("writeSubstreamAnalytics", "invokeAnalyticsSubstream", result)>>
    BY <1>6, Links, CallsOfOne DEF PureCalls
  <2>2. result.key = v.key
    BY DEF BuildSubstreamResult, Value
  <2>3. Goals(Call("writeSubstreamAnalytics", "invokeAnalyticsSubstream", result)) =
          {Result("writeSubstreamAnalytics", result.key)}
    BY <1>1, GoalsOfStreams, SinkEndpoints
  <2> QED
    BY <1>6, <2>1, <2>2, <2>3, GoalsOfStreams, OneHandsOn
<1>7. CASE s \notin {"advanceCycleAnalytics", "completeCycleAnalytics", "continueCycleAnalytics",
                     "routeAnalyticsResult", "buildSubstreamAnalyticsResult"}
  <2>1. PureCalls(s, v) = Calls(s, v)
    BY <1>7 DEF PureCalls
  <2> QED
    BY <1>7, <2>1, PassedOnHandsOn
<1> QED
  BY <1>2, <1>3, <1>4, <1>5, <1>6, <1>7

\* What an input leads to.
InputGoals(x) ==
  CASE x \in OrderInputs    -> {Arrival("joinOrderPaymentAnalytics", 1, x.value.key),
                                Arrival("multiJoinAnalyticsEvents", 1, x.value.key)}
    [] x \in PaymentInputs  -> {Arrival("joinOrderPaymentAnalytics", 2, x.value.key),
                                Arrival("multiJoinAnalyticsEvents", 2, x.value.key)}
    [] x \in ShipmentInputs -> {Arrival("multiJoinAnalyticsEvents", 3, x.value.key)}
    [] x = CycleInput       -> {Result("writeCycleAnalytics", "cycle")}
    [] x = SubstreamInput   -> {Result("writeSubstreamAnalytics", "substream")}

LEMMA SourceCalls ==
  ASSUME NEW x \in Produced
  PROVE  Goals(SourceCall(x)) = InputGoals(x) /\ HandsOn(SourceCall(x), Calls(x.source, x.value))
<1> DEFINE c == SourceCall(x)
           v == x.value
<1>0. /\ c.at = x.source /\ c.value = v
      /\ \A to, from : Call(to, from, v).at = to /\ Call(to, from, v).value = v
  BY DEF SourceCall, Call
<1>1. CASE x \in OrderInputs
  <2>1. x.source = "analyticsOrders"
    BY <1>1 DEF OrderInputs, Input
  <2>2. Calls(x.source, v) = <<Call("splitAnalyticsOrders", x.source, v)>>
    BY <2>1, Links, CallsOfOne
  <2>3. /\ InputGoals(x) = {Arrival("joinOrderPaymentAnalytics", 1, v.key), Arrival("multiJoinAnalyticsEvents", 1, v.key)}
    BY <1>1 DEF InputGoals, OrderInputs, PaymentInputs, ShipmentInputs, CycleInput, SubstreamInput, Input
  <2> HIDE DEF c, v
  <2>4. Goals(c) = InputGoals(x) /\ Goals(Call("splitAnalyticsOrders", x.source, v)) = InputGoals(x)
    BY <1>0, <2>1, <2>3, GoalsOfStreams
  <2>5. HandsOn(c, Calls(x.source, v))
    BY <2>2, <2>4, OneHandsOn
  <2> QED
    BY <2>4, <2>5 DEF c, v
<1>2. CASE x \in PaymentInputs
  <2>1. x.source = "analyticsPayments"
    BY <1>2 DEF PaymentInputs, Input
  <2>2. Calls(x.source, v) = <<Call("splitAnalyticsPayments", x.source, v)>>
    BY <2>1, Links, CallsOfOne
  <2>3. /\ InputGoals(x) = {Arrival("joinOrderPaymentAnalytics", 2, v.key), Arrival("multiJoinAnalyticsEvents", 2, v.key)}
    BY <1>2 DEF InputGoals, OrderInputs, PaymentInputs, ShipmentInputs, CycleInput, SubstreamInput, Input
  <2> HIDE DEF c, v
  <2>4. Goals(c) = InputGoals(x) /\ Goals(Call("splitAnalyticsPayments", x.source, v)) = InputGoals(x)
    BY <1>0, <2>1, <2>3, GoalsOfStreams
  <2>5. HandsOn(c, Calls(x.source, v))
    BY <2>2, <2>4, OneHandsOn
  <2> QED
    BY <2>4, <2>5 DEF c, v
<1>3. CASE x \in ShipmentInputs
  <2>1. x.source = "analyticsShipments"
    BY <1>3 DEF ShipmentInputs, Input
  <2>2. Calls(x.source, v) = <<Call("keyShipmentsForMultiJoin", x.source, v)>>
    BY <2>1, Links, CallsOfOne
  <2>3. InputGoals(x) = {Arrival("multiJoinAnalyticsEvents", 3, v.key)}
    BY <1>3 DEF InputGoals, OrderInputs, PaymentInputs, ShipmentInputs, CycleInput, SubstreamInput, Input
  <2> HIDE DEF c, v
  <2>4. Goals(c) = InputGoals(x) /\ Goals(Call("keyShipmentsForMultiJoin", x.source, v)) = InputGoals(x)
    BY <1>0, <2>1, <2>3, GoalsOfStreams
  <2>5. HandsOn(c, Calls(x.source, v))
    BY <2>2, <2>4, OneHandsOn
  <2> QED
    BY <2>4, <2>5 DEF c, v
<1>4. CASE x = CycleInput
  <2>1. x.source = "cycleAnalyticsInput" /\ v.key = "cycle"
    BY <1>4 DEF CycleInput, Input, Value
  <2>2. Calls(x.source, v) = <<Call("mergeCycleAnalytics", x.source, v)>>
    BY <2>1, Links, CallsOfOne
  <2>3. InputGoals(x) = {Result("writeCycleAnalytics", v.key)}
    BY <1>4, <2>1 DEF InputGoals, OrderInputs, PaymentInputs, ShipmentInputs, CycleInput, SubstreamInput, Input
  <2> HIDE DEF c, v
  <2>4. Goals(c) = InputGoals(x) /\ Goals(Call("mergeCycleAnalytics", x.source, v)) = InputGoals(x)
    BY <1>0, <2>1, <2>3, GoalsOfStreams
  <2>5. HandsOn(c, Calls(x.source, v))
    BY <2>2, <2>4, OneHandsOn
  <2> QED
    BY <2>4, <2>5 DEF c, v
<1>5. CASE x = SubstreamInput
  <2>1. x.source = "substreamAnalyticsInput" /\ v.key = "substream"
    BY <1>5 DEF SubstreamInput, Input, Value
  <2>2. Calls(x.source, v) = <<Call("invokeAnalyticsSubstream", x.source, v)>>
    BY <2>1, Links, CallsOfOne
  <2>3. InputGoals(x) = {Result("writeSubstreamAnalytics", v.key)}
    BY <1>5, <2>1 DEF InputGoals, OrderInputs, PaymentInputs, ShipmentInputs, CycleInput, SubstreamInput, Input
  <2> HIDE DEF c, v
  <2>4. Goals(c) = InputGoals(x) /\ Goals(Call("invokeAnalyticsSubstream", x.source, v)) = InputGoals(x)
    BY <1>0, <2>1, <2>3, GoalsOfStreams
  <2>5. HandsOn(c, Calls(x.source, v))
    BY <2>2, <2>4, OneHandsOn
  <2> QED
    BY <2>4, <2>5 DEF c, v
<1> QED
  BY <1>1, <1>2, <1>3, <1>4, <1>5 DEF Produced

LEMMA InputGoalsApart ==
  ASSUME NEW x \in Produced, NEW y \in Produced, x # y
  PROVE  InputGoals(x) \cap InputGoals(y) = {}
<1> DEFINE Group(z) == IF z \in OrderInputs THEN 1 ELSE IF z \in PaymentInputs THEN 2
                       ELSE IF z \in ShipmentInputs THEN 3 ELSE 0
<1>1. ASSUME NEW z \in Produced, NEW g \in InputGoals(z)
      PROVE  g[2] = Group(z) /\ g[3] = z.value.key
  BY <1>1 DEF Produced, InputGoals, OrderInputs, PaymentInputs, ShipmentInputs, CycleInput,
              SubstreamInput, Input, Value, Arrival, Result
<1>2. x.value.key # y.value.key \/ Group(x) # Group(y)
  BY DEF Produced, OrderInputs, PaymentInputs, ShipmentInputs, CycleInput, SubstreamInput, Input, Value
<1> QED
  BY <1>1, <1>2

LEMMA InputsOfJoins ==
  ASSUME NEW j \in Joins, NEW k \in Sides(j), NEW key \in JoinKeys
  PROVE  \E x \in Produced : Arrival(j, k, key) \in InputGoals(x)
<1>1. k \in 1..3 /\ (j = "joinOrderPaymentAnalytics" => k \in 1..2)
  BY SidesOfJoins DEF Joins
<1>2. CASE k = 1
  <2>1. PICK x \in OrderInputs : x.value.key = key
    BY DEF OrderInputs, Input, Value, JoinKeys
  <2>2. InputGoals(x) = {Arrival("joinOrderPaymentAnalytics", 1, key), Arrival("multiJoinAnalyticsEvents", 1, key)}
    BY <2>1 DEF InputGoals, OrderInputs, PaymentInputs, ShipmentInputs, CycleInput, SubstreamInput, Input
  <2> QED
    BY <1>2, <2>1, <2>2 DEF Produced, Joins
<1>3. CASE k = 2
  <2>1. PICK x \in PaymentInputs : x.value.key = key
    BY DEF PaymentInputs, Input, Value, JoinKeys
  <2>2. x \notin OrderInputs
    BY <2>1 DEF OrderInputs, PaymentInputs, Input, Value
  <2>3. InputGoals(x) = {Arrival("joinOrderPaymentAnalytics", 2, key), Arrival("multiJoinAnalyticsEvents", 2, key)}
    BY <2>1, <2>2 DEF InputGoals, OrderInputs, PaymentInputs, ShipmentInputs, CycleInput, SubstreamInput, Input
  <2> QED
    BY <1>3, <2>1, <2>3 DEF Produced, Joins
<1>4. CASE k = 3
  <2>1. PICK x \in ShipmentInputs : x.value.key = key
    BY DEF ShipmentInputs, Input, Value, JoinKeys
  <2>2. x \notin OrderInputs /\ x \notin PaymentInputs
    BY <2>1 DEF OrderInputs, PaymentInputs, ShipmentInputs, Input, Value
  <2>3. InputGoals(x) = {Arrival("multiJoinAnalyticsEvents", 3, key)}
    BY <2>1, <2>2 DEF InputGoals, OrderInputs, PaymentInputs, ShipmentInputs, CycleInput, SubstreamInput, Input
  <2> QED
    BY <1>1, <1>4, <2>1, <2>3 DEF Produced, Joins
<1> QED
  BY <1>1, <1>2, <1>3, <1>4

\* Goals are told apart by what they are of.
LEMMA GoalsDiffer ==
  /\ \A j \in Joins, k \in 1..3 : \A key, sink, other : Arrival(j, k, key) # Result(sink, other)
  /\ \A j, k, key, i, n, other : Arrival(j, k, key) = Arrival(i, n, other) => j = i /\ k = n /\ key = other
  /\ \A sink, key, to, other : Result(sink, key) = Result(to, other) => sink = to /\ key = other
BY DEF Arrival, Result

(***************************************************************************)
(* The goals, step by step.                                                *)
(***************************************************************************)

LEMMA ExactInvOfNoStreams == NoStreams => ExactInv
<1> SUFFICES ASSUME NoStreams PROVE ExactInv
  OBVIOUS
<1>1. \A x \in Produced : Work[x] = <<SourceCall(x)>>
  BY DEF NoStreams, Work
<1>2. \A x \in Produced : GoalsOf(Work[x]) = InputGoals(x) /\ Apart(Work[x])
  BY <1>1, SourceCalls, OneHandsOn DEF HandsOn
<1>3. \A g : Open(g) <=> \E x \in Produced : g \in InputGoals(x)
  BY <1>2 DEF Open
<1>4. Once
  BY <1>2, InputGoalsApart DEF Once
<1>5. \A sink, key : ~Done(sink, key)
  BY DEF NoStreams, Done, ResultsAt
<1>6. DeliveredInv
  BY DEF NoStreams, DeliveredInv
<1>7. /\ Open(Result("writeCycleAnalytics", "cycle"))
      /\ Open(Result("writeSubstreamAnalytics", "substream"))
  BY <1>3 DEF InputGoals, Produced, OrderInputs, PaymentInputs, ShipmentInputs, CycleInput,
              SubstreamInput, Input
<1>8. SinkInv
  BY <1>5, <1>7 DEF SinkInv
<1>9. ASSUME NEW j \in Joins, NEW key \in JoinKeys PROVE JoinInv(j, key)
  <2>1. \A k \in Sides(j) : Open(Arrival(j, k, key))
    BY <1>3, InputsOfJoins
  <2>2. \A x \in Produced : Result(SinkOf(j, key), key) \notin InputGoals(x)
    BY DEF InputGoals, Produced, OrderInputs, PaymentInputs, ShipmentInputs, CycleInput, SubstreamInput,
           Input, Arrival, Result, SinkOf, WriterOf, JoinKeys
  <2>3. ~Fired(j, key)
    BY <1>3, <1>5, <2>2 DEF Fired
  <2>4. key \in Keys
    BY KeysOfInputs DEF JoinKeys
  <2>5. \A k \in Sides(j) : held[j][key][k] = << >>
    BY <2>4 DEF NoStreams, NothingHeld, Forgotten
  <2>6. 1 \in Sides(j)
    BY SidesOfJoins DEF Joins
  <2> QED
    BY <2>1, <2>3, <2>5, <2>6 DEF JoinInv, Gone, NoStreams
<1> QED
  BY <1>4, <1>6, <1>8, <1>9 DEF ExactInv, NoStreams, Running

LEMMA ExactInvOfNewProcess == NewProcess => ExactInv'
<1>1. NewProcess => NoStreams'
  BY DEF NewProcess, NoStreams
<1> QED
  BY <1>1, ExactInvOfNoStreams, PTL

\* The goals stay open, and the results and the joins as they are.
LEMMA ExactInvStays ==
  ASSUME ExactInv, Once', \A g : Open(g)' <=> Open(g), UNCHANGED <<held, expired, delivered>>,
         \A x \in Produced : Running(x)' => x \in begun'
  PROVE  ExactInv'
<1>1. \A sink, key : Done(sink, key)' <=> Done(sink, key)
  BY DEF Done, ResultsAt
<1>2. \A j, key : Fired(j, key)' <=> Fired(j, key)
  BY <1>1 DEF Fired
<1>3. \A j, k, key : Gone(j, k, key)' <=> Gone(j, k, key)
  BY DEF Gone
<1>4. \A j \in Joins, key \in JoinKeys : JoinInv(j, key)'
  BY <1>2, <1>3 DEF ExactInv, JoinInv
<1>5. SinkInv' /\ DeliveredInv'
  BY <1>1 DEF ExactInv, SinkInv, DeliveredInv
<1> QED
  BY <1>4, <1>5 DEF ExactInv

LEMMA ExactInvOfUnchanged ==
  ASSUME ExactInv, UNCHANGED <<begun, stack, held, expired, delivered>>
  PROVE  ExactInv'
<1>1. Work' = Work
  BY DEF Work
<1>2. Once' /\ \A g : Open(g)' <=> Open(g)
  BY <1>1 DEF ExactInv, Once, Open
<1>3. \A x \in Produced : Running(x)' => x \in begun'
  BY DEF ExactInv, Running
<1> QED
  BY <1>2, <1>3, ExactInvStays

\* A call that hands on all of its goals changes nothing.
LEMMA ExactInvOfHandsOn ==
  ASSUME FlowInv, ExactInv, NEW x \in Produced, NEW calls \in Seq(StreamCalls), GivesWay(x, calls),
         HandsOn(Head(Work[x]), calls), UNCHANGED <<held, expired, delivered>>,
         \A y \in Produced : Running(y)' => y \in begun'
  PROVE  ExactInv'
<1> DEFINE c == Head(Work[x])
<1>1. Goals(c) \subseteq GoalsOf(Work[x])
  <2>1. 1 \in DOMAIN Work[x] /\ c = Work[x][1]
    <3>1. PICK S : Work[x] \in Seq(S)
      BY WorkIsOfCalls
    <3>2. PICK w \in Seq(S) : w = Work[x] /\ w # << >>
      BY <3>1 DEF GivesWay
    <3>3. 1 \in DOMAIN w /\ Head(w) = w[1]
      BY <3>2
    <3> QED
      BY <3>2, <3>3
  <2> QED
    BY <2>1 DEF GoalsOf
<1>2. Apart(calls) /\ GoalsOf(calls) = Goals(c)
  BY DEF HandsOn
<1>3. \A g : Open(g)' <=> g \in GoalsOf(calls) \/ (Open(g) /\ g \notin Goals(c))
  BY <1>2, GoalsHandedOn DEF ExactInv
<1>4. Once'
  BY <1>2, GoalsHandedOn DEF ExactInv
<1>5. \A g : Open(g)' <=> Open(g)
  BY <1>1, <1>2, <1>3 DEF Open
<1> QED
  BY <1>4, <1>5, ExactInvStays

LEMMA ExactInvOfBegin ==
  ASSUME AInv, ExactInv, NEW x \in Produced, Begin(x)
  PROVE  ExactInv'
<1> DEFINE calls == Calls(x.source, x.value)
<1>1. Work[x] = <<SourceCall(x)>> /\ Head(Work[x]) = SourceCall(x)
  BY DEF Begin, Work
<1>2. calls \in Seq(StreamCalls)
  BY InputCalls
<1>3. calls \o Tail(<<SourceCall(x)>>) = calls
  <2> DEFINE e == << >>
  <2>1. Tail(<<SourceCall(x)>>) = << >>
    OBVIOUS
  <2> HIDE DEF calls
  <2>2. calls \o << >> = calls
    BY <1>2
  <2> QED
    BY <2>1, <2>2
<1>4. Work' = [Work EXCEPT ![x] = calls]
  <2>1. begun' = begun \cup {x} /\ stack' = [stack EXCEPT ![x] = calls]
    BY DEF Begin
  <2>2. stack \in [Produced -> Seq(StreamCalls)]
    BY DEF AInv, FlowInv
  <2> HIDE DEF calls
  <2> QED
    BY <2>1, <2>2 DEF Work
<1>5. GivesWay(x, calls)
  BY <1>1, <1>3, <1>4 DEF GivesWay
<1>6. HandsOn(Head(Work[x]), calls)
  BY <1>1, SourceCalls
<1>7. \A y \in Produced : Running(y)' => y \in begun'
  BY DEF Begin, ExactInv, Running, AInv, FlowInv
<1> QED
  BY <1>2, <1>5, <1>6, <1>7, ExactInvOfHandsOn DEF AInv, Begin

\* A running thread replaces its current call.
LEMMA ThreadWork ==
  ASSUME AInv, ExactInv, NEW x \in Produced, Running(x), NEW calls, Replace(x, calls), UNCHANGED begun
  PROVE  /\ GivesWay(x, calls) /\ Head(Work[x]) = Current(x)
         /\ \A y \in Produced : Running(y)' => y \in begun'
<1>1. x \in begun /\ Work[x] = stack[x] /\ Work[x] # << >>
  BY DEF ExactInv, Work, Running
<1>2. stack' = [stack EXCEPT ![x] = calls \o Tail(stack[x])] /\ DOMAIN stack = Produced
  BY DEF Replace, AInv, FlowInv
<1>3. Work' = [Work EXCEPT ![x] = calls \o Tail(Work[x])]
  BY <1>1, <1>2 DEF Work
<1>4. \A y \in Produced : Running(y)' => y \in begun'
  BY <1>1, <1>2 DEF ExactInv, Running
<1> QED
  BY <1>1, <1>3, <1>4 DEF GivesWay, Current

LEMMA ExactInvOfPass ==
  ASSUME AInv, ExactInv, NEW x \in Produced, Pass(x)
  PROVE  ExactInv'
<1> DEFINE calls == PureCalls(Current(x).at, Current(x).value)
<1>1. Running(x) /\ Replace(x, calls) /\ UNCHANGED <<begun, held, expired, delivered>>
  BY DEF Pass
<1>2. calls \in Seq(StreamCalls) /\ HandsOn(Current(x), calls)
  BY CurrentCall, PureCallsInBranch, PureCallsHandOn DEF Pass
<1> HIDE DEF calls
<1> QED
  BY <1>1, <1>2, ThreadWork, ExactInvOfHandsOn DEF AInv

LEMMA ExactInvOfInvoke ==
  ASSUME AInv, ExactInv, NEW x \in Produced, Invoke(x)
  PROVE  ExactInv'
<1> DEFINE d == Call("analyzeAnalyticsSubstream", Current(x).at, Current(x).value)
<1>1. handle = "bound" /\ function = "withHandle"
  BY CurrentCall DEF Invoke, AInv, StartedInv
<1>2. Running(x) /\ Replace(x, <<d>>) /\ UNCHANGED <<begun, held, expired, delivered>>
  BY <1>1 DEF Invoke
<1>3. Current(x) \in StreamCalls /\ Current(x).at = "invokeAnalyticsSubstream"
  BY CurrentCall DEF Invoke
<1>4. Current(x).value \in ValuesAt("analyzeAnalyticsSubstream")
  BY <1>3, ValuesOfStreams DEF StreamCalls, InBranch, Joins
<1>5. <<d>> \in Seq(StreamCalls)
  BY <1>3, <1>4, HandedOn, CallsInSeq DEF Streams, Joins
<1>6. d.at = "analyzeAnalyticsSubstream" /\ d.value = Current(x).value
  BY DEF Call
<1>7. Goals(d) = Goals(Current(x))
  BY <1>3, <1>6, GoalsOfStreams
<1>8. HandsOn(Current(x), <<d>>)
  BY <1>7, OneHandsOn
<1> HIDE DEF d
<1> QED
  BY <1>2, <1>5, <1>8, ThreadWork, ExactInvOfHandsOn DEF AInv

\* A step that does not concern a join and key leaves what is known of them.
LEMMA JoinInvStays ==
  ASSUME NEW j \in Joins, NEW key, JoinInv(j, key),
         \A k \in Sides(j) : Open(Arrival(j, k, key))' <=> Open(Arrival(j, k, key)),
         \A k \in Sides(j) : held'[j][key][k] = held[j][key][k],
         Fired(j, key)' <=> Fired(j, key),
         <<j, key>> \in expired' <=> <<j, key>> \in expired
  PROVE  JoinInv(j, key)'
<1>1. Sides(j)' = Sides(j) /\ \A k : Arrival(j, k, key)' = Arrival(j, k, key)
  BY DEF Sides, Arrival
<1>2. \A k \in Sides(j) : Gone(j, k, key)' <=> Gone(j, k, key)
  BY DEF Gone
<1> QED
  BY <1>1, <1>2 DEF JoinInv

\* Only the keys of orders, payments and shipments come to a join.
LEMMA JoinKeysOfEvents ==
  ASSUME NEW k \in 1..3, NEW v \in SideEvents(k)
  PROVE  v.key \in JoinKeys
<1>1. \A w \in OrderEvents \cup PaymentEvents \cup ShipmentEvents : w.key \in JoinKeys
  BY DEF OrderEvents, PaymentEvents, ShipmentEvents, Value, JoinKeys
<1>2. SideEvents(1) = OrderEvents /\ SideEvents(2) = PaymentEvents /\ SideEvents(3) = ShipmentEvents
  BY DEF SideEvents
<1> QED
  BY <1>1, <1>2

LEMMA OtherKeysAreNotHeld ==
  ASSUME FlowInv, NEW j \in Joins, NEW key \in Keys, key \notin JoinKeys, NEW k \in Sides(j)
  PROVE  held[j][key][k] = << >>
<1>1. k \in 1..3
  BY SidesOfJoins DEF Joins
<1>2. SideEventsOf(k, key) = {}
  BY <1>1, JoinKeysOfEvents DEF SideEventsOf
<1>3. held[j][key][k] \in Seq({})
  BY <1>2 DEF FlowInv
<1> QED
  BY <1>3

LEMMA HeldIsIncomplete ==
  ASSUME FlowInv, ExactInv, NEW j \in Joins, NEW key \in Keys
  PROVE  \E k \in Sides(j) : held[j][key][k] = << >>
<1>1. CASE key \in JoinKeys
  BY <1>1 DEF ExactInv, JoinInv
<1>2. CASE key \notin JoinKeys
  <2>1. 1 \in Sides(j)
    BY SidesOfJoins DEF Joins
  <2> QED
    BY <1>2, <2>1, OtherKeysAreNotHeld
<1> QED
  BY <1>1, <1>2

\* The goals of the current call of a thread are open.
LEMMA CurrentIsOpen ==
  ASSUME AInv, ExactInv, NEW x \in Produced, Running(x), NEW g \in Goals(Current(x))
  PROVE  Open(g)
<1>1. x \in begun /\ Work[x] = stack[x]
  BY DEF ExactInv, Work
<1>2. stack[x] \in Seq(StreamCalls) /\ stack[x] # << >>
  BY DEF AInv, FlowInv, Running
<1>3. 1 \in DOMAIN stack[x] /\ Current(x) = stack[x][1]
  BY <1>2 DEF Current
<1> QED
  BY <1>1, <1>3 DEF Open, GoalsOf

\* The goals after the current call was replaced by others.
LEMMA GoalsAfter ==
  ASSUME AInv, ExactInv, NEW x \in Produced, Running(x), NEW calls \in Seq(StreamCalls),
         Replace(x, calls), UNCHANGED begun, Apart(calls), \A g \in GoalsOf(calls) : ~Open(g)
  PROVE  /\ Once'
         /\ \A y \in Produced : Running(y)' => y \in begun'
         /\ \A g : Open(g)' <=> g \in GoalsOf(calls) \/ (Open(g) /\ g \notin Goals(Current(x)))
<1>1. GivesWay(x, calls) /\ Head(Work[x]) = Current(x)
  BY ThreadWork
<1>2. \A y \in Produced : Running(y)' => y \in begun'
  BY ThreadWork
<1> QED
  BY <1>1, <1>2, GoalsHandedOn DEF AInv, ExactInv

LEMMA NoCalls == << >> \in Seq(StreamCalls) /\ Apart(<< >>) /\ GoalsOf(<< >>) = {}
BY DEF Apart, GoalsOf

LEMMA OtherJoins ==
  ASSUME NEW j \in Joins, NEW i \in Joins, NEW key, NEW other, SinkOf(i, other) = SinkOf(j, key), other = key
  PROVE  i = j
BY DEF Joins, SinkOf, WriterOf

\* The result of a join has not been handed on, so it is open only now.
LEMMA JoinFires ==
  ASSUME NEW j \in Joins, NEW key \in JoinKeys, NEW sides
  PROVE  LET calls == Calls(j, JoinResult(j, key, sides)) IN
         Apart(calls) /\ GoalsOf(calls) = {Result(SinkOf(j, key), key)}
<1> DEFINE v == JoinResult(j, key, sides)
<1>1. v.key = key
  BY DEF JoinResult, Value, Joins
<1> HIDE DEF v
<1>2. \A to : Call(to, j, v).at = to /\ Call(to, j, v).value = v
  BY DEF Call
<1>3. \A to : AnalyticsConsumers[j] = <<to>> /\ Goals(Call(to, j, v)) = {Result(SinkOf(j, key), key)} =>
                Apart(Calls(j, v)) /\ GoalsOf(Calls(j, v)) = {Result(SinkOf(j, key), key)}
  BY CallsOfOne DEF Apart, GoalsOf
<1>4. CASE j = "joinOrderPaymentAnalytics"
  <2>1. Goals(Call("writeJoinedAnalytics", j, v)) = {Result("writeJoinedAnalytics", key)}
    BY <1>1, <1>2, GoalsOfStreams, SinkEndpoints
  <2>2. SinkOf(j, key) = "writeJoinedAnalytics"
    BY <1>4 DEF SinkOf
  <2> QED
    BY <1>3, <1>4, <2>1, <2>2, Links DEF v
<1>5. CASE j = "multiJoinAnalyticsEvents"
  <2>1. Goals(Call("routeAnalyticsResult", j, v)) = {Result(WriterOf(key), key)}
    BY <1>1, <1>2, GoalsOfStreams
  <2>2. SinkOf(j, key) = WriterOf(key)
    BY <1>5 DEF SinkOf
  <2> QED
    BY <1>3, <1>5, <2>1, <2>2, Links DEF v
<1> QED
  BY <1>4, <1>5 DEF Joins

\* A join is called by a stream that feeds none of its sides.
LEMMA ExactInvOfNoArrival ==
  ASSUME AInv, ExactInv, NEW x \in Produced, Join(x),
         \A k \in Sides(Current(x).at) : AnalyticsSources[Current(x).at][k] # Current(x).from
  PROVE  ExactInv'
<1> DEFINE c   == Current(x)
           j   == c.at
           key == c.value.key
<1>1. Running(x) /\ c \in StreamCalls /\ j \in Joins
  BY CurrentCall DEF Join
<1>2. key \in Keys
  BY <1>1 DEF StreamCalls, Values
<1>3. held[j][key] \in Vectors(j)
  BY <1>1, <1>2, HeldIsOfSides DEF AInv, OfSides
<1>4. Arrived(j, c) = held[j][key]
  BY <1>3 DEF Arrived, Vectors
<1>5. ~Complete(Arrived(j, c))
  <2>1. \E k \in Sides(j) : held[j][key][k] = << >>
    BY <1>1, <1>2, HeldIsIncomplete DEF AInv
  <2>2. DOMAIN held[j][key] = Sides(j)
    BY <1>3 DEF Vectors
  <2> QED
    BY <1>4, <2>1, <2>2 DEF Complete
<1>6. held' = [held EXCEPT ![j][key] = held[j][key]] /\ Replace(x, << >>)
  BY <1>4, <1>5 DEF Join
<1>7. held' = held
  <2>1. held \in HeldType
    BY DEF AInv, FlowInv
  <2> HIDE DEF j, key
  <2> QED
    BY <1>6, <2>1 DEF HeldType
<1>8. Goals(c) = {}
  BY <1>1, GoalsOfStreams
<1>9. HandsOn(c, << >>) /\ << >> \in Seq(StreamCalls)
  BY <1>8, NoneHandOn
<1>10. UNCHANGED <<begun, expired, delivered>>
  BY DEF Join
<1> HIDE DEF c
<1>11. Head(Work[x]) = c /\ GivesWay(x, << >>) /\ \A y \in Produced : Running(y)' => y \in begun'
  BY <1>1, <1>6, <1>10, ThreadWork DEF c
<1> QED
  BY <1>7, <1>9, <1>10, <1>11, ExactInvOfHandsOn DEF AInv

\* What is known when a value comes to side k of join j.
Arrives(x, j, k, key) ==
  /\ Running(x) /\ Current(x) \in StreamCalls
  /\ j = Current(x).at /\ key = Current(x).value.key
  /\ Goals(Current(x)) = {Arrival(j, k, key)}
  /\ Open(Arrival(j, k, key))
  /\ held[j][key][k] = << >>
  /\ ~Fired(j, key)
  /\ Arrived(j, Current(x)) = [held[j][key] EXCEPT ![k] = <<Current(x).value>>]
  /\ DOMAIN held[j][key] = Sides(j)

LEMMA ArrivalIsExpected ==
  ASSUME AInv, ExactInv, NEW x \in Produced, Join(x),
         NEW k \in Sides(Current(x).at), AnalyticsSources[Current(x).at][k] = Current(x).from
  PROVE  Current(x).value.key \in JoinKeys /\ Arrives(x, Current(x).at, k, Current(x).value.key)
<1> DEFINE c   == Current(x)
           j   == c.at
           key == c.value.key
<1>1. Running(x) /\ c \in StreamCalls /\ j \in Joins
  BY CurrentCall DEF Join
<1>2. key \in Keys
  BY <1>1 DEF StreamCalls, Values
<1>3. key \in JoinKeys
  <2>1. c.value \in SideEvents(k)
    BY <1>1 DEF StreamCalls, InBranch
  <2>2. k \in 1..3
    BY <1>1, SidesOfJoins DEF Joins
  <2> QED
    BY <2>1, <2>2, JoinKeysOfEvents
<1>4. \A n \in Sides(j) : AnalyticsSources[j][n] = c.from => n = k
  BY <1>1, JoinSources, SidesOfJoins DEF Joins
<1>5. Goals(c) = {Arrival(j, k, key)}
  <2>1. Goals(c) = { Arrival(j, n, key) : n \in { m \in Sides(j) : AnalyticsSources[j][m] = c.from } }
    BY <1>1, GoalsOfStreams
  <2>2. { m \in Sides(j) : AnalyticsSources[j][m] = c.from } = {k}
    BY <1>4
  <2> QED
    BY <2>1, <2>2
<1>6. Open(Arrival(j, k, key))
  BY <1>1, <1>5, CurrentIsOpen
<1>7. JoinInv(j, key)
  BY <1>1, <1>3 DEF ExactInv
<1>8. held[j][key][k] = << >> /\ ~Fired(j, key)
  BY <1>6, <1>7 DEF JoinInv, Gone
<1>9. DOMAIN held[j][key] = Sides(j) /\ held[j][key] \in Vectors(j)
  BY <1>1, <1>2, HeldIsOfSides DEF AInv, OfSides, Vectors
<1>10. Arrived(j, c) = [held[j][key] EXCEPT ![k] = <<c.value>>]
  <2>1. Append(<< >>, c.value) = <<c.value>>
    OBVIOUS
  <2>2. Arrived(j, c) = [n \in Sides(j) |-> IF n = k THEN <<c.value>> ELSE held[j][key][n]]
    <3>1. \A n \in Sides(j) : AnalyticsSources[j][n] = c.from <=> n = k
      BY <1>4
    <3> QED
      BY <1>8, <2>1, <3>1 DEF Arrived
  <2> HIDE DEF c, j, key
  <2> QED
    BY <1>9, <2>2 DEF Vectors
<1> QED
  BY <1>1, <1>3, <1>5, <1>6, <1>8, <1>9, <1>10 DEF Arrives

\* The side is one of several that are missing: its value is held.
LEMMA ExactInvOfHeldArrival ==
  ASSUME AInv, ExactInv, NEW x \in Produced, Join(x), NEW j \in Joins, NEW key \in JoinKeys,
         NEW k \in Sides(j), Arrives(x, j, k, key), ~Complete(Arrived(j, Current(x)))
  PROVE  ExactInv'
<1> DEFINE sides == Arrived(j, Current(x))
           g0 == Arrival(j, k, key)
<1>1. Running(x) /\ j = Current(x).at /\ key = Current(x).value.key /\ Goals(Current(x)) = {g0}
  BY DEF Arrives
<1>2. held' = [held EXCEPT ![j][key] = sides] /\ Replace(x, << >>)
  BY <1>1 DEF Join
<1>3. UNCHANGED <<begun, expired, delivered>>
  BY DEF Join
<1>4. /\ Once'
      /\ \A y \in Produced : Running(y)' => y \in begun'
      /\ \A g : Open(g)' <=> Open(g) /\ g # g0
  BY <1>1, <1>2, <1>3, NoCalls, GoalsAfter
<1>5. JoinKeys \subseteq Keys /\ Sides(j) \subseteq 1..3
  BY KeysOfInputs, SidesOfJoins DEF JoinKeys, Joins
<1>6. /\ held'[j][key] = sides
      /\ \A i \in Joins, other \in Keys : (i # j \/ other # key) => held'[i][other] = held[i][other]
  BY <1>2, <1>5 DEF AInv, FlowInv, HeldType
<1>7. \A sink, other : (Open(Result(sink, other))' <=> Open(Result(sink, other)))
                       /\ (Done(sink, other)' <=> Done(sink, other))
  <2>1. \A sink, other : Result(sink, other) # g0
    BY <1>5, GoalsDiffer
  <2>2. \A sink, other : Result(sink, other)' = Result(sink, other)
    BY DEF Result
  <2> QED
    BY <1>3, <1>4, <2>1, <2>2 DEF Done, ResultsAt
<1>8. \A i, other : Fired(i, other)' <=> Fired(i, other)
  <2>1. \A i, other : SinkOf(i, other)' = SinkOf(i, other)
    BY DEF SinkOf, WriterOf
  <2> QED
    BY <1>7, <2>1 DEF Fired
<1>9. SinkInv' /\ DeliveredInv'
  BY <1>3, <1>7 DEF ExactInv, SinkInv, DeliveredInv
<1>10. ASSUME NEW i \in Joins, NEW other \in JoinKeys, i # j \/ other # key
       PROVE  JoinInv(i, other)'
  <2>1. \A n \in Sides(i) : Open(Arrival(i, n, other))' <=> Open(Arrival(i, n, other))
    BY <1>4, <1>10, GoalsDiffer
  <2>2. held'[i][other] = held[i][other]
    BY <1>5, <1>6, <1>10
  <2>3. JoinInv(i, other)
    BY DEF ExactInv
  <2> QED
    BY <1>3, <1>8, <2>1, <2>2, <2>3, JoinInvStays
<1>11. JoinInv(j, key)'
  <2>1. JoinInv(j, key) /\ Open(g0)
    BY DEF ExactInv, Arrives
  <2>2. sides = [held[j][key] EXCEPT ![k] = <<Current(x).value>>] /\ DOMAIN held[j][key] = Sides(j)
    BY DEF Arrives
  <2>3. /\ sides[k] # << >>
        /\ \A n \in Sides(j) : n # k => sides[n] = held[j][key][n]
    BY <2>2
  <2>4. DOMAIN sides = Sides(j)
    BY <2>2
  <2> HIDE DEF sides
  <2>5. \A n \in Sides(j) : n # k => (Open(Arrival(j, n, key))' <=> Open(Arrival(j, n, key)))
    BY <1>4, GoalsDiffer
  <2>6. ~Open(g0)'
    BY <1>4
  <2>7. \A n \in Sides(j) : Gone(j, n, key)' <=> Gone(j, n, key)
    BY <1>6, <2>1, <2>3, <2>5 DEF Gone
  <2>8. \A n \in Sides(j) : Open(Arrival(j, n, key))' => held'[j][key][n] = << >>
    BY <1>6, <2>1, <2>3, <2>5, <2>6 DEF JoinInv
  <2>9. \E n \in Sides(j) : held'[j][key][n] = << >>
    BY <1>6, <2>4 DEF Complete, sides
  <2> QED
    BY <1>3, <1>8, <2>1, <2>7, <2>8, <2>9 DEF JoinInv
<1>12. \A i \in Joins, other \in JoinKeys : JoinInv(i, other)'
  BY <1>10, <1>11
<1> QED
  BY <1>3, <1>4, <1>9, <1>12 DEF ExactInv

\* The side was the last one: the join hands its result on and forgets the key.
LEMMA ExactInvOfLastArrival ==
  ASSUME AInv, ExactInv, NEW x \in Produced, Join(x), NEW j \in Joins, NEW key \in JoinKeys,
         NEW k \in Sides(j), Arrives(x, j, k, key), Complete(Arrived(j, Current(x)))
  PROVE  ExactInv'
<1> DEFINE sides == Arrived(j, Current(x))
           calls == Calls(j, JoinResult(j, key, sides))
           g0 == Arrival(j, k, key)
           r0 == Result(SinkOf(j, key), key)
<1>1. Running(x) /\ j = Current(x).at /\ key = Current(x).value.key /\ Goals(Current(x)) = {g0}
  BY DEF Arrives
<1>2. held' = [held EXCEPT ![j][key] = Forgotten(j)] /\ Replace(x, calls)
  BY <1>1 DEF Join
<1>3. UNCHANGED <<begun, expired, delivered>>
  BY DEF Join
<1>4. JoinKeys \subseteq Keys /\ Sides(j) \subseteq 1..3
  BY KeysOfInputs, SidesOfJoins DEF JoinKeys, Joins
<1>5. calls \in Seq(StreamCalls)
  <2>1. OfSides(j, key, sides)
    BY <1>1, <1>4, HeldIsOfSides, ArrivalOnItsSide DEF AInv, Arrives
  <2> QED
    BY <1>4, <2>1, JoinCompletes
<1>6. Apart(calls) /\ GoalsOf(calls) = {r0}
  BY JoinFires
<1>7. ~Open(r0) /\ ~Done(SinkOf(j, key), key)
  BY DEF Arrives, Fired
<1>8. /\ Once'
      /\ \A y \in Produced : Running(y)' => y \in begun'
      /\ \A g : Open(g)' <=> g = r0 \/ (Open(g) /\ g # g0)
  <2> HIDE DEF calls
  <2> QED
    BY <1>1, <1>2, <1>3, <1>5, <1>6, <1>7, GoalsAfter
<1>9. /\ held'[j][key] = Forgotten(j)
      /\ \A i \in Joins, other \in Keys : (i # j \/ other # key) => held'[i][other] = held[i][other]
  BY <1>2, <1>4 DEF AInv, FlowInv, HeldType
<1>10. \A sink, other : Done(sink, other)' <=> Done(sink, other)
  BY <1>3 DEF Done, ResultsAt
<1>11. \A sink, other : Result(sink, other) # r0 => (Open(Result(sink, other))' <=> Open(Result(sink, other)))
  BY <1>4, <1>8, GoalsDiffer
<1>12. DeliveredInv'
  BY <1>3 DEF ExactInv, DeliveredInv
<1>13. SinkInv'
  <2>1. ASSUME NEW sink \in Sinks, NEW other \in Keys, Open(Result(sink, other))'
        PROVE  ~Done(sink, other)'
    <3>1. CASE Result(sink, other) = r0
      BY <1>7, <1>10, <3>1, GoalsDiffer
    <3>2. CASE Result(sink, other) # r0
      BY <1>10, <1>11, <2>1, <3>2 DEF ExactInv, SinkInv
    <3> QED
      BY <3>1, <3>2
  <2>2. \A sink, other : Open(Result(sink, other)) => Open(Result(sink, other))'
    BY <1>8, <1>11
  <2> QED
    BY <1>10, <2>1, <2>2 DEF ExactInv, SinkInv
<1>14. ASSUME NEW i \in Joins, NEW other \in JoinKeys, i # j \/ other # key
       PROVE  JoinInv(i, other)'
  <2>1. \A n \in Sides(i) : Open(Arrival(i, n, other))' <=> Open(Arrival(i, n, other))
    <3>1. Sides(i) \subseteq 1..3
      BY SidesOfJoins DEF Joins
    <3> QED
      BY <1>8, <1>14, <3>1, GoalsDiffer
  <2>2. held'[i][other] = held[i][other]
    BY <1>4, <1>9, <1>14
  <2>3. Result(SinkOf(i, other), other) # r0
    BY <1>14, GoalsDiffer, OtherJoins
  <2>4. Fired(i, other)' <=> Fired(i, other)
    BY <1>10, <1>11, <2>3 DEF Fired
  <2>5. JoinInv(i, other)
    BY DEF ExactInv
  <2> QED
    BY <1>3, <2>1, <2>2, <2>4, <2>5, JoinInvStays
<1>15. JoinInv(j, key)'
  <2>1. JoinInv(j, key) /\ Open(g0)
    BY DEF ExactInv, Arrives
  <2>2. \A n \in Sides(j) : n # k => held[j][key][n] # << >>
    <3>1. sides = [held[j][key] EXCEPT ![k] = <<Current(x).value>>] /\ DOMAIN held[j][key] = Sides(j)
      BY DEF Arrives
    <3> QED
      BY <3>1 DEF Complete
  <2>3. \A n \in Sides(j) : ~Open(Arrival(j, n, key))'
    <3>1. \A n \in Sides(j) : n # k => ~Open(Arrival(j, n, key))
      BY <2>1, <2>2 DEF JoinInv
    <3>2. \A n \in Sides(j) : Arrival(j, n, key) # r0
      BY <1>4, GoalsDiffer
    <3> QED
      BY <1>8, <3>1, <3>2
  <2>4. \A n \in Sides(j) : held'[j][key][n] = << >>
    BY <1>9 DEF Forgotten
  <2>5. Fired(j, key)'
    BY <1>8 DEF Fired
  <2>6. <<j, key>> \notin expired
    BY <2>1, <2>2 DEF JoinInv, Gone
  <2>7. 1 \in Sides(j)
    BY SidesOfJoins DEF Joins
  <2> QED
    BY <1>3, <2>3, <2>4, <2>5, <2>6, <2>7 DEF JoinInv, Gone
<1>16. \A i \in Joins, other \in JoinKeys : JoinInv(i, other)'
  BY <1>14, <1>15
<1> QED
  BY <1>3, <1>8, <1>12, <1>13, <1>16 DEF ExactInv

LEMMA ExactInvOfJoin ==
  ASSUME AInv, ExactInv, NEW x \in Produced, Join(x)
  PROVE  ExactInv'
<1>1. CASE \A k \in Sides(Current(x).at) : AnalyticsSources[Current(x).at][k] # Current(x).from
  BY <1>1, ExactInvOfNoArrival
<1>2. ASSUME NEW k \in Sides(Current(x).at), AnalyticsSources[Current(x).at][k] = Current(x).from
      PROVE  ExactInv'
  <2>1. Current(x).value.key \in JoinKeys /\ Arrives(x, Current(x).at, k, Current(x).value.key)
    BY <1>2, ArrivalIsExpected
  <2>2. Current(x).at \in Joins
    BY DEF Join
  <2> QED
    BY <2>1, <2>2, ExactInvOfHeldArrival, ExactInvOfLastArrival
<1> QED
  BY <1>1, <1>2

\* A sink accepts a result: it is delivered instead of open.
LEMMA ExactInvOfWrite ==
  ASSUME AInv, ExactInv, NEW x \in Produced, Write(x)
  PROVE  ExactInv'
<1> DEFINE c    == Current(x)
           sink == c.at
           v    == c.value
           key  == c.value.key
           r0   == Result(sink, key)
           new  == [sink |-> sink, value |-> v]
<1>1. Running(x) /\ c \in StreamCalls /\ sink \in Sinks /\ UNCHANGED <<begun, held, expired>>
  BY CurrentCall DEF Write
<1>2. v \in Values /\ key \in Keys /\ v \in ValuesAt(sink)
  BY <1>1, SinkEndpoints DEF StreamCalls, InBranch, Values, Joins
<1>3. delivered' = Append(delivered, new) /\ Replace(x, << >>)
  <2>1. sink \in bindings
    BY <1>1, CurrentCall DEF AInv, StartedInv
  <2>2. Accepts(AnalyticsBindings[sink], v)
    BY <1>1, SinksAccept
  <2> QED
    BY <2>1, <2>2 DEF Write
<1>4. Goals(c) = {r0}
  BY <1>1, GoalsOfStreams
<1>5. Open(r0)
  BY <1>1, <1>4, CurrentIsOpen
<1>6. ~Done(sink, key)
  BY <1>1, <1>2, <1>5 DEF ExactInv, SinkInv
<1>7. /\ Once'
      /\ \A y \in Produced : Running(y)' => y \in begun'
      /\ \A g : Open(g)' <=> Open(g) /\ g # r0
  BY <1>1, <1>3, <1>4, NoCalls, GoalsAfter
<1>8. delivered \in Seq([sink : Sinks, value : Values]) /\ new \in [sink : Sinks, value : Values]
  BY <1>1, <1>2 DEF ExactInv, DeliveredInv
<1>9. /\ new.sink = sink /\ new.value = v
      /\ \A k \in DOMAIN delivered : delivered[k].sink # sink \/ delivered[k].value.key # key
  BY <1>6 DEF Done, ResultsAt
<1>10. \A k \in DOMAIN delivered : delivered[k].value \in ValuesAt(delivered[k].sink)
  BY DEF ExactInv, DeliveredInv
<1>11. \A k, n \in DOMAIN delivered :
         delivered[k].sink = delivered[n].sink /\ delivered[k].value.key = delivered[n].value.key => k = n
  BY DEF ExactInv, DeliveredInv
<1> HIDE DEF c, sink, v, key, new, r0
<1>12. /\ delivered' \in Seq([sink : Sinks, value : Values])
       /\ DOMAIN delivered' = DOMAIN delivered \cup {Len(delivered) + 1}
       /\ Len(delivered) + 1 \notin DOMAIN delivered
       /\ delivered'[Len(delivered) + 1] = new
       /\ \A k \in DOMAIN delivered : delivered'[k] = delivered[k]
  BY <1>3, <1>8
<1>13. DeliveredInv'
  <2>1. \A k \in DOMAIN delivered' : delivered'[k].value \in ValuesAt(delivered'[k].sink)
    BY <1>2, <1>9, <1>10, <1>12
  <2>2. \A k, n \in DOMAIN delivered' :
          delivered'[k].sink = delivered'[n].sink /\ delivered'[k].value.key = delivered'[n].value.key => k = n
    BY <1>9, <1>11, <1>12 DEF key, v
  <2> QED
    BY <1>12, <2>1, <2>2 DEF DeliveredInv
<1>14. \A s, other : Done(s, other)' <=> Done(s, other) \/ (s = sink /\ other = key)
  <2>1. \A s, other : Done(s, other) <=> \E k \in DOMAIN delivered : delivered[k].sink = s /\ delivered[k].value.key = other
    BY DEF Done, ResultsAt
  <2>2. \A s, other : Done(s, other)' <=> \E k \in DOMAIN delivered' : delivered'[k].sink = s /\ delivered'[k].value.key = other
    BY DEF Done, ResultsAt
  <2>3. v.key = key
    BY DEF key, v
  <2> QED
    BY <1>9, <1>12, <2>1, <2>2, <2>3
<1>15. \A s, other : Open(Result(s, other))' <=> Open(Result(s, other)) /\ ~(s = sink /\ other = key)
  BY <1>7, GoalsDiffer DEF r0
<1>16. \A i, other : Fired(i, other)' <=> Fired(i, other)
  BY <1>5, <1>14, <1>15 DEF Fired, r0
<1>17. SinkInv'
  BY <1>14, <1>15 DEF ExactInv, SinkInv
<1>18. ASSUME NEW i \in Joins, NEW other \in JoinKeys
       PROVE  JoinInv(i, other)'
  <2>1. Sides(i) \subseteq 1..3
    BY SidesOfJoins DEF Joins
  <2>2. \A n \in Sides(i) : Open(Arrival(i, n, other))' <=> Open(Arrival(i, n, other))
    BY <1>7, <2>1, GoalsDiffer DEF r0
  <2>3. JoinInv(i, other)
    BY DEF ExactInv
  <2> QED
    BY <1>1, <1>16, <2>2, <2>3, JoinInvStays
<1> QED
  BY <1>1, <1>7, <1>13, <1>17, <1>18 DEF ExactInv

\* What a join held is lost: its result will not come.
LEMMA ExactInvOfExpire ==
  ASSUME AInv, ExactInv, NEW j \in Joins, NEW key \in Keys, Expire(j, key)
  PROVE  ExactInv'
<1>1. held' = [held EXCEPT ![j][key] = Forgotten(j)] /\ expired' = expired \cup {<<j, key>>}
  BY DEF Expire
<1>2. /\ held'[j][key] = Forgotten(j)
      /\ \A i \in Joins, other \in Keys : (i # j \/ other # key) => held'[i][other] = held[i][other]
  BY <1>1 DEF AInv, FlowInv, HeldType
<1>3. PICK k \in Sides(j) : held[j][key][k] # << >>
  <2>1. held[j][key] \in Vectors(j) /\ held[j][key] # Forgotten(j)
    BY HeldIsOfSides DEF AInv, OfSides, Expire
  <2> QED
    BY <2>1 DEF Vectors, Forgotten
<1>4. key \in JoinKeys
  BY <1>3, OtherKeysAreNotHeld DEF AInv
<1>5. Work' = Work /\ UNCHANGED delivered
  BY DEF Expire, Work
<1>6. Once' /\ \A g : Open(g)' <=> Open(g)
  BY <1>5 DEF ExactInv, Once, Open
<1>7. \A sink, other : Done(sink, other)' <=> Done(sink, other)
  BY <1>5 DEF Done, ResultsAt
<1>8. \A i, other : Fired(i, other)' <=> Fired(i, other)
  BY <1>6, <1>7 DEF Fired
<1>9. SinkInv' /\ DeliveredInv'
  BY <1>5, <1>6, <1>7 DEF ExactInv, SinkInv, DeliveredInv
<1>10. \A x \in Produced : Running(x)' => x \in begun'
  BY DEF ExactInv, Running, Expire
<1>11. ASSUME NEW i \in Joins, NEW other \in JoinKeys, i # j \/ other # key
       PROVE  JoinInv(i, other)'
  <2>1. held'[i][other] = held[i][other]
    BY <1>2, <1>11, KeysOfInputs DEF JoinKeys
  <2>2. <<i, other>> \in expired' <=> <<i, other>> \in expired
    BY <1>1, <1>11
  <2>3. JoinInv(i, other)
    BY DEF ExactInv
  <2> QED
    BY <1>6, <1>8, <2>1, <2>2, <2>3, JoinInvStays
<1>12. JoinInv(j, key)'
  <2>1. JoinInv(j, key)
    BY <1>4 DEF ExactInv
  <2>2. \A n \in Sides(j) : held'[j][key][n] = << >>
    BY <1>2 DEF Forgotten
  <2>3. ~Fired(j, key)
    BY <1>3, <2>1 DEF JoinInv, Gone
  <2>4. ~Open(Arrival(j, k, key))
    BY <1>3, <2>1 DEF JoinInv
  <2>5. Gone(j, k, key)'
    BY <1>6, <2>2, <2>4 DEF Gone
  <2> QED
    BY <1>1, <1>8, <2>2, <2>3, <2>5 DEF JoinInv
<1>13. expired' \subseteq Joins \X JoinKeys
  BY <1>1, <1>4 DEF ExactInv
<1>14. \A i \in Joins, other \in JoinKeys : JoinInv(i, other)'
  BY <1>11, <1>12
<1> QED
  BY <1>6, <1>9, <1>10, <1>13, <1>14 DEF ExactInv

LEMMA ExactInvPreserved == AInv /\ ExactInv /\ [Next]_vars => ExactInv'
<1> SUFFICES ASSUME AInv, ExactInv, [Next]_vars PROVE ExactInv'
  OBVIOUS
<1>1. CASE UNCHANGED vars
  BY <1>1, ExactInvOfUnchanged DEF vars, streamVars
<1>2. CASE Starting \/ Stop \/ ReleaseRuntime
  <2>1. UNCHANGED streamVars
    BY <1>2 DEF Starting, CustomMakersInit, InitFunctions, BuildStreams, Bind, InitDataSinks,
           InitDataSources, StartStep, Stop, ReleaseRuntime
  <2> QED
    BY <2>1, ExactInvOfUnchanged DEF streamVars
<1>3. ASSUME NEW x \in Produced, Begin(x) \/ ThreadStep(x) PROVE ExactInv'
  BY <1>3, ExactInvOfBegin, ExactInvOfPass, ExactInvOfInvoke, ExactInvOfJoin, ExactInvOfWrite DEF ThreadStep
<1>4. ASSUME NEW j \in Joins, NEW key \in Keys, Expire(j, key) PROVE ExactInv'
  BY <1>4, ExactInvOfExpire
<1>5. CASE (\E n \in 1..MaxStored : HandleMessage(n)) \/ KafkaStep \/ Rebalance \/ Idle
  BY <1>5, ExactInvOfUnchanged DEF HandleMessage, KafkaStep, Rebalance, Idle, vars, streamVars
<1>6. CASE StartAgain \/ Crash
  BY <1>6, ExactInvOfNewProcess DEF StartAgain, Crash
<1> QED
  BY <1>1, <1>2, <1>3, <1>4, <1>5, <1>6 DEF Next

(***************************************************************************)
(* When the inputs of a key have been handled.                             *)
(***************************************************************************)

\* Nothing of a key is open once its inputs are produced and no thread runs.
LEMMA NothingOpenAtRest ==
  ASSUME AInv, Inputs \subseteq begun, Quiet, NEW key \in keys, NEW s, NEW k
  PROVE  ~Open(<<s, k, key>>)
<1> SUFFICES ASSUME NEW x \in Produced, <<s, k, key>> \in GoalsOf(Work[x]) PROVE FALSE
  BY DEF Open
<1>1. ~Running(x)
  BY DEF Quiet, AInv, StartedInv
<1>2. CASE x \in begun
  <2>1. Work[x] = << >>
    BY <1>1, <1>2 DEF Work, Running
  <2> QED
    BY <2>1, NoCalls
<1>3. CASE x \notin begun
  <2>1. x.value.key # key
    BY <1>3 DEF Inputs
  <2>2. Work[x] = <<SourceCall(x)>>
    BY <1>3 DEF Work
  <2>3. GoalsOf(Work[x]) = InputGoals(x)
    BY <2>2, SourceCalls, OneHandsOn DEF HandsOn
  <2>4. \A g \in InputGoals(x) : g[3] = x.value.key
    BY DEF Produced, InputGoals, OrderInputs, PaymentInputs, ShipmentInputs, CycleInput,
           SubstreamInput, Input, Value, Arrival, Result
  <2> QED
    BY <2>1, <2>3, <2>4
<1> QED
  BY <1>2, <1>3

\* The results that a sink can have, and those it waits for.
ResultPairs ==
  {<<"writeCycleAnalytics", "cycle">>, <<"writeSubstreamAnalytics", "substream">>,
   <<"writeHighValueAnalytics", "high-value">>, <<"writeStandardAnalytics", "standard">>,
   <<"writeJoinedAnalytics", "high-value">>, <<"writeJoinedAnalytics", "standard">>}

LEMMA ExpectedPairs ==
  ASSUME NEW sink \in Sinks, NEW key
  PROVE  ExpectedAt(sink, key) <=> <<sink, key>> \in ResultPairs
<1>1. CASE sink = "writeCycleAnalytics"
  BY <1>1, SinkEndpoints DEF ExpectedAt, Accepts, CycleAccepts, Value, ResultPairs
<1>2. CASE sink = "writeSubstreamAnalytics"
  BY <1>2, SinkEndpoints DEF ExpectedAt, Accepts, SubstreamAccepts, Value, ResultPairs
<1>3. CASE sink = "writeHighValueAnalytics"
  BY <1>3, SinkEndpoints DEF ExpectedAt, Accepts, HighValueAccepts, Value, ResultPairs
<1>4. CASE sink = "writeStandardAnalytics"
  BY <1>4, SinkEndpoints DEF ExpectedAt, Accepts, StandardAccepts, Value, ResultPairs
<1>5. CASE sink = "writeJoinedAnalytics"
  BY <1>5, SinkEndpoints DEF ExpectedAt, Accepts, JoinedAccepts, Value, ResultPairs
<1> QED
  BY <1>1, <1>2, <1>3, <1>4, <1>5, SinkEndpoints

LEMMA DeliveredPairs ==
  ASSUME ExactInv, NEW sink \in Sinks, NEW key, Done(sink, key)
  PROVE  <<sink, key>> \in ResultPairs
<1>1. PICK v \in ValuesAt(sink) : v.key = key
  BY DEF ExactInv, DeliveredInv, Done, ResultsAt
<1> QED
  BY <1>1, SinkEndpoints, ValuesOfStreams
     DEF ResultPairs, CycleEvents, HighValueResult, StandardResult, JoinedResults, SubstreamResult, Value

\* A sink has the result of a join if and only if the join did not expire.
LEMMA JoinsAtRest ==
  ASSUME AInv, ExactInv, Inputs \subseteq begun, Quiet, NEW j \in Joins, NEW key \in JoinKeys, key \in keys
  PROVE  Done(SinkOf(j, key), key) <=> <<j, key>> \notin expired
<1>1. \A k \in Sides(j) : ~Open(Arrival(j, k, key))
  BY NothingOpenAtRest DEF Arrival
<1>2. ~Open(Result(SinkOf(j, key), key))
  BY NothingOpenAtRest DEF Result
<1>3. Fired(j, key) <=> Done(SinkOf(j, key), key)
  BY <1>2 DEF Fired
<1>4. JoinInv(j, key)
  BY DEF ExactInv
<1> QED
  BY <1>1, <1>3, <1>4 DEF JoinInv, Gone

LEMMA DoneAtRest ==
  ASSUME AInv, ExactInv, Inputs \subseteq begun, Quiet, NEW sink \in Sinks, NEW key \in keys
  PROVE  Done(sink, key) <=> ExpectedAt(sink, key) /\ <<JoinBefore(sink), key>> \notin expired
<1>1. ExpectedAt(sink, key) <=> <<sink, key>> \in ResultPairs
  BY ExpectedPairs
<1>2. CASE <<sink, key>> \notin ResultPairs
  BY <1>1, <1>2, DeliveredPairs
<1>3. CASE key \in JoinKeys /\ <<sink, key>> \in ResultPairs
  <2>1. PICK j \in Joins : j = JoinBefore(sink) /\ sink = SinkOf(j, key)
    BY <1>3 DEF Joins, JoinBefore, SinkOf, WriterOf, ResultPairs, JoinKeys
  <2> QED
    BY <1>1, <1>3, <2>1, JoinsAtRest
<1>4. CASE key \notin JoinKeys /\ <<sink, key>> \in ResultPairs
  <2>1. <<JoinBefore(sink), key>> \notin expired
    BY <1>4 DEF ExactInv
  <2>2. \/ sink = "writeCycleAnalytics" /\ key = "cycle"
        \/ sink = "writeSubstreamAnalytics" /\ key = "substream"
    BY <1>4 DEF ResultPairs, JoinKeys
  <2>3. ~Open(Result(sink, key))
    BY NothingOpenAtRest DEF Result
  <2>4. Done(sink, key)
    BY <2>2, <2>3 DEF ExactInv, SinkInv
  <2> QED
    BY <1>1, <1>4, <2>1, <2>4
<1> QED
  BY <1>2, <1>3, <1>4

LEMMA InvResultsExact == AInv /\ ExactInv => ResultsAreExact
<1> SUFFICES ASSUME AInv, ExactInv, Inputs \subseteq begun, Quiet, NEW sink \in Sinks, NEW key \in keys
             PROVE  Cardinality(ResultsAt(sink, key)) =
                      IF ExpectedAt(sink, key) /\ <<JoinBefore(sink), key>> \notin expired THEN 1 ELSE 0
  BY DEF ResultsAreExact
<1>1. Done(sink, key) <=> ExpectedAt(sink, key) /\ <<JoinBefore(sink), key>> \notin expired
  BY DoneAtRest
<1>2. CASE Done(sink, key)
  <2>1. PICK k : ResultsAt(sink, key) = {k}
    <3>1. PICK k : k \in ResultsAt(sink, key)
      BY <1>2 DEF Done
    <3>2. \A n \in ResultsAt(sink, key) : n = k
      BY <3>1 DEF ResultsAt, ExactInv, DeliveredInv
    <3> QED
      BY <3>1, <3>2
  <2>2. Cardinality({k}) = 1
    BY FS_Singleton
  <2> QED
    BY <1>1, <1>2, <2>1, <2>2
<1>3. CASE ~Done(sink, key)
  <2>1. ResultsAt(sink, key) = {}
    BY <1>3 DEF Done
  <2>2. Cardinality({}) = 0
    BY FS_EmptySet
  <2> QED
    BY <1>1, <1>3, <2>1, <2>2
<1> QED
  BY <1>2, <1>3

\* Once the inputs have been handled each sink has the result it waits for
\* exactly once, and no result that it does not: whatever the inputs that run
\* together, the order in which their threads reach the sides of the joins, and
\* the stops, crashes and starts before.  Only the TTL of a join loses a result.
THEOREM ResultsComeOnce == Spec => []ResultsAreExact
<1>1. Init => AInv /\ ExactInv
  BY AInvInitially, ExactInvOfNoStreams DEF Init
<1>2. AInv /\ ExactInv /\ [Next]_vars => (AInv /\ ExactInv)'
  BY AInvPreserved, ExactInvPreserved
<1> QED
  BY <1>1, <1>2, InvResultsExact, PTL DEF Spec

=============================================================================
