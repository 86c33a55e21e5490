---------------------------- MODULE StreamGraph ----------------------------
(***************************************************************************)
(* The stream graphs of the three C++ services, twice: as the              *)
(* configuration describes them (config.generated.hpp: the sources of each *)
(* stream, the endpoint of each input and sink, the connector of each      *)
(* endpoint) and as streams.generated.cpp and endpoints.generated.cpp link *)
(* them.  The configuration lists the streams in the order of their names; *)
(* the definitions keep its order and split it in parts.                   *)
(*                                                                         *)
(* A source stream whose value is a result, of the graph behind it or of a *)
(* sub-stream, has the stream that produces it as its source; an input     *)
(* without a result has none.                                              *)
(***************************************************************************)
EXTENDS Naturals, Sequences

-----------------------------------------------------------------------------
(* analyticsservice, as configured *)

AnalyticsSourcesAdvanceToConsume ==
  [ advanceCycleAnalytics         |-> <<"mergeCycleAnalytics">>,
    analyticsOrders               |-> << >>,
    analyticsPayments             |-> << >>,
    analyticsSchedule             |-> << >>,
    analyticsShipments            |-> << >>,
    analyzeAnalyticsSubstream     |-> <<"buildSubstreamAnalyticsResult">>,
    buildSubstreamAnalyticsResult |-> <<"analyzeAnalyticsSubstream">>,
    completeCycleAnalytics        |-> <<"splitCycleAnalytics">>,
    consumeOrderProcessed         |-> <<"countOrderProcessed">> ]

AnalyticsSourcesContinueToKeyOrders ==
  [ continueCycleAnalytics    |-> <<"splitCycleAnalytics">>,
    countOrderProcessed       |-> <<"consumeOrderProcessed">>,
    cycleAnalyticsInput       |-> << >>,
    cycleAnalyticsLink        |-> <<"continueCycleAnalytics">>,
    highValueAnalytics        |-> <<"routeAnalyticsResult">>,
    invokeAnalyticsSubstream  |-> <<"substreamAnalyticsInput">>,
    joinOrderPaymentAnalytics |-> <<"keyOrdersForJoin", "keyPaymentsForJoin">>,
    keyOrdersForJoin          |-> <<"splitAnalyticsOrders">> ]

AnalyticsSourcesKeyOrdersToMultiJoin ==
  [ keyOrdersForMultiJoin    |-> <<"splitAnalyticsOrders">>,
    keyPaymentsForJoin       |-> <<"splitAnalyticsPayments">>,
    keyPaymentsForMultiJoin  |-> <<"splitAnalyticsPayments">>,
    keyShipmentsForMultiJoin |-> <<"analyticsShipments">>,
    mergeCycleAnalytics      |-> <<"cycleAnalyticsInput", "cycleAnalyticsLink">>,
    multiJoinAnalyticsEvents |-> <<"keyOrdersForMultiJoin", "keyPaymentsForMultiJoin",
                                   "keyShipmentsForMultiJoin">> ]

AnalyticsSourcesRouteToWrite ==
  [ routeAnalyticsResult    |-> <<"multiJoinAnalyticsEvents">>,
    splitAnalyticsOrders    |-> <<"analyticsOrders">>,
    splitAnalyticsPayments  |-> <<"analyticsPayments">>,
    splitCycleAnalytics     |-> <<"advanceCycleAnalytics">>,
    standardAnalytics       |-> <<"routeAnalyticsResult">>,
    substreamAnalyticsInput |-> << >>,
    writeCycleAnalytics     |-> <<"completeCycleAnalytics">>,
    writeHighValueAnalytics |-> <<"highValueAnalytics">>,
    writeJoinedAnalytics    |-> <<"joinOrderPaymentAnalytics">>,
    writeStandardAnalytics  |-> <<"standardAnalytics">>,
    writeSubstreamAnalytics |-> <<"invokeAnalyticsSubstream">> ]

\* Two parts as one.
Together(f, g) ==
  [s \in DOMAIN f \cup DOMAIN g |-> IF s \in DOMAIN f THEN f[s] ELSE g[s]]

AnalyticsSources ==
  Together(Together(AnalyticsSourcesAdvanceToConsume, AnalyticsSourcesContinueToKeyOrders),
           Together(AnalyticsSourcesKeyOrdersToMultiJoin, AnalyticsSourcesRouteToWrite))

\* The endpoint a sink writes to, and the connector of an endpoint.
AnalyticsSinkEndpoint ==
  [ writeCycleAnalytics     |-> "cycleAnalyticsResult",
    writeHighValueAnalytics |-> "highValueAnalytics",
    writeJoinedAnalytics    |-> "joinedAnalytics",
    writeStandardAnalytics  |-> "standardAnalytics",
    writeSubstreamAnalytics |-> "substreamAnalyticsResult" ]

AnalyticsConnector ==
  [ analyticsFunctions |-> "function", localCron |-> "cron", orderEvents |-> "kafka" ]

AnalyticsEndpoints ==
  [ analyticsOrders |-> "analyticsFunctions", analyticsPayments |-> "analyticsFunctions",
    analyticsSchedule |-> "localCron", analyticsShipments |-> "analyticsFunctions",
    cycleAnalyticsInput |-> "analyticsFunctions", cycleAnalyticsResult |-> "analyticsFunctions",
    highValueAnalytics |-> "analyticsFunctions", joinedAnalytics |-> "analyticsFunctions",
    orderProcessed |-> "orderEvents", standardAnalytics |-> "analyticsFunctions",
    substreamAnalyticsInput |-> "analyticsFunctions",
    substreamAnalyticsResult |-> "analyticsFunctions" ]

-----------------------------------------------------------------------------
(* analyticsservice, as built *)

\* connect, join, multiJoin, sink and process of ServiceStreams::build.
AnalyticsConsumers ==
  [ analyticsOrders               |-> <<"splitAnalyticsOrders">>,
    splitAnalyticsOrders          |-> <<"keyOrdersForJoin", "keyOrdersForMultiJoin">>,
    keyOrdersForJoin              |-> <<"joinOrderPaymentAnalytics">>,
    keyOrdersForMultiJoin         |-> <<"multiJoinAnalyticsEvents">>,
    analyticsPayments             |-> <<"splitAnalyticsPayments">>,
    splitAnalyticsPayments        |-> <<"keyPaymentsForJoin", "keyPaymentsForMultiJoin">>,
    keyPaymentsForJoin            |-> <<"joinOrderPaymentAnalytics">>,
    keyPaymentsForMultiJoin       |-> <<"multiJoinAnalyticsEvents">>,
    analyticsShipments            |-> <<"keyShipmentsForMultiJoin">>,
    keyShipmentsForMultiJoin      |-> <<"multiJoinAnalyticsEvents">>,
    joinOrderPaymentAnalytics     |-> <<"writeJoinedAnalytics">>,
    multiJoinAnalyticsEvents      |-> <<"routeAnalyticsResult">>,
    routeAnalyticsResult          |-> <<"highValueAnalytics", "standardAnalytics">>,
    highValueAnalytics            |-> <<"writeHighValueAnalytics">>,
    standardAnalytics             |-> <<"writeStandardAnalytics">>,
    cycleAnalyticsInput           |-> <<"mergeCycleAnalytics">>,
    cycleAnalyticsLink            |-> <<"mergeCycleAnalytics">>,
    mergeCycleAnalytics           |-> <<"advanceCycleAnalytics">>,
    advanceCycleAnalytics         |-> <<"splitCycleAnalytics">>,
    splitCycleAnalytics           |-> <<"completeCycleAnalytics", "continueCycleAnalytics">>,
    completeCycleAnalytics        |-> <<"writeCycleAnalytics">>,
    substreamAnalyticsInput       |-> <<"invokeAnalyticsSubstream">>,
    invokeAnalyticsSubstream      |-> <<"writeSubstreamAnalytics">>,
    analyzeAnalyticsSubstream     |-> <<"buildSubstreamAnalyticsResult">>,
    consumeOrderProcessed         |-> <<"countOrderProcessed">> ]

\* (defect) the cycle link is fed by the stream before the filter
AnalyticsResultOfUnfiltered ==
  [ consumeOrderProcessed     |-> "countOrderProcessed",
    cycleAnalyticsLink        |-> "advanceCycleAnalytics",
    analyzeAnalyticsSubstream |-> "buildSubstreamAnalyticsResult" ]

\* setSource: the result of the Kafka handler, of the cycle and of the sub-stream.
AnalyticsResultOf ==
  [ consumeOrderProcessed     |-> "countOrderProcessed",
    cycleAnalyticsLink        |-> "continueCycleAnalytics",
    analyzeAnalyticsSubstream |-> "buildSubstreamAnalyticsResult" ]

\* initDataSinks: the function behind each binding.
AnalyticsBindings ==
  [ writeCycleAnalytics     |-> "cycleAnalyticsResult",
    writeJoinedAnalytics    |-> "joinedAnalytics",
    writeHighValueAnalytics |-> "highValueAnalytics",
    writeStandardAnalytics  |-> "standardAnalytics",
    writeSubstreamAnalytics |-> "substreamAnalyticsResult" ]

\* initDataSources: the endpoints made, and the kind of connector each one uses.
AnalyticsDataSources ==
  [ orderProcessed          |-> "kafka",
    analyticsOrders         |-> "function",
    analyticsPayments       |-> "function",
    analyticsShipments      |-> "function",
    cycleAnalyticsInput     |-> "function",
    substreamAnalyticsInput |-> "function",
    analyticsSchedule       |-> "cron" ]

-----------------------------------------------------------------------------
(* orderservice *)

OrderSources ==
  [ mapOrderItemResultToOrderState |-> <<"processOrderItem">>,
    mapToOrderProcessed   |-> <<"splitOrderResult">>,
    mapToOrderState       |-> <<"softDeadline">>,
    mergeResults          |-> <<"mapToOrderState", "mapOrderItemResultToOrderState",
                                "processOrderItemError">>,
    processOrder          |-> <<"splitOrderResult">>,
    processOrderItem      |-> <<"processOrderItems">>,
    processOrderItems     |-> <<"splitPipeline">>,
    publishOrderProcessed |-> <<"mapToOrderProcessed">>,
    softDeadline          |-> <<"splitPipeline">>,
    splitOrderResult      |-> <<"mergeResults">>,
    splitPipeline         |-> <<"processOrder">> ]

OrderConsumers ==
  [ processOrder          |-> <<"splitPipeline">>,
    splitPipeline         |-> <<"processOrderItems", "softDeadline">>,
    processOrderItems     |-> <<"processOrderItem">>,
    processOrderItem      |-> <<"mapOrderItemResultToOrderState">>,
    processOrderItemError |-> <<"mergeResults">>,
    mapOrderItemResultToOrderState |-> <<"mergeResults">>,
    softDeadline          |-> <<"mapToOrderState">>,
    mapToOrderState       |-> <<"mergeResults">>,
    mergeResults          |-> <<"splitOrderResult">>,
    splitOrderResult      |-> <<"mapToOrderProcessed">>,
    mapToOrderProcessed   |-> <<"publishOrderProcessed">> ]

OrderResultOf == [ processOrder |-> "splitOrderResult" ]

\* The links with call semantics of their own; all of them are function calls.
OrderLinks ==
  { <<"mergeResults", "splitOrderResult">>, <<"processOrder", "splitPipeline">>,
    <<"splitPipeline", "processOrderItems">>, <<"splitPipeline", "softDeadline">> }

-----------------------------------------------------------------------------
(* inventoryservice *)

InventorySources ==
  [ getInventoryItemData  |-> <<"processInventoryItem">>,
    mapInventoryItemError |-> <<"getInventoryItemError">>,
    mergeInventoryResult  |-> <<"getInventoryItemData", "mapInventoryItemError">>,
    processInventoryItem  |-> <<"mergeInventoryResult">> ]

InventoryConsumers ==
  [ processInventoryItem  |-> <<"getInventoryItemData">>,
    getInventoryItemData  |-> <<"mergeInventoryResult">>,
    getInventoryItemError |-> <<"mapInventoryItemError">>,
    mapInventoryItemError |-> <<"mergeInventoryResult">> ]

InventoryResultOf == [ processInventoryItem |-> "mergeInventoryResult" ]

InventoryLinks ==
  { <<"getInventoryItemData", "mergeInventoryResult">>,
    <<"processInventoryItem", "getInventoryItemData">> }

-----------------------------------------------------------------------------
(* The two descriptions compared *)

Elements(s) == { s[k] : k \in DOMAIN s }

Linked(consumers, from, to) == from \in DOMAIN consumers /\ to \in Elements(consumers[from])

GraphAgrees(sources, consumers, resultOf) ==
  /\ \A to \in DOMAIN sources :
       Elements(sources[to]) =
         { from \in DOMAIN consumers : Linked(consumers, from, to) } \cup
         { resultOf[s] : s \in DOMAIN resultOf \cap {to} }
  /\ \A from \in DOMAIN consumers : Elements(consumers[from]) \subseteq DOMAIN sources

LinksAgree(links, consumers) == \A l \in links : Linked(consumers, l[1], l[2])
=============================================================================
