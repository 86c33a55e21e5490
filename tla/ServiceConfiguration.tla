------------------------ MODULE ServiceConfiguration ------------------------
(***************************************************************************)
(* The configuration of the three C++ services (config.generated.hpp): the *)
(* identifiers, objects, types and listeners each one is generated with,   *)
(* the fields its YAML file may set (ApplyConfig), the variables its       *)
(* environment may set (ApplyEnvironment), and what becomes of a field     *)
(* that has a default, a place in the file and a variable.                 *)
(*                                                                         *)
(* Fields are grouped by their object; a field is given by its kind, on    *)
(* which its conversions depend.                                           *)
(***************************************************************************)
EXTENDS StreamGraph

\* The identifiers first, first + 1, ... of names, in this order.
Numbered(first, names) ==
  [ name \in Elements(names) |-> first + (CHOOSE k \in DOMAIN names : names[k] = name) - 1 ]

-----------------------------------------------------------------------------
(* analyticsservice *)

AnalyticsIds ==
  [ streams |-> Numbered(1,
      <<"analyticsSchedule", "consumeOrderProcessed", "countOrderProcessed", "analyticsOrders",
        "analyticsPayments", "analyticsShipments", "splitAnalyticsOrders", "splitAnalyticsPayments",
        "advanceCycleAnalytics", "completeCycleAnalytics", "continueCycleAnalytics",
        "cycleAnalyticsInput", "cycleAnalyticsLink", "mergeCycleAnalytics", "splitCycleAnalytics",
        "writeCycleAnalytics", "joinOrderPaymentAnalytics", "keyOrdersForJoin", "keyPaymentsForJoin",
        "writeJoinedAnalytics", "highValueAnalytics", "keyOrdersForMultiJoin",
        "keyPaymentsForMultiJoin", "keyShipmentsForMultiJoin", "multiJoinAnalyticsEvents",
        "routeAnalyticsResult", "standardAnalytics", "writeHighValueAnalytics",
        "writeStandardAnalytics", "analyzeAnalyticsSubstream", "buildSubstreamAnalyticsResult",
        "invokeAnalyticsSubstream", "substreamAnalyticsInput", "writeSubstreamAnalytics">>),
    endpoints |-> Together(
      Numbered(1,
        <<"analyticsOrders", "analyticsPayments", "analyticsShipments", "cycleAnalyticsInput",
          "cycleAnalyticsResult", "highValueAnalytics", "joinedAnalytics", "standardAnalytics",
          "substreamAnalyticsInput", "substreamAnalyticsResult">>),
      [ analyticsSchedule |-> 12, orderProcessed |-> 14 ]),
    dataConnectors |-> [ analyticsFunctions |-> 1, localCron |-> 3, orderEvents |-> 4 ] ]

AnalyticsTypes ==
  [ analyticsEvent |-> <<"struct", "own">>, analyticsKey |-> <<"string", "own">>,
    analyticsResult |-> <<"struct", "own">>, automationJob |-> <<"string", "model">>,
    orderProcessed |-> <<"struct", "model">> ]

\* The sections of Config and the objects in each one.
AnalyticsObjects ==
  [ services |-> {"analyticsService"}, streams |-> DOMAIN AnalyticsSources,
    dataConnectors |-> DOMAIN AnalyticsConnector, endpoints |-> DOMAIN AnalyticsEndpoints,
    pools |-> {}, links |-> {}, modules |-> {"inventoryServiceApi", "model", "orderServiceApi"},
    types |-> DOMAIN AnalyticsTypes ]

AnalyticsListeners == [ http |-> 9093, grpc |-> 9203 ]

\* ApplyConfig: the fields the file may set.
AnalyticsFields ==
  [ analyticsSchedule |-> [ enabled |-> "bool", missedRunPolicy |-> "enum", overlapPolicy |-> "enum",
                            schedule |-> "string", timezone |-> "string", tracingEnabled |-> "bool" ],
    analyticsService  |-> [ defaultGrpcTimeout |-> "int", environment |-> "environment",
                            grpcHost |-> "string", grpcPort |-> "int",
                            httpHost |-> "string", httpPort |-> "port" ],
    orderEvents       |-> [ brokers |-> "string", password |-> "string", saslMechanism |-> "enum",
                            securityProtocol |-> "enum", username |-> "string" ],
    orderProcessed    |-> [ enabled |-> "bool" ] ]

\* ApplyConfig: the objects whose properties the file may extend.
AnalyticsCustom ==
  [ services |-> {"analyticsService"},
    streams  |->
      {"advanceCycleAnalytics", "analyticsOrders", "analyticsPayments", "analyticsSchedule",
       "analyticsShipments", "analyzeAnalyticsSubstream", "buildSubstreamAnalyticsResult",
       "completeCycleAnalytics", "consumeOrderProcessed", "continueCycleAnalytics",
       "countOrderProcessed", "cycleAnalyticsInput", "cycleAnalyticsLink", "highValueAnalytics",
       "invokeAnalyticsSubstream", "joinOrderPaymentAnalytics", "keyOrdersForJoin",
       "keyOrdersForMultiJoin", "keyPaymentsForJoin", "keyPaymentsForMultiJoin",
       "keyShipmentsForMultiJoin", "mergeCycleAnalytics", "multiJoinAnalyticsEvents",
       "routeAnalyticsResult", "splitAnalyticsOrders", "splitAnalyticsPayments",
       "splitCycleAnalytics", "standardAnalytics", "substreamAnalyticsInput",
       "writeCycleAnalytics", "writeHighValueAnalytics", "writeJoinedAnalytics",
       "writeStandardAnalytics", "writeSubstreamAnalytics"},
    dataConnectors |-> {"analyticsFunctions", "localCron", "orderEvents"},
    endpoints |->
      {"analyticsOrders", "analyticsPayments", "analyticsSchedule", "analyticsShipments",
       "cycleAnalyticsInput", "cycleAnalyticsResult", "highValueAnalytics", "joinedAnalytics",
       "orderProcessed", "standardAnalytics", "substreamAnalyticsInput", "substreamAnalyticsResult"},
    pools |-> {}, links |-> {}, modules |-> {"inventoryServiceApi", "model", "orderServiceApi"},
    types |-> {"analyticsEvent", "analyticsKey", "analyticsResult", "automationJob", "orderProcessed"} ]

\* ApplyEnvironment: the variables, and the field each one sets.
AnalyticsVariables ==
  [ ANALYTICS_SCHEDULE_ENABLED             |-> <<"analyticsSchedule", "enabled", "bool">>,
    ANALYTICS_SCHEDULE_MISSED_RUN_POLICY   |-> <<"analyticsSchedule", "missedRunPolicy", "enum">>,
    ANALYTICS_SCHEDULE_OVERLAP_POLICY      |-> <<"analyticsSchedule", "overlapPolicy", "enum">>,
    ANALYTICS_SCHEDULE_SCHEDULE            |-> <<"analyticsSchedule", "schedule", "string">>,
    ANALYTICS_SCHEDULE_TIMEZONE            |-> <<"analyticsSchedule", "timezone", "string">>,
    ANALYTICS_SCHEDULE_TRACING_ENABLED     |-> <<"analyticsSchedule", "tracingEnabled", "bool">>,
    ANALYTICS_SERVICE_DEFAULT_GRPC_TIMEOUT |-> <<"analyticsService", "defaultGrpcTimeout", "int">>,
    ANALYTICS_SERVICE_ENVIRONMENT          |-> <<"analyticsService", "environment", "environment">>,
    ANALYTICS_SERVICE_GRPC_HOST            |-> <<"analyticsService", "grpcHost", "string">>,
    ANALYTICS_SERVICE_GRPC_PORT            |-> <<"analyticsService", "grpcPort", "int">>,
    ANALYTICS_SERVICE_HTTP_HOST            |-> <<"analyticsService", "httpHost", "string">>,
    ANALYTICS_SERVICE_HTTP_PORT            |-> <<"analyticsService", "httpPort", "port">>,
    ORDER_EVENTS_BROKERS                   |-> <<"orderEvents", "brokers", "string">>,
    ORDER_EVENTS_PASSWORD                  |-> <<"orderEvents", "password", "string">>,
    ORDER_EVENTS_SASL_MECHANISM            |-> <<"orderEvents", "saslMechanism", "enum">>,
    ORDER_EVENTS_SECURITY_PROTOCOL         |-> <<"orderEvents", "securityProtocol", "enum">>,
    ORDER_EVENTS_USERNAME                  |-> <<"orderEvents", "username", "string">>,
    ORDER_PROCESSED_ENABLED                |-> <<"orderProcessed", "enabled", "bool">> ]

-----------------------------------------------------------------------------
(* orderservice *)

OrderIds ==
  [ streams |-> Numbered(78,
      <<"processOrderItemError", "mapOrderItemResultToOrderState", "mapToOrderProcessed",
        "mapToOrderState", "mergeResults", "processOrder", "processOrderItem", "processOrderItems",
        "publishOrderProcessed", "softDeadline", "splitOrderResult", "splitPipeline">>),
    endpoints |-> [ orderProcessed |-> 14, processOrder |-> 15, processOrderItem |-> 11 ],
    dataConnectors |-> [ inventoryServiceApi |-> 2, orderEvents |-> 4, orderServiceApi |-> 5 ] ]

OrderTypes ==
  [ order |-> <<"struct", "own">>, orderItem |-> <<"struct", "model">>,
    orderItemResult |-> <<"struct", "model">>, orderProcessed |-> <<"struct", "model">>,
    orderState |-> <<"struct", "own">> ]

OrderConnector == [ inventoryServiceApi |-> "grpc", orderEvents |-> "kafka", orderServiceApi |-> "http" ]

OrderEndpoints ==
  [ orderProcessed |-> "orderEvents", processOrder |-> "orderServiceApi",
    processOrderItem |-> "inventoryServiceApi" ]

OrderObjects ==
  [ services |-> {"orderService"}, streams |-> DOMAIN OrderSources,
    dataConnectors |-> DOMAIN OrderConnector, endpoints |-> DOMAIN OrderEndpoints,
    pools |-> {"defaultPool"},
    links |-> {"mergeResultsToSplitOrderResult", "processOrderToSplitPipeline",
               "splitPipelineToProcessOrderItems", "splitPipelineToSoftDeadline"},
    modules |-> {"inventoryServiceApi", "model", "orderServiceApi"}, types |-> DOMAIN OrderTypes ]

OrderListeners == [ http |-> 9091, grpc |-> 9201 ]

OrderFields ==
  [ defaultPool         |-> [ executorsCount |-> "int" ],
    inventoryServiceApi |-> [ address |-> "string", connectionsCount |-> "count" ],
    orderEvents         |-> [ brokers |-> "string", password |-> "string", saslMechanism |-> "enum",
                              securityProtocol |-> "enum", username |-> "string" ],
    orderProcessed      |-> [ enabled |-> "bool" ],
    orderService        |-> [ defaultGrpcTimeout |-> "int", environment |-> "environment",
                              grpcHost |-> "string", grpcPort |-> "int",
                              httpHost |-> "string", httpPort |-> "port" ],
    softDeadline        |-> [ duration |-> "int" ] ]

OrderCustom ==
  [ services |-> {"orderService"},
    streams  |->
      {"mapOrderItemResultToOrderState", "mapToOrderProcessed", "mapToOrderState", "mergeResults",
       "processOrder", "processOrderItem", "processOrderItems", "publishOrderProcessed",
       "softDeadline", "splitOrderResult", "splitPipeline"},
    dataConnectors |-> {"inventoryServiceApi", "orderEvents", "orderServiceApi"},
    endpoints |-> {"orderProcessed", "processOrder", "processOrderItem"},
    pools |-> {"defaultPool"},
    links |-> {"mergeResultsToSplitOrderResult", "processOrderToSplitPipeline",
               "splitPipelineToProcessOrderItems", "splitPipelineToSoftDeadline"},
    modules |-> {"inventoryServiceApi", "model", "orderServiceApi"},
    types |-> {"order", "orderItem", "orderItemResult", "orderProcessed", "orderState"} ]

OrderVariables ==
  [ DEFAULT_POOL_EXECUTORS_COUNT            |-> <<"defaultPool", "executorsCount", "int">>,
    INVENTORY_SERVICE_API_ADDRESS           |-> <<"inventoryServiceApi", "address", "string">>,
    INVENTORY_SERVICE_API_CONNECTIONS_COUNT |-> <<"inventoryServiceApi", "connectionsCount", "count">>,
    ORDER_EVENTS_BROKERS                    |-> <<"orderEvents", "brokers", "string">>,
    ORDER_EVENTS_PASSWORD                   |-> <<"orderEvents", "password", "string">>,
    ORDER_EVENTS_SASL_MECHANISM             |-> <<"orderEvents", "saslMechanism", "enum">>,
    ORDER_EVENTS_SECURITY_PROTOCOL          |-> <<"orderEvents", "securityProtocol", "enum">>,
    ORDER_EVENTS_USERNAME                   |-> <<"orderEvents", "username", "string">>,
    ORDER_PROCESSED_ENABLED                 |-> <<"orderProcessed", "enabled", "bool">>,
    ORDER_SERVICE_DEFAULT_GRPC_TIMEOUT      |-> <<"orderService", "defaultGrpcTimeout", "int">>,
    ORDER_SERVICE_ENVIRONMENT               |-> <<"orderService", "environment", "environment">>,
    ORDER_SERVICE_GRPC_HOST                 |-> <<"orderService", "grpcHost", "string">>,
    ORDER_SERVICE_GRPC_PORT                 |-> <<"orderService", "grpcPort", "int">>,
    ORDER_SERVICE_HTTP_HOST                 |-> <<"orderService", "httpHost", "string">>,
    ORDER_SERVICE_HTTP_PORT                 |-> <<"orderService", "httpPort", "port">>,
    SOFT_DEADLINE_DURATION                  |-> <<"softDeadline", "duration", "int">> ]

-----------------------------------------------------------------------------
(* inventoryservice *)

\* (defect) the connector is numbered anew
InventoryIdsRenumbered ==
  [ streams |-> Numbered(73,
      <<"getInventoryItemData", "getInventoryItemError", "mapInventoryItemError",
        "mergeInventoryResult", "processInventoryItem">>),
    endpoints |-> [ processOrderItem |-> 11 ],
    dataConnectors |-> [ inventoryServiceApi |-> 5 ] ]

InventoryIds ==
  [ streams |-> Numbered(73,
      <<"getInventoryItemData", "getInventoryItemError", "mapInventoryItemError",
        "mergeInventoryResult", "processInventoryItem">>),
    endpoints |-> [ processOrderItem |-> 11 ],
    dataConnectors |-> [ inventoryServiceApi |-> 2 ] ]

InventoryTypes ==
  [ inventoryFailure |-> <<"struct", "own">>, orderItem |-> <<"struct", "model">>,
    orderItemResult |-> <<"struct", "model">> ]

InventoryEndpoints == [ processOrderItem |-> "inventoryServiceApi" ]

InventoryObjects ==
  [ services |-> {"inventoryService"}, streams |-> DOMAIN InventorySources,
    dataConnectors |-> {"inventoryServiceApi"}, endpoints |-> DOMAIN InventoryEndpoints,
    pools |-> {"inventoryPriorityWorkers"},
    links |-> {"getInventoryItemDataToMergeInventoryResult",
               "processInventoryItemToGetInventoryItemData"},
    modules |-> {"inventoryServiceApi", "model", "orderServiceApi"}, types |-> DOMAIN InventoryTypes ]

InventoryListeners == [ http |-> 9092, grpc |-> 9202 ]

InventoryFields ==
  [ inventoryPriorityWorkers |-> [ executorsCount |-> "int" ],
    inventoryServiceApi |-> [ address |-> "string", connectionsCount |-> "int" ],
    inventoryService    |-> [ defaultGrpcTimeout |-> "int", environment |-> "environment",
                              grpcHost |-> "string", grpcPort |-> "listener",
                              httpHost |-> "string", httpPort |-> "port" ] ]

InventoryCustom ==
  [ services |-> {"inventoryService"},
    streams  |-> {"getInventoryItemData", "mapInventoryItemError", "mergeInventoryResult",
                  "processInventoryItem"},
    dataConnectors |-> {"inventoryServiceApi"}, endpoints |-> {"processOrderItem"},
    pools |-> {"inventoryPriorityWorkers"},
    links |-> {"getInventoryItemDataToMergeInventoryResult",
               "processInventoryItemToGetInventoryItemData"},
    modules |-> {"inventoryServiceApi", "model", "orderServiceApi"},
    types |-> {"inventoryFailure", "orderItem", "orderItemResult"} ]

InventoryVariables ==
  [ INVENTORY_PRIORITY_WORKERS_EXECUTORS_COUNT |-> <<"inventoryPriorityWorkers", "executorsCount", "int">>,
    INVENTORY_SERVICE_API_ADDRESS              |-> <<"inventoryServiceApi", "address", "string">>,
    INVENTORY_SERVICE_API_CONNECTIONS_COUNT    |-> <<"inventoryServiceApi", "connectionsCount", "int">>,
    INVENTORY_SERVICE_DEFAULT_GRPC_TIMEOUT     |-> <<"inventoryService", "defaultGrpcTimeout", "int">>,
    INVENTORY_SERVICE_ENVIRONMENT              |-> <<"inventoryService", "environment", "environment">>,
    INVENTORY_SERVICE_GRPC_HOST                |-> <<"inventoryService", "grpcHost", "string">>,
    INVENTORY_SERVICE_GRPC_PORT                |-> <<"inventoryService", "grpcPort", "listener">>,
    INVENTORY_SERVICE_HTTP_HOST                |-> <<"inventoryService", "httpHost", "string">>,
    INVENTORY_SERVICE_HTTP_PORT                |-> <<"inventoryService", "httpPort", "port">> ]

-----------------------------------------------------------------------------
(* The value of a field.  It has come from the default, the file or the    *)
(* environment, as one of the texts below; Rejected stands for a           *)
(* conversion that throws.                                                 *)
(*                                                                         *)
(*   valid    a text of the kind                                           *)
(*   other    converted to a value the code may refuse later: yes for a    *)
(*            bool, 70000 for a port, 0 for a count                        *)
(*   empty    the empty text                                               *)
(*   invalid  not a text of the kind, for an integer also one too large    *)

Rejected == [ from |-> "nowhere", text |-> "invalid" ]

Default == [ from |-> "default", text |-> "valid" ]

Accepted(value) == value # Rejected

\* A field that is not there, or null, leaves the default alone.
ApplyConfig(value, text) ==
  CASE text = "absent"  -> value
    [] text = "invalid" -> Rejected
    [] OTHER            -> [ from |-> "file", text |-> text ]

\* A timeout or duration; the port of the HTTP server; a number of connections;
\* the port of the gRPC server.
IntegerKinds == {"int", "port", "count", "listener"}

CheckedKinds == {"port", "count", "listener"}

ParseEnvironmentInt(text) == text \in {"valid", "other"}

ParseEnvironment(text) == text \in {"valid", "empty"}

\* Only true and false are booleans here, unlike in the file; a string is
\* taken as it is.
Converts(kind, text) ==
  CASE kind \in IntegerKinds    -> ParseEnvironmentInt(text)
    [] kind = "environment"      -> ParseEnvironment(text)
    [] kind \in {"bool", "enum"} -> text = "valid"
    [] kind = "string"           -> TRUE

ApplyEnvironment(kind, value, text) ==
  CASE ~Accepted(value) \/ text = "unset" -> value
    [] ~Converts(kind, text)              -> Rejected
    [] OTHER                              -> [ from |-> "environment", text |-> text ]

\* The makers of the HTTP server and of the gRPC client check what they use, and
\* a gRPC server does not start at an impossible address.
Usable(kind, value) == ~(kind \in CheckedKinds /\ value.text = "other")

-----------------------------------------------------------------------------
(* The tables compared *)

FieldsSet(fields) ==
  UNION { { <<object, name, fields[object][name]>> : name \in DOMAIN fields[object] }
          : object \in DOMAIN fields }

\* Each field of the file has exactly one variable, of the same kind.
VariablesAgree(variables, fields) ==
  /\ { variables[v] : v \in DOMAIN variables } = FieldsSet(fields)
  /\ \A v, w \in DOMAIN variables : variables[v] = variables[w] => v = w

\* Identifiers are unique, and an object two services share has one.
IdsAgree(ids, others) ==
  \A section \in {"streams", "endpoints", "dataConnectors"} :
    \A n \in DOMAIN ids[section], m \in DOMAIN others[section] :
      n = m <=> ids[section][n] = others[section][m]

\* A stream of errors has an identifier and no object.
ErrorStreams == {"processOrderItemError", "getInventoryItemError"}

ObjectsAgree(objects, custom, ids) ==
  /\ custom = objects
  /\ objects.streams = DOMAIN ids.streams \ ErrorStreams
  /\ objects.endpoints = DOMAIN ids.endpoints
  /\ objects.dataConnectors = DOMAIN ids.dataConnectors

\* Services that share a type take it from the model.
TypesAgree(types, others) ==
  \A t \in DOMAIN types \cap DOMAIN others : types[t] = others[t] /\ types[t][2] = "model"

\* A variable two services read means the same to both, to the kind.
SharedVariablesAgree(variables, others) ==
  \A v \in DOMAIN variables \cap DOMAIN others :
    /\ variables[v][1] = others[v][1]
    /\ variables[v][2] = others[v][2]
=============================================================================
