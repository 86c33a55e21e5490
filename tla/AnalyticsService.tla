-------------------------- MODULE AnalyticsService --------------------------
(***************************************************************************)
(* analyticsservice: how ServiceGenerated::start puts its parts together,  *)
(* the example streams (join, multi-join, cycle, sub-stream) that run when *)
(* its data sources start, and the Kafka handler of EventDelivery, which   *)
(* starts, stops and crashes with it.                                      *)
(*                                                                         *)
(* A link is a function call, so what an input sets off is a depth-first   *)
(* walk of the graph: stack[x] holds the calls that the thread of input x  *)
(* has still to make.  The threads of different inputs interleave.         *)
(*                                                                         *)
(* servicelib is outside the repository.  What is assumed of it: a join    *)
(* keeps the values of each side by key, calls its function at each        *)
(* arrival under a lock, and forgets the key when the function returns     *)
(* true or when the TTL has passed, which may be at any moment; data       *)
(* sources start after ServiceApp::start was called, and stop lets the     *)
(* calls that are running end before the graph is released.                *)
(***************************************************************************)
EXTENDS StreamGraph, Integers, FiniteSets

CONSTANTS
  KeySets,                                     \* bound: the inputs that run together, by key
  Events, Confirmed, MaxStored, MaxResumptions \* as in EventDelivery

ASSUME BoundsAreNatural == MaxStored \in Nat /\ MaxResumptions \in Nat

VARIABLES
  stage,      \* how far start is, or whether the service stops
  maker,      \* makers_.invoke_analytics_substream: generated or custom
  function,   \* functions_.invoke_analytics_substream
  handle,     \* SubStreamHandle.stream_: unbound, bound or expired
  bindings,   \* the sink bindings that have a consume function
  keys,       \* the keys of the inputs of this behaviour
  begun,      \* the inputs produced so far
  stack,      \* the calls the thread of each input has still to make
  held,       \* what each join holds for a key: the vector of each side
  expired,    \* the joins and keys whose TTL has passed before they were complete
  delivered,  \* the results that sinks have accepted
  failed,     \* the streams a call of which has thrown
  outbox, partition, committed, first, handling, successful, unsuccessful,
  counted, resumptions, redelivered            \* as in EventDelivery

Delivery == INSTANCE EventDelivery

startVars    == <<stage, maker, function, handle, bindings>>
streamVars   == <<begun, stack, held, expired, delivered, failed>>
deliveryVars == <<outbox, partition, committed, first, handling, successful,
                  unsuccessful, counted, resumptions, redelivered>>
vars         == <<startVars, keys, streamVars, deliveryVars>>

-----------------------------------------------------------------------------
(* The data: events, what the sources produce, what the functions compute. *)

Value(key, value, kind) == [key |-> key, value |-> value, kind |-> kind]

Input(source, key, value, kind) == [source |-> source, value |-> Value(key, value, kind)]

OrderInputs == { Input("analyticsOrders", "high-value", 10, "order"),
                 Input("analyticsOrders", "standard", 1, "order") }

PaymentInputs == { Input("analyticsPayments", "high-value", 20, "payment"),
                   Input("analyticsPayments", "standard", 2, "payment") }

ShipmentInputs == { Input("analyticsShipments", "high-value", 30, "shipment"),
                    Input("analyticsShipments", "standard", 3, "shipment") }

CycleInput == Input("cycleAnalyticsInput", "cycle", 0, "cycle")

SubstreamInput == Input("substreamAnalyticsInput", "substream", 7, "input")

Produced == OrderInputs \cup PaymentInputs \cup ShipmentInputs \cup {CycleInput, SubstreamInput}

Inputs == { x \in Produced : x.value.key \in keys }

\* (defect) the cycle counter does not move
AdvanceStill(v) == v

Advance(v) == [v EXCEPT !.value = @ + 1]

\* (defect) off by one: the value that ends the cycle is not let out
CompletesLate(v) == v.value > 3

Completes(v) == v.value >= 3

Continues(v) == v.value < 3

BuildSubstreamResult(v) == Value(v.key, v.value * 2, "substream")

\* RouteAnalyticsResult: the branch of the Case, counted from 1.
Branch(v) == IF v.value >= 50 THEN 1 ELSE 2

\* JoinOrderPaymentAnalytics and MultiJoinAnalyticsEvents, once every side of
\* the join has a value: the first of each counts.
JoinResult(j, key, sides) ==
  LET front(k) == Head(sides[k]).value IN
  CASE j = "joinOrderPaymentAnalytics" -> Value(key, front(1) + front(2), "join")
    [] j = "multiJoinAnalyticsEvents"  -> Value(key, front(1) + front(2) + front(3), "multi")

\* Until then they return false.
Complete(sides) == \A k \in DOMAIN sides : sides[k] # << >>

\* What each sink checks; it throws at any other value.
CycleAccepts(v)     == v = Value("cycle", 3, "cycle")
HighValueAccepts(v) == v = Value("high-value", 60, "multi")
StandardAccepts(v)  == v = Value("standard", 6, "multi")
SubstreamAccepts(v) == v = Value("substream", 14, "substream")
JoinedAccepts(v)    == v \in {Value("high-value", 30, "join"), Value("standard", 3, "join")}

Accepts(endpoint, v) ==
  CASE endpoint = "cycleAnalyticsResult"     -> CycleAccepts(v)
    [] endpoint = "highValueAnalytics"       -> HighValueAccepts(v)
    [] endpoint = "standardAnalytics"        -> StandardAccepts(v)
    [] endpoint = "substreamAnalyticsResult" -> SubstreamAccepts(v)
    [] endpoint = "joinedAnalytics"          -> JoinedAccepts(v)

-----------------------------------------------------------------------------
Joins == {"joinOrderPaymentAnalytics", "multiJoinAnalyticsEvents"}

Sinks == DOMAIN AnalyticsBindings

Keys == { x.value.key : x \in Produced }

Sides(j) == DOMAIN AnalyticsSources[j]

\* A key of which a join holds nothing.
Forgotten(j) == [k \in Sides(j) |-> << >>]

NothingHeld == [j \in Joins |-> [key \in Keys |-> Forgotten(j)]]

NoStreams ==
  /\ begun     = {}
  /\ stack     = [x \in Produced |-> << >>]
  /\ held      = NothingHeld
  /\ expired   = {}
  /\ delivered = << >>
  /\ failed    = {}

Init ==
  /\ stage    = "constructed"
  /\ maker    = "generated"
  /\ function = "none"
  /\ handle   = "unbound"
  /\ bindings = {}
  /\ keys \in KeySets
  /\ NoStreams
  /\ Delivery!Init

(***************************************************************************)
(* ServiceGenerated::start and initRuntime.                                *)
(***************************************************************************)

StartStep(from, to) ==
  /\ stage = from
  /\ stage' = to
  /\ UNCHANGED <<keys, streamVars, deliveryVars>>

\* initMakers, then customMakersInit: the maker holds the sub-stream handle.
CustomMakersInit ==
  /\ StartStep("constructed", "makers")
  /\ maker' = "custom"
  /\ UNCHANGED <<function, handle, bindings>>

\* The generated maker of InvokeAnalyticsSubstream throws.
InitFunctions ==
  /\ StartStep("makers", "functions")
  /\ maker = "custom"
  /\ function' = "withHandle"
  /\ UNCHANGED <<maker, handle, bindings>>

\* initStreams and build
BuildStreams ==
  /\ StartStep("functions", "built")
  /\ UNCHANGED <<maker, function, handle, bindings>>

\* (defect) the handle is left unbound
SkipBind ==
  /\ StartStep("built", "bound")
  /\ UNCHANGED <<maker, function, handle, bindings>>

\* ServiceSubStreams::bind
Bind ==
  /\ StartStep("built", "bound")
  /\ handle' = "bound"
  /\ UNCHANGED <<maker, function, bindings>>

InitDataSinks ==
  /\ StartStep("bound", "sinks")
  /\ bindings' = Sinks
  /\ UNCHANGED <<maker, function, handle>>

\* initDataSources and ServiceApp::start
InitDataSources ==
  /\ StartStep("sinks", "running")
  /\ UNCHANGED <<maker, function, handle, bindings>>

Starting ==
  CustomMakersInit \/ InitFunctions \/ BuildStreams \/ Bind \/ InitDataSinks \/ InitDataSources

(***************************************************************************)
(* The example streams.                                                    *)
(***************************************************************************)

Call(to, from, v) == [at |-> to, from |-> from, value |-> v]

\* The calls a stream makes with a value: one for each of its consumers.
Calls(s, v) ==
  [k \in DOMAIN AnalyticsConsumers[s] |-> Call(AnalyticsConsumers[s][k], s, v)]

\* A source calls its consumer with the input.
Begin(x) ==
  /\ stage = "running"
  /\ x \in Inputs \ begun
  /\ begun' = begun \cup {x}
  /\ stack' = [stack EXCEPT ![x] = Calls(x.source, x.value)]
  /\ UNCHANGED <<startVars, keys, held, expired, delivered, failed, deliveryVars>>

Running(x) == stack[x] # << >>
Current(x) == Head(stack[x])

\* The current call is replaced by the calls it makes.
Replace(x, calls) == stack' = [stack EXCEPT ![x] = calls \o Tail(@)]

\* An exception leaves the handler of the input: the rest of its calls is lost.
Throw(x) ==
  /\ stack'  = [stack EXCEPT ![x] = << >>]
  /\ failed' = failed \cup {Current(x).at}

When(condition, calls) == IF condition THEN calls ELSE << >>

\* The streams whose function only looks at the value; the others pass it on.
PureCalls(s, v) ==
  CASE s = "advanceCycleAnalytics"  -> Calls(s, Advance(v))
    [] s = "completeCycleAnalytics" -> When(Completes(v), Calls(s, v))
    [] s = "continueCycleAnalytics" ->
         When(Continues(v), <<Call("cycleAnalyticsLink", s, v)>>)
    [] s = "routeAnalyticsResult"   -> <<Calls(s, v)[Branch(v)]>>
    [] s = "buildSubstreamAnalyticsResult" ->
         Calls("invokeAnalyticsSubstream", BuildSubstreamResult(v))
    [] OTHER                        -> Calls(s, v)

Pass(x) ==
  /\ Running(x)
  /\ Current(x).at \notin Joins \cup Sinks \cup {"invokeAnalyticsSubstream"}
  /\ Replace(x, PureCalls(Current(x).at, Current(x).value))
  /\ UNCHANGED <<startVars, keys, begun, held, expired, delivered, failed, deliveryVars>>

\* InvokeAnalyticsSubstream consumes through the handle, which throws while it
\* is not bound and after the stream is gone.
Invoke(x) ==
  /\ Running(x)
  /\ Current(x).at = "invokeAnalyticsSubstream"
  /\ IF handle = "bound" /\ function = "withHandle"
     THEN /\ Replace(x, <<Call("analyzeAnalyticsSubstream", Current(x).at, Current(x).value)>>)
          /\ UNCHANGED failed
     ELSE Throw(x)
  /\ UNCHANGED <<startVars, keys, begun, held, expired, delivered, deliveryVars>>

\* A value arrives at the side of a join that its stream feeds.
Arrived(j, c) ==
  [k \in Sides(j) |-> IF AnalyticsSources[j][k] = c.from
                      THEN Append(held[j][c.value.key][k], c.value)
                      ELSE held[j][c.value.key][k]]

Join(x) ==
  /\ Running(x)
  /\ Current(x).at \in Joins
  /\ LET j     == Current(x).at
         key   == Current(x).value.key
         sides == Arrived(j, Current(x))
     IN  IF Complete(sides)
         THEN /\ held' = [held EXCEPT ![j][key] = Forgotten(j)]
              /\ Replace(x, Calls(j, JoinResult(j, key, sides)))
         ELSE /\ held' = [held EXCEPT ![j][key] = sides]
              /\ Replace(x, << >>)
  /\ UNCHANGED <<startVars, keys, begun, expired, delivered, failed, deliveryVars>>

\* The TTL of a key passes before its other side has come.
Expire(j, key) ==
  /\ held[j][key] # Forgotten(j)
  /\ held'    = [held EXCEPT ![j][key] = Forgotten(j)]
  /\ expired' = expired \cup {<<j, key>>}
  /\ UNCHANGED <<startVars, keys, begun, stack, delivered, failed, deliveryVars>>

\* The binding calls the endpoint, whose function checks the value.  Without a
\* function in the binding, or at another value, the call throws.
Write(x) ==
  /\ Running(x)
  /\ Current(x).at \in Sinks
  /\ LET sink == Current(x).at
         v    == Current(x).value
     IN  IF sink \in bindings /\ Accepts(AnalyticsBindings[sink], v)
         THEN /\ delivered' = Append(delivered, [sink |-> sink, value |-> v])
              /\ Replace(x, << >>)
              /\ UNCHANGED failed
         ELSE Throw(x) /\ UNCHANGED delivered
  /\ UNCHANGED <<startVars, keys, begun, held, expired, deliveryVars>>

ThreadStep(x) ==
  Pass(x) \/ Invoke(x) \/ Join(x) \/ Write(x)

(***************************************************************************)
(* The Kafka handler, stopping, crashing and starting again.               *)
(***************************************************************************)

\* A message is handed out only while the data sources run.
HandleMessage(n) ==
  /\ keys = {}
  /\ stage = "running" \/ (stage = "stopping" /\ handling[n] # "waiting")
  /\ Delivery!Handle(n)
  /\ UNCHANGED <<startVars, keys, streamVars>>

KafkaStep ==
  /\ keys = {}
  /\ \E e \in Events :
       \/ Delivery!ConsumeMessage(e)
       \/ Delivery!Store(e, TRUE)
       \/ Delivery!Store(e, FALSE)
       \/ Delivery!EndRequestWithError(e)
  /\ UNCHANGED <<startVars, keys, streamVars>>

Rebalance ==
  /\ keys = {}
  /\ stage = "running"
  /\ Delivery!Rebalance
  /\ UNCHANGED <<startVars, keys, streamVars>>

\* ServiceApp::stop: the data sources hand out nothing more.
Stop ==
  /\ stage = "running"
  /\ resumptions < MaxResumptions
  /\ stage' = "stopping"
  /\ UNCHANGED <<maker, function, handle, bindings, keys, streamVars, deliveryVars>>

Quiet ==
  /\ \A x \in Inputs : ~Running(x)
  /\ \A n \in DOMAIN partition : handling[n] \notin {"delivered", "counted"}

\* The graph is released once the running calls have ended; the handle, which a
\* function may still hold, is weak.
ReleaseRuntime ==
  /\ stage = "stopping"
  /\ Quiet
  /\ stage'  = "stopped"
  /\ handle' = "expired"
  /\ UNCHANGED <<maker, function, bindings, keys, streamVars, deliveryVars>>

\* A new process: nothing in memory is left, and the sources produce again.
NewProcess ==
  /\ stage'     = "constructed"
  /\ maker'     = "generated"
  /\ function'  = "none"
  /\ handle'    = "unbound"
  /\ bindings'  = {}
  /\ begun'     = {}
  /\ stack'     = [x \in Produced |-> << >>]
  /\ held'      = NothingHeld
  /\ expired'   = {}
  /\ delivered' = << >>
  /\ failed'    = {}
  /\ UNCHANGED keys
  /\ Delivery!Restart

StartAgain == stage = "stopped" /\ NewProcess

Crash == stage # "stopped" /\ NewProcess

\* Nothing left to do but to wait for events, of which there are no more.
Idle ==
  /\ stage = "running"
  /\ Inputs \subseteq begun
  /\ Quiet
  /\ UNCHANGED vars

Next ==
  \/ Starting
  \/ \E x \in Produced : Begin(x) \/ ThreadStep(x)
  \/ \E j \in Joins, key \in Keys : Expire(j, key)
  \/ \E n \in 1..MaxStored : HandleMessage(n)
  \/ KafkaStep
  \/ Rebalance
  \/ Stop
  \/ ReleaseRuntime
  \/ StartAgain
  \/ Crash
  \/ Idle

Spec == Init /\ [][Next]_vars

(***************************************************************************)
(* Fairness.  start runs on, threads run what they were given, a stopped   *)
(* service is started again.  Nothing has to stop, crash or expire.        *)
(***************************************************************************)
Fairness ==
  /\ WF_vars(Starting)
  /\ \A x \in Produced : WF_vars(Begin(x) \/ ThreadStep(x))
  /\ \A n \in 1..MaxStored : WF_vars(HandleMessage(n))
  /\ WF_vars(ReleaseRuntime)
  /\ WF_vars(StartAgain)

FairSpec == Spec /\ Fairness

-----------------------------------------------------------------------------
(* Properties *)

\* No call of a stream throws: a sub-stream handle that is called is bound and
\* its stream alive (substreams.generated.hpp:78-83), a sink that is written to
\* has its binding (bindings.generated.hpp:78), and each sink gets the value it
\* checks for, in whatever order the sides of the joins arrive.
NothingFails == failed = {}

ExpectedAt(sink, key) ==
  \E n \in {3, 6, 14, 30, 60}, kind \in {"join", "multi", "cycle", "substream"} :
    Accepts(AnalyticsBindings[sink], Value(key, n, kind))

JoinBefore(sink) ==
  IF sink = "writeJoinedAnalytics" THEN "joinOrderPaymentAnalytics"
  ELSE "multiJoinAnalyticsEvents"

ResultsAt(sink, key) ==
  { k \in DOMAIN delivered : delivered[k].sink = sink /\ delivered[k].value.key = key }

\* Once the inputs have been handled every sink has the result it waits for,
\* exactly once, except that of a join whose first side expired before the last
\* one came: a half that expired is never joined.
ResultsAreExact ==
  stage = "running" /\ Inputs \subseteq begun /\ Quiet =>
    \A sink \in Sinks, key \in keys :
      Cardinality(ResultsAt(sink, key)) =
        IF ExpectedAt(sink, key) /\ <<JoinBefore(sink), key>> \notin expired THEN 1 ELSE 0

AllGraphsAgree ==
  /\ GraphAgrees(AnalyticsSources, AnalyticsConsumers, AnalyticsResultOf)
  /\ GraphAgrees(OrderSources, OrderConsumers, OrderResultOf)
  /\ GraphAgrees(InventorySources, InventoryConsumers, InventoryResultOf)
  /\ LinksAgree(OrderLinks, OrderConsumers)
  /\ LinksAgree(InventoryLinks, InventoryConsumers)
  /\ AnalyticsBindings = AnalyticsSinkEndpoint
  /\ \A e \in DOMAIN AnalyticsDataSources :
       AnalyticsDataSources[e] = AnalyticsConnector[AnalyticsEndpoints[e]]

\* A built graph is the configured one: each stream is linked to the sources
\* config.generated.hpp gives it, results and cycle links included, and each
\* sink and input to its endpoint and connector, in all three services.
GraphsAreAsConfigured ==
  stage \notin {"constructed", "makers", "functions"} => AllGraphsAgree

CommittedWereCounted == Delivery!CommittedWereCounted

CountersMatchDeliveries == Delivery!CountersMatchDeliveries

\* What an input sets off ends: the cycle goes round a finite number of times
\* and no call waits for another.
EveryInputEnds == (\E x \in Produced : Running(x)) ~> (\A x \in Produced : ~Running(x))

\* A stored event is counted, marked and committed, whatever stops, crashes and
\* rebalances come in between.
StoredAreCommitted == Delivery!StoredAreCommitted
=============================================================================
