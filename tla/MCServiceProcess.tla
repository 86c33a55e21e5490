-------------------------- MODULE MCServiceProcess --------------------------
(* Instances of ServiceProcess for TLC. *)
EXTENDS ServiceProcess

\* Fields of orderservice and the address of a gRPC server: a number that is
\* checked when it is used, a name that may be empty, one that is checked when
\* it is read, a listener.
FollowedFields ==
  { <<"inventoryServiceApi", "connectionsCount", "count">>,
    <<"orderService", "environment", "environment">>,
    <<"orderEvents", "saslMechanism", "enum">>,
    <<"inventoryService", "grpcPort", "listener">> }
=============================================================================
