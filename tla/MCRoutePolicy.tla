--------------------------- MODULE MCRoutePolicy ---------------------------
(* The interface with its IPv4 family, the one whose lease can be read.    *)
EXTENDS RoutePolicy

IPv4Only == <<"IPV4">>
=============================================================================
