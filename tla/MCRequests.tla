---------------------------- MODULE MCRequests ----------------------------
(* Instance of Requests for TLC. *)
EXTENDS Requests, TLC

CONSTANTS c1, c2, k1, b1, bad

\* A command of each route, and an upload whose key comes with two bodies.
SomeCommands ==
  [route : Routes \ {"upload"}, key : {k1}, body : {b1}]
  \cup [route : {"upload"}, key : {k1}, body : {b1, bad}]

RunCommands == [route : {"start"}, key : {k1}, body : {b1}]
AskCommands == [route : {"ask"}, key : {k1}, body : {b1}]
OneUpload   == [route : {"upload"}, key : {k1}, body : {b1}]
TwoUploads  == [route : {"upload"}, key : {k1}, body : {b1, bad}]

\* Bound: one behaviour mixes at most two routes.
RoutesUsed ==
  {s[1] : s \in {t \in DOMAIN records : records[t] # None}}
  \cup {request[c].command.route : c \in {d \in Clients : request[d] # None}}
  \cup {operations[i].from[1] : i \in DOMAIN operations}
FewRoutes == Cardinality(RoutesUsed) <= 2

Symmetry == Permutations({c1, c2})
=============================================================================
