---------------------------- MODULE ApiEndpoints ----------------------------
(***************************************************************************)
(* The endpoints of the Unix socket API: what each handler does with its   *)
(* connection, and the answers that the OpenAPI schema announces.          *)
(*                                                                         *)
(* A handler is the set of the ways it can go. Each way is a sequence of   *)
(*   "subscribe"     the connection joins the list of SSE subscribers      *)
(*   "fire"          an event is fired: every subscriber is written to     *)
(*   "wait"          a future is waited for, with a timeout                *)
(*   "detach"        the rest runs on a thread of its own                  *)
(*   "200" .. "500"  an answer with this status                            *)
(*   "line"          more data on the same connection                      *)
(*   "throw"         an exception that leaves the handler                  *)
(* What a handler changes in sessions, lobbies, clients and pairings is in *)
(* the modules of those components.                                        *)
(***************************************************************************)
\* Every handler that reads a body refuses one it cannot parse.
Refused == <<"500">>
Done == <<"200">>

\* The connection is listed before the status line is sent.
Events == {<<"subscribe", "200">>}

PendingPairRequest == {Done}
\* set_value() throws when another PIN has been set meanwhile.
PairHandler == {Refused, Done, <<"throw">>}
PairedClients == {Done}
\* Everything is inside a try: stoull and a failed load end in a 500.
UnpairClient == {<<"400">>, <<"404">>, Refused, Done}
\* stoull is outside of any try.
UpdateClientSettings == {<<"400">>, <<"404">>, Done, <<"throw">>}

Apps == {Refused, Done}
AddAppHandler == {Refused, Done}
RemoveAppHandler == {Refused, Done}
Profiles == {Done}
AddProfile == {Refused, Done}
RemoveProfile == {Refused, Done}

StreamSessions == {Done}
StreamSessionAdd == {Refused, <<"fire", "200">>, <<"throw">>}
\* An id that is no number throws, and so does one of no session: the warning
\* reads the session that was not found.
StreamSessionStart == {Refused, <<"fire", "fire", "200">>, <<"throw">>}
StreamSessionPause == {Refused, <<"fire", "200">>, <<"throw">>}
StreamSessionStop == {Refused, <<"fire", "200">>, <<"throw">>}
StreamSessionHandleInput == {Refused, Done, <<"throw">>}
\* The success has no answer.
RunnerStart == {Refused, <<"fire">>, <<"throw">>}

LobbyList == {Done}
LobbyCreate == {Refused, <<"fire", "wait">>}
LobbyJoin == {Refused, <<"fire", "wait">>}
LobbyLeave == {Refused, <<"fire", "200">>}
LobbyStop == {Refused, <<"fire", "200">>}

GetIcon == {<<"400">>, <<"detach", "200">>, <<"detach", "404">>}
DockerInspectImage == {<<"400">>, <<"200">>, <<"404">>}
\* A payload that cannot be parsed has no answer. The status line of a pull is
\* sent with its first progress; one that fails afterwards sends another.
DockerPullImage ==
  {<<>>,
   <<"detach", "fire", "200", "line", "fire">>,
   <<"detach", "fire", "500", "fire">>,
   <<"detach", "fire", "200", "line", "500", "fire">>}
OpenApiSchema == {Done}

\* An endpoint as it is registered: its handler, and the statuses that the
\* OpenAPI schema lists for it.
Route(handler, responses) == [handler |-> handler, responses |-> responses]
Success == {"200"}
SuccessOrError == {"200", "500"}

ClientRoutes ==
  [Events |-> Route(Events, {}),
   PendingPairRequest |-> Route(PendingPairRequest, Success),
   Pair |-> Route(PairHandler, SuccessOrError),
   UnpairClient |-> Route(UnpairClient, SuccessOrError),
   PairedClients |-> Route(PairedClients, Success),
   UpdateClientSettings |->
     Route(UpdateClientSettings, {"200", "400", "404", "500"})]
AppRoutes ==
  [Apps |-> Route(Apps, SuccessOrError),
   AddApp |-> Route(AddAppHandler, SuccessOrError),
   RemoveApp |-> Route(RemoveAppHandler, SuccessOrError),
   Profiles |-> Route(Profiles, Success),
   AddProfile |-> Route(AddProfile, SuccessOrError),
   RemoveProfile |-> Route(RemoveProfile, SuccessOrError)]
SessionRoutes ==
  [StreamSessions |-> Route(StreamSessions, Success),
   StreamSessionAdd |-> Route(StreamSessionAdd, SuccessOrError),
   StreamSessionStart |-> Route(StreamSessionStart, SuccessOrError),
   StreamSessionPause |-> Route(StreamSessionPause, SuccessOrError),
   StreamSessionStop |-> Route(StreamSessionStop, SuccessOrError),
   StreamSessionHandleInput |-> Route(StreamSessionHandleInput, SuccessOrError),
   RunnerStart |-> Route(RunnerStart, SuccessOrError)]
LobbyRoutes ==
  [Lobbies |-> Route(LobbyList, SuccessOrError),
   LobbyCreate |-> Route(LobbyCreate, SuccessOrError),
   LobbyJoin |-> Route(LobbyJoin, SuccessOrError),
   LobbyLeave |-> Route(LobbyLeave, SuccessOrError),
   LobbyStop |-> Route(LobbyStop, SuccessOrError)]
UtilityRoutes ==
  [GetIcon |-> Route(GetIcon, {}),
   DockerInspectImage |-> Route(DockerInspectImage, {}),
   DockerPullImage |-> Route(DockerPullImage, SuccessOrError),
   OpenApiSchema |-> Route(OpenApiSchema, {})]

Registered ==
  UNION {DOMAIN ClientRoutes, DOMAIN AppRoutes, DOMAIN SessionRoutes,
         DOMAIN LobbyRoutes, DOMAIN UtilityRoutes}
Routes ==
  [e \in Registered |->
     IF e \in DOMAIN ClientRoutes THEN ClientRoutes[e]
     ELSE IF e \in DOMAIN AppRoutes THEN AppRoutes[e]
     ELSE IF e \in DOMAIN SessionRoutes THEN SessionRoutes[e]
     ELSE IF e \in DOMAIN LobbyRoutes THEN LobbyRoutes[e]
     ELSE UtilityRoutes[e]]
Handler(e) == Routes[e].handler
Documented(e) == Routes[e].responses

Code == {"200", "400", "404", "500"}
Step == Code \cup {"subscribe", "fire", "wait", "detach", "line", "throw"}
=============================================================================
