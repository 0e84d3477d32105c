---------------------------- MODULE MCApiServer ----------------------------
(* A small instance of ApiServer for TLC, and the gaps between what handlers *)
(* answer and what the OpenAPI schema lists.                                 *)
EXTENDS ApiServer

StatusesOf(way) == {way[i] : i \in DOMAIN way} \cap Code

\* Endpoints of the schema that answer with a status it does not list.
ASSUME UnlistedAnswers ==
  {e \in Registered :
     /\ Documented(e) # {}
     /\ \E way \in Handler(e) : ~(StatusesOf(way) \subseteq Documented(e))}
  = {"UnpairClient"}

\* Endpoints with a way that returns and answers nothing, or more than once.
Answering == Code \cup {"wait", "throw"}
Answers(way) == {i \in DOMAIN way : way[i] \in Answering}
ASSUME UnansweredRequests ==
  {e \in Registered : \E way \in Handler(e) : Cardinality(Answers(way)) # 1} = Silent
=============================================================================
