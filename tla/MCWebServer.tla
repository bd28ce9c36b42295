---------------------------- MODULE MCWebServer ----------------------------
(* Instances of WebServer for TLC: what the clients of a run send.           *)
EXTENDS WebServer

\* A page of ten log lines fills more than one segment.
TwoPerPage == [p \in Contents |-> IF p \in Pages THEN 2 ELSE 1]

\* Alerts enough for a third one.
ManyAlerts == [TwoPerPage EXCEPT !["alert"] = 3]

\* Whole GET requests for pages that exist.
GoodRequests == [verb : {"GET"}, path : {"root", "page2", "alert"}, whole : {TRUE}]

\* Two questions are enough to be confused with each other.
TwoRequests == [verb : {"GET"}, path : {"root", "alert"}, whole : {TRUE}]

\* Whole, cut and foreign requests.
AnyRequests ==
    [verb : {"GET"}, path : {"root", "alert"}, whole : {TRUE}]
    \cup {[verb |-> "GET", path |-> "alert", whole |-> FALSE],
          [verb |-> "POST", path |-> "root", whole |-> TRUE]}

\* One of them is a link of the shipped page that no branch renders.
IconRequests == [verb : {"GET"}, path : {"root", "icon"}, whole : {TRUE}]
=============================================================================
