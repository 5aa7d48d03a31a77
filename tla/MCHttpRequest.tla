---------------------------- MODULE MCHttpRequest ----------------------------
(* Instances of HttpRequest for TLC.                                       *)
EXTENDS HttpRequest

GetAndPost == {"GET", "POST"}
NamingRoutes == {"/", "POST", "none", "?"}
NoLength == {"Content:"}
=============================================================================
