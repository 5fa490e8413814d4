-------------------------------- MODULE MCSlave --------------------------------
EXTENDS Slave

CONSTANTS c1, c2

Ask(a, b) == [c \in {c1, c2} |-> IF c = c1 THEN a ELSE b]

(* Every kind of request, in pairs: either one may be first. *)
Various == {Ask("GET", "expect"), Ask("POST", "chunked"), Ask("HEAD", "bad"),
            Ask("OPTIONS", "expect body")}
(* Uploads, which get stuck when their clients fail them. *)
Uploads == {Ask("POST", "chunked")}
OneUpload == {Ask("POST", "GET")}

Few == {404}
Statuses == {100, 404, 600}
================================================================================
