-------------------------- MODULE MCHttpConnection --------------------------
(* A request of each kind the parser tells apart.                          *)
EXTENDS HttpConnection

Shape(method, version, length) == [method |-> method, version |-> version, length |-> length]

EveryShape ==
  {Shape("get", TRUE, "none"), Shape("get", FALSE, "none"), Shape("options", TRUE, "none")}
    \cup {Shape("post", TRUE, length) : length \in Lengths}

GetAndPost == {Shape("get", TRUE, "none"), Shape("post", TRUE, "body")}

=============================================================================
