---------------------------- MODULE MCHttpServer ----------------------------
(* HttpServer for TLC. *)
EXTENDS HttpServer

CONSTANTS c1, c2

Get == [m |-> "GET", v |-> 1, body |-> 0, chunked |-> FALSE, expect |-> "none", conn |-> "none",
        reads |-> 0, closes |-> FALSE, status |-> 200, cl |-> -1, te |-> "none", hclose |-> FALSE,
        writes |-> 1, flush |-> FALSE, does |-> "return"]

\* Bodies around MaxPost, read, closed and answered in every way.
Bodies == {[Get EXCEPT !.body = b, !.chunked = k, !.expect = e, !.conn = x, !.reads = r, !.closes = cl,
                       !.flush = f] :
             b \in 1..(MaxPost + 2), k \in BOOLEAN, e \in {"none", "continue"}, x \in {"none", "close"},
             r \in {0, 1, MaxPost + 3}, cl \in BOOLEAN, f \in BOOLEAN}
\* The same of HTTP/1.0, which has no chunks and no expectations.
OldBodies == {[Get EXCEPT !.v = 0, !.body = b, !.conn = x, !.reads = r, !.closes = cl, !.cl = 1] :
                b \in 1..(MaxPost + 2), x \in {"none", "close", "keep-alive"}, r \in 0..1, cl \in BOOLEAN}
\* Responses of every kind.
Answers == {[Get EXCEPT !.m = m, !.v = v, !.conn = x, !.status = s, !.cl = cl, !.te = te,
                        !.hclose = h, !.writes = w, !.flush = f] :
              m \in {"GET", "HEAD"}, v \in {0, 1}, x \in {"none", "keep-alive"}, s \in {200, 204},
              cl \in {-1, 1}, te \in {"none", "identity", "chunked"}, h \in BOOLEAN,
              w \in 0..2, f \in BOOLEAN}
\* Handlers that end badly, and an expectation nobody knows.
Ends == {[Get EXCEPT !.does = d, !.flush = f, !.body = b] : d \in {"panic", "hijack"}, f \in BOOLEAN, b \in 0..1}
          \cup {[Get EXCEPT !.expect = "other", !.body = b] : b \in 0..1}

One(rs, pipeline, calls) ==
  [reqs |-> (c1 :> rs) @@ [c \in Conns |-> <<>>], pipeline |-> pipeline, calls |-> calls]
Post == [Get EXCEPT !.body = 1, !.reads = 1]
MCScripts ==
  {One(<<q, Get>>, q.body <= 2 /\ q.expect = "none", {}) : q \in Bodies \cup OldBodies} \cup {One(<<q, Get>>, FALSE, {}) : q \in Answers}
    \cup {One(<<q, Get>>, TRUE, {}) : q \in Ends}
    \cup {One(<<Post, Get>>, TRUE, {"leave"})}
    \cup {[reqs |-> (c1 :> <<Get, q>>) @@ (c2 :> <<Post>>), pipeline |-> FALSE, calls |-> {k}] :
            q \in {Get, Post}, k \in {"shutdown", "close", "noKeepAlive"}}
    \cup {One(<<[Get EXCEPT !.body = b, !.reads = 2, !.closes = k]>>, FALSE, {"close"}) : b \in 1..2, k \in BOOLEAN}
=============================================================================
