--------------------------- MODULE MCHttpdHandlers ---------------------------
EXTENDS HttpdHandlers, TLC

CONSTANTS w1, w2, w3

MCWorkers == {w1, w2, w3}
MCTwoWorkers == {w1, w2}

Request(m, p) == [method |-> m, path |-> p]

MCRequests ==
    { Request("GET", "/index.html"), Request("GET", "/new.html"),
      Request("GET", "/style.css"), Request("GET", "/api/stats"),
      Request("GET", "/api/tables"), Request("POST", "/api/press"),
      Request("POST", "/index.html"), Request("PUT", "/index.html") }

\* The requests among which a slow client, a writer and a reader meet.
MCContention ==
    { Request("GET", "/index.html"), Request("GET", "/api/stats"),
      Request("GET", "/api/tables"), Request("POST", "/api/press") }

WorkerSymmetry == Permutations(MCWorkers)
=============================================================================
