---------------------------- MODULE MCAdapterSend ----------------------------
(* Three Python objects in every small arrangement, one argument away from a  *)
(* plain call, and retry policies that run out in each of their counters.     *)
EXTENDS AdapterSend, TLC

CONSTANTS o1, o2, o3

\* o1 is a function; the others are of any two kinds, with any parts.
AllHeaps ==
    {(o1 :> [kind |-> "function", parts |-> <<o2, o3>>, cached |-> FALSE])
     @@ (o2 :> [kind |-> k, parts |-> p, cached |-> FALSE])
     @@ (o3 :> [kind |-> "class", parts |-> q, cached |-> FALSE]) :
        k \in {"partial", "mapping"}, p \in {<<o1>>, <<o3>>}, q \in {<<>>, <<o2>>}}

Seconds == [is |-> "scalar", connect |-> Count(1), read |-> Count(1), total |-> Unlimited]

Plain == [method |-> "POST", config |-> "empty", maxsize |-> 1,
          headers |-> "exact", body |-> "bytes", url |-> "plain",
          scheme |-> "https", timeout |-> Seconds, verify |-> "default",
          cert |-> "none", proxy |-> "none", urllib3 |-> "2"]

SomeInputs ==
    {Plain, [Plain EXCEPT !.method = "GET"], [Plain EXCEPT !.proxy = "http"],
     [Plain EXCEPT !.proxy = "https", !.urllib3 = "1.26"],
     [Plain EXCEPT !.proxy = "http", !.scheme = "http", !.url = "lexical"],
     [Plain EXCEPT !.verify = "disabled"], [Plain EXCEPT !.body = "file"],
     [Plain EXCEPT !.timeout = [Seconds EXCEPT !.is = "pair", !.read = Count(0)]],
     [Plain EXCEPT !.timeout = [Seconds EXCEPT !.is = "sauce", !.total = Count(1)]]}

Zero == [c \in Counters |-> Count(0)]
Base == [exact |-> TRUE, counts |-> Zero, allowed |-> {"GET"}, force |-> {503, 301},
         respect |-> TRUE, raises |-> TRUE, history |-> <<>>]

Row(status, location, error) == [status |-> status, location |-> location, error |-> error]

SomeRetries ==
    {Base, [Base EXCEPT !.exact = FALSE],
     [Base EXCEPT !.history = <<Row(503, FALSE, TRUE)>>],
     [Base EXCEPT !.counts = [Zero EXCEPT !["total"] = Count(2), !["connect"] = Unlimited,
                                          !["read"] = Boolean(TRUE)]],
     [Base EXCEPT !.counts = [c \in Counters |-> IF c = "total" THEN Count(2) ELSE Count(1)],
                  !.allowed = {"any"}, !.raises = FALSE,
                  !.history = <<Row(301, TRUE, FALSE), Row(503, FALSE, FALSE)>>],
     [Base EXCEPT !.counts = [c \in Counters |-> IF c = "status" THEN Boolean(TRUE)
                                                 ELSE Unlimited],
                  !.allowed = {"any"}, !.force = {}]}

SomeAnswers ==
    {[status |-> 200, retryAfter |-> FALSE, location |-> FALSE],
     [status |-> 503, retryAfter |-> TRUE, location |-> FALSE],
     [status |-> 301, retryAfter |-> FALSE, location |-> TRUE]}

=============================================================================
