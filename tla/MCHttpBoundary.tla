--------------------------- MODULE MCHttpBoundary ---------------------------
(* Model-checking instance of HttpBoundary: tenant A has a service key, its *)
(* successor and an operator key; the webhook's idempotency key for provider *)
(* id 1 is "w1", which an intake client may also use.                        *)
EXTENDS HttpBoundary, TLC

CONSTANTS A, kA, kA2, kOp

MCHolder    == [k \in Keys |-> A]
MCPrincipal == [k \in Keys |-> IF k = kOp THEN "operator" ELSE "service"]
MCLimit     == [intake |-> 2, webhook |-> 3]

Mail(k, stamp) ==
    [route |-> "webhook", key |-> k, declared |-> 3, chunks |-> <<2, 1>>,
     signature |-> "present", signed |-> <<k, "mail">>, stamp |-> stamp, json |-> TRUE,
     fields |-> TRUE, header |-> TRUE, idem |-> "w1", content |-> "mail"]

Note(k, idem, content) ==
    [route |-> "intake", key |-> k, declared |-> -1, chunks |-> <<1, 1>>,
     signature |-> "absent", signed |-> None, stamp |-> 0, json |-> TRUE,
     fields |-> TRUE, header |-> TRUE, idem |-> idem, content |-> content]

\* Valid requests of both routes.
Good == {Mail(kA, 0), Note(kA, "i1", "x"), Note(kA2, "w1", "x")}

\* One thing is wrong with each of these.
Bad == {[Mail(kA, 0) EXCEPT !.key = None],
        [Mail(kA, 0) EXCEPT !.declared = 4],
        [Mail(kA, 0) EXCEPT !.declared = 1, !.chunks = <<2, 2>>],
        [Mail(kA, 0) EXCEPT !.signature = "absent"],
        [Mail(kA, 0) EXCEPT !.signature = "garbled"],
        [Mail(kA, 0) EXCEPT !.content = "forged"],
        [Mail(kA, 0) EXCEPT !.signed = <<kA2, "mail">>],
        Mail(kA, 2), Mail(kA, -2), Mail(kOp, 0),
        [Mail(kA, 0) EXCEPT !.header = FALSE],
        [Mail(kA, 0) EXCEPT !.fields = FALSE],
        [Note(kA, "i1", "x") EXCEPT !.key = None],
        [Note(kA, "i1", "x") EXCEPT !.json = FALSE],
        [Note(kA, "i1", "x") EXCEPT !.fields = FALSE],
        [Note(kA, "i1", "x") EXCEPT !.header = FALSE],
        [Note(kA, "i1", "x") EXCEPT !.declared = 2, !.chunks = <<2, 1>>],
        Note(kOp, "i1", "x")}

\* The first request is of any kind; the second one meets it on its key.
MCKinds == [r \in Requests |-> IF r = 1 THEN Good \cup Bad ELSE {Mail(kA2, 1)}]
=============================================================================
