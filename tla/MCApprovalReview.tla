-------------------------- MODULE MCApprovalReview --------------------------
(* Model-checking instances of ApprovalReview.                             *)
EXTENDS ApprovalReview

CONSTANTS v, w, contact, other

\* What the model may say of the contact.  With a document: from the document
\* with the other value in the body, and two values that both stand in the
\* body.  Without one: beside a field that the profile does not define, and a
\* blank.  The others fail validation: not in the source
\* they name, not quoted, or from a document that is not there.
Quoted(x, s, found) ==
    [name |-> contact, value |-> x, source |-> s, quoted |-> TRUE, found |-> found]
Said(n, x, s) == [name |-> n, value |-> x, source |-> s, quoted |-> FALSE, found |-> {}]

MCProposals ==
    [document : {TRUE},
     items : {{Quoted(w, "document", {"document"}), Quoted(v, "unsaid", Sources)},
              {Quoted(w, "body", Sources), Quoted(v, "unsaid", {"body"})},
              {Quoted(v, "body", {"document"}), Quoted(w, "body", {"body"})},
              {Said(contact, v, "body")}}]
    \cup
    [document : {FALSE},
     items : {{Said(contact, w, "unsaid"), Said(other, v, "unsaid"),
               Said(contact, Blank, "body")},
              {Quoted(v, "document", {"document"})},
              {Quoted(v, "unsaid", {"document"})}}]

Full == [registered |-> TRUE, normalizer |-> TRUE, version |-> 1, arguments |-> TRUE,
         accepts |-> {v, w}]

\* Builds that lost the normalizer, accept fewer values, or have a new version
\* of the action with other arguments.
MCBuilds == << Full,
               [Full EXCEPT !.normalizer = FALSE],
               [Full EXCEPT !.accepts = {v}],
               [Full EXCEPT !.version = 2, !.arguments = FALSE] >>
=============================================================================
