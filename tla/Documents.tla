----------------------------- MODULE Documents -----------------------------
(***************************************************************************)
(* An attached document from the request that brings it to the run that    *)
(* reads it.  The request binds it to the tenant's profile, a thread makes *)
(* text of it page by page, and the request stores what the thread made,   *)
(* or that it took too long.  Later, perhaps after a new release and an    *)
(* edited profile, a worker decodes the stored snapshot and decides        *)
(* whether a model may see it.                                             *)
(*                                                                         *)
(* A text is a sequence of characters, as far as the normalizer tells them *)
(* apart: "cr", "lf", and any other, which is visible.                     *)
(***************************************************************************)
EXTENDS Naturals, Sequences, FiniteSets, SequencesExt

CONSTANTS
    Texts,        \* what a page, or a plain text, may contain
    Profiles,     \* what a tenant's profile file may say
    OldProfiles,  \* the version-1 profiles that queued jobs may carry
    Releases,     \* the registries of a release: normalizers and actions
    MaxPages,     \* MAX_DOCUMENT_PAGES
    MaxChars      \* MAX_DOCUMENT_TEXT_CHARS

\* The characters of the texts, and the one that joins pages.
Chars == {"lf"} \cup UNION {Range(t) : t \in Texts}

\* What the profiles have that a document's way depends on.  The actions are
\* those whose rule says executable; the rules of version 1 do not say, and then
\* they are all the declared ones.
IsProfile(p) ==
    p = [version |-> p.version, intakes |-> p.intakes, actions |-> p.actions,
         documents |-> p.documents]

\* The earlier release's profiles said nothing of documents.
ASSUME DocumentAssumption ==
    /\ Texts \subseteq Seq(Chars) /\ "none" \notin Chars
    /\ \A p \in Profiles : IsProfile(p) /\ p.version = 2
    /\ \A p \in OldProfiles : IsProfile(p) /\ p.version = 1 /\ DOMAIN p.documents = {}
    /\ MaxPages \in Nat \ {0} /\ MaxChars \in Nat

VARIABLES
    doc,      \* the attachment, fixed
    file,     \* the profile on disk
    release,  \* the registries of the release in use
    request,  \* where the request stands
    bound,    \* the profile the request resolved
    snap,     \* the NormalizedDocument the request got
    thread,   \* where the normalizer thread stands
    page,     \* the next page it reads
    parts,    \* the texts of the pages it has read
    chars,    \* text_chars
    made,     \* the NormalizedDocument it made
    row,      \* agent_jobs: the source's document and the profile's snapshot
    run       \* what a worker's build made of the row, and the text it saw

documentVars == <<doc, file, release, request, bound, snap, thread, page, parts, chars,
                  made, row, run>>

RequestVars == <<request, bound, snap>>
ThreadVars == <<thread, page, parts, chars, made>>

-----------------------------------------------------------------------------
(* Data.                                                                   *)

Media == {"text/plain", "application/pdf"}
Errors == {"document_too_large", "document_text_too_large", "pdf_malformed",
           "pdf_encrypted", "pdf_empty", "document_text_empty",
           "document_processing_timeout"}

Visible(c) == c \notin {"cr", "lf"}
IsBlank(t) == \A i \in DOMAIN t : ~Visible(t[i])

\* A page's text, or that extract_text raises; PdfReader may raise as well.
Pages == {q \in [fails : BOOLEAN, text : Texts] : q.fails => q.text = <<>>}
Plain == {[media |-> "text/plain", large |-> l, reader |-> "fine",
           pages |-> <<[fails |-> FALSE, text |-> t]>>] :
              l \in BOOLEAN, t \in {s \in Texts : ~IsBlank(s)}}
Pdf == {[media |-> "application/pdf", large |-> l, reader |-> r, pages |-> p] :
            l \in BOOLEAN, r \in {"fine", "malformed", "encrypted"},
            p \in BoundedSeq(Pages, MaxPages + 1)}

\* DocumentInput.  What the contents of a file that cannot be opened are, or of
\* one that is too large, makes no difference.
DocumentInputs ==
    {d \in Plain \cup Pdf : d.reader # "fine" \/ d.large => Len(d.pages) \leq 1}

\* DocumentBindingConfig: the key and version of a normalizer, the intake type.
NoText == <<"none">>
Absent == [version |-> 0]

\* The default inbound binding of a profile: a kind, or none.
Default(p) == {k \in DOMAIN p.documents : p.documents[k].default}

\* TenantConfig.validate_references: at most one default, known intake types.
ValidProfile(p) ==
    /\ Cardinality(Default(p)) \leq 1
    /\ \A k \in DOMAIN p.documents : p.documents[k].intake \in p.intakes

\* compile_tenant_profile: every executable action is registered, and every
\* binding's normalizer, in exactly this version.
Compiles(p, rel) ==
    /\ p.actions \subseteq rel.actions
    /\ \A k \in DOMAIN p.documents : p.documents[k].normalizer \in DOMAIN rel.normalizers

\* The binding that documents of version 1 were made under, where a profile has
\* no other for them.
WithLegacyBinding(p) ==
    IF "rate_confirmation" \notin p.intakes \/ "rate_confirmation" \in DOMAIN p.documents
    THEN p.documents
    ELSE [k \in DOMAIN p.documents \cup {"rate_confirmation"} |->
             IF k = "rate_confirmation"
             THEN [intake |-> "rate_confirmation", default |-> TRUE,
                   normalizer |-> <<"bounded_text_pdf", 1>>]
             ELSE p.documents[k]]

UpgradeFault(p, rel) ==
    IF p.version = 2 THEN p
    ELSE [p EXCEPT !.version = 2, !.documents = WithLegacyBinding(p)]

\* upgrade_legacy_profile_snapshot: the actions this release registers become
\* executable, the others policy only.
Upgrade(p, rel) ==
    IF p.version = 2 THEN p
    ELSE [p EXCEPT !.version = 2, !.actions = @ \cap rel.actions,
                   !.documents = WithLegacyBinding(p)]

\* NormalizedDocument: the binding it was made under, and a text or an error.
Snapshot(kind, b, media, text, error) ==
    [version |-> 2, kind |-> kind, intake |-> b.intake, normalizer |-> b.normalizer,
     media |-> media, text |-> text, error |-> error]

\* The version-1 snapshot of an earlier release has no binding.
Legacy(media, text, error) ==
    [version |-> 1, media |-> media, text |-> text, error |-> error]

-----------------------------------------------------------------------------
(* Text.                                                                   *)

\* "\n".join(parts)
Join(ps) == FlattenSeq([i \in DOMAIN ps |-> IF i = 1 THEN ps[i] ELSE <<"lf">> \o ps[i]])

NormalizeTextFault(t) == [i \in DOMAIN t |-> IF t[i] = "cr" THEN "lf" ELSE t[i]]

\* _normalize_text: a "cr" before an "lf" goes, any other becomes an "lf".
Normalized(t, i) == IF t[i] # "cr" THEN <<t[i]>>
                    ELSE IF i < Len(t) /\ t[i + 1] = "lf" THEN <<>> ELSE <<"lf">>

NormalizeText(t) == FlattenSeq([i \in DOMAIN t |-> Normalized(t, i)])

-----------------------------------------------------------------------------
(* The request: _normalize_document inside enqueue_document.               *)

Binding(p) == p.documents[CHOOSE k \in Default(p) : TRUE]
Kind(p) == CHOOSE k \in Default(p) : TRUE

\* to_message and enqueue_document take the document: it is not too large, the
\* profile is valid, compiles and binds inbound documents to a normalizer that
\* takes this type.
Accepted ==
    /\ ~doc.large
    /\ ValidProfile(file)
    /\ Compiles(file, release)
    /\ Default(file) # {}
    /\ doc.media \in release.normalizers[Binding(file).normalizer]

Refuse ==
    /\ request = "new" /\ ~Accepted
    /\ request' = "refused"
    /\ UNCHANGED <<doc, file, release, bound, snap, ThreadVars, row, run>>

\* The profile is resolved once; the thread starts.
Receive ==
    /\ request = "new" /\ Accepted
    /\ request' = "parsing" /\ bound' = file /\ thread' = "opening"
    /\ UNCHANGED <<doc, file, release, snap, page, parts, chars, made, row, run>>

\* asyncio.timeout ends the wait, not the thread.
TimesOut ==
    /\ request = "parsing"
    /\ snap' = Snapshot(Kind(bound), Binding(bound), doc.media, NoText, "document_processing_timeout")
    /\ request' = "storing"
    /\ UNCHANGED <<doc, file, release, bound, ThreadVars, row, run>>

Collect ==
    /\ request = "parsing" /\ thread = "ended"
    /\ snap' = made /\ request' = "storing"
    /\ UNCHANGED <<doc, file, release, bound, ThreadVars, row, run>>

StoredFault == [document |-> snap, profile |-> file]
\* create_job: the source's snapshot and the profile it was bound with.
Stored == [document |-> snap, profile |-> bound]

Store ==
    /\ request = "storing"
    /\ row' = Stored /\ request' = "answered"
    /\ UNCHANGED <<doc, file, release, bound, snap, ThreadVars, run>>

\* The transaction fails; the caller gets an error and no job exists.
StoreFails ==
    /\ request = "storing"
    /\ request' = "refused"
    /\ UNCHANGED <<doc, file, release, bound, snap, ThreadVars, row, run>>

-----------------------------------------------------------------------------
(* The thread: DocumentNormalizer._normalize.                              *)

Make(text, error) == Snapshot(Kind(bound), Binding(bound), doc.media, text, error)

\* The thread is over with an error, or with a text.
Ends(text, error) ==
    /\ thread' = "ended" /\ made' = Make(text, error)
    /\ UNCHANGED <<page, parts, chars>>

\* The last checks, on the normalized text.
Checked(t, empty) ==
    IF IsBlank(t) THEN Ends(NoText, empty)
    ELSE IF Len(t) > MaxChars THEN Ends(NoText, "document_text_too_large")
    ELSE Ends(t, "none")

TooManyPages == Len(doc.pages) > MaxPages

\* The payload's size, then a text at once; the reader, encryption, page count.
Open ==
    /\ thread = "opening"
    /\ IF doc.large THEN Ends(NoText, "document_too_large")
       ELSE IF doc.media = "text/plain"
            THEN Checked(NormalizeText(doc.pages[1].text), "document_text_empty")
       ELSE IF doc.reader = "malformed" THEN Ends(NoText, "pdf_malformed")
       ELSE IF doc.reader = "encrypted" THEN Ends(NoText, "pdf_encrypted")
       ELSE IF TooManyPages THEN Ends(NoText, "document_too_large")
       ELSE thread' = "reading" /\ UNCHANGED <<page, parts, chars, made>>
    /\ UNCHANGED <<doc, file, release, RequestVars, row, run>>

AddedFault(t) == Len(t)
\* What a page adds to text_chars: its text, and a line break but for the first.
Added(t) == Len(t) + (IF parts = <<>> THEN 0 ELSE 1)

ReadPageFault ==
    /\ thread = "reading" /\ page \leq Len(doc.pages)
    /\ LET p == doc.pages[page] IN
       IF chars + Added(p.text) > MaxChars
       THEN /\ chars' = chars + Added(p.text)
            /\ thread' = "ended" /\ made' = Make(NoText, "document_text_too_large")
            /\ UNCHANGED <<page, parts>>
       ELSE /\ chars' = chars + Added(p.text)
            /\ parts' = Append(parts, p.text) /\ page' = page + 1
            /\ UNCHANGED <<thread, made>>
    /\ UNCHANGED <<doc, file, release, RequestVars, row, run>>

\* One turn of the page loop; an exception of extract_text is a malformed file.
ReadPage ==
    /\ thread = "reading" /\ page \leq Len(doc.pages)
    /\ LET p == doc.pages[page] IN
       IF p.fails THEN Ends(NoText, "pdf_malformed")
       ELSE IF chars + Added(p.text) > MaxChars
       THEN /\ chars' = chars + Added(p.text)
            /\ thread' = "ended" /\ made' = Make(NoText, "document_text_too_large")
            /\ UNCHANGED <<page, parts>>
       ELSE /\ chars' = chars + Added(p.text)
            /\ parts' = Append(parts, p.text) /\ page' = page + 1
            /\ UNCHANGED <<thread, made>>
    /\ UNCHANGED <<doc, file, release, RequestVars, row, run>>

LastPage ==
    /\ thread = "reading" /\ page > Len(doc.pages)
    /\ Checked(NormalizeText(Join(parts)), "pdf_empty")
    /\ UNCHANGED <<doc, file, release, RequestVars, row, run>>

-----------------------------------------------------------------------------
(* Between the request and the run.                                        *)

\* Profile files are read again for every request.
EditProfile ==
    /\ \E p \in Profiles : p # file /\ file' = p
    /\ UNCHANGED <<doc, release, RequestVars, ThreadVars, row, run>>

\* A deployment.  A request in progress has its capability already.
Deploy ==
    /\ \E r \in Releases : r # release /\ release' = r
    /\ UNCHANGED <<doc, file, RequestVars, ThreadVars, row, run>>

-----------------------------------------------------------------------------
(* The run: AgentRuntimeFactory.build up to the end of the preflight.      *)

DecodeFault(s) ==
    IF s.version = 2 THEN s
    ELSE Snapshot("rate_confirmation",
                  [intake |-> "rate_confirmation", normalizer |-> <<"bounded_text_pdf", 2>>],
                  s.media, s.text, s.error)

\* decode_document_snapshot: a version-1 snapshot gets the one binding it can
\* have been made under.
Decode(s) ==
    IF s.version = 2 THEN s
    ELSE Snapshot("rate_confirmation",
                  [intake |-> "rate_confirmation", normalizer |-> <<"bounded_text_pdf", 1>>],
                  s.media, s.text, s.error)

\* The binding of the profile and that of the snapshot are the same.
Compatible(s, p) ==
    /\ s.kind \in DOMAIN p.documents
    /\ p.documents[s.kind].intake = s.intake
    /\ p.documents[s.kind].normalizer = s.normalizer
    /\ s.media \in release.normalizers[s.normalizer]

\* build and preflight_document on the row r.
Preflight(r) ==
    LET s == Decode(r.document)
        p == Upgrade(r.profile, release)
    IN  IF ~ValidProfile(p) THEN "snapshot_incompatible"
        ELSE IF ~Compiles(p, release) THEN "capability_unavailable"
        ELSE IF ~Compatible(s, p) THEN "snapshot_incompatible"
        ELSE IF s.intake \notin p.intakes THEN "capability_unavailable"
        ELSE IF s.error # "none" THEN "document_unreadable"
        ELSE "continue"

NotRun == [result |-> "none", text |-> NoText]

Run ==
    /\ row # Absent /\ run = NotRun
    /\ run' = [result |-> Preflight(row),
               text |-> IF Preflight(row) = "continue" THEN row.document.text ELSE NoText]
    /\ UNCHANGED <<doc, file, release, RequestVars, ThreadVars, row>>

-----------------------------------------------------------------------------
\* Rows an earlier release has left: a version-1 profile and the document's
\* text as that release made it, or an error.
LegacyRows ==
    {[document |-> Legacy(doc.media, t.text, t.error), profile |-> p] :
        t \in {[text |-> NormalizeText(doc.pages[1].text), error |-> "none"],
               [text |-> NoText, error |-> "pdf_malformed"]},
        p \in OldProfiles}

DocumentInit ==
    /\ doc \in DocumentInputs
    /\ file \in Profiles /\ release \in Releases
    /\ thread = "idle" /\ page = 1 /\ parts = <<>> /\ chars = 0
    /\ made = Absent /\ snap = Absent /\ bound = Absent /\ run = NotRun
    /\ \/ request = "new" /\ row = Absent
       \/ /\ request = "answered" /\ doc.media = "text/plain" /\ ~doc.large
          /\ Len(doc.pages[1].text) \leq MaxChars
          /\ row \in LegacyRows

DocumentNext ==
    \/ Refuse \/ Receive \/ TimesOut \/ Collect \/ Store \/ StoreFails
    \/ Open \/ ReadPage \/ LastPage
    \/ EditProfile \/ Deploy \/ Run

DocumentSpec == DocumentInit /\ [][DocumentNext]_documentVars

-----------------------------------------------------------------------------
(* Properties.                                                             *)

\* DocumentTypeOK: a snapshot has a text or an error and the binding of the profile
\* it was made under; the counters stay within the limits that the code checks.
DocumentTypeOK ==
    /\ request \in {"new", "parsing", "storing", "answered", "refused"}
    /\ thread \in {"idle", "opening", "reading", "ended"}
    /\ page \in 1 .. MaxPages + 1 /\ parts \in Seq(Texts) /\ chars \in Nat
    /\ bound \in Profiles \cup {Absent}
    /\ run.result \in {"none", "continue", "document_unreadable",
                      "snapshot_incompatible", "capability_unavailable"}
    /\ \A s \in {made, snap} \ {Absent} :
          /\ (s.text = NoText) = (s.error # "none")
          /\ s.error \in Errors \cup {"none"}
          /\ s.kind \in Default(bound) /\ s.normalizer = Binding(bound).normalizer

\* Everything the document says, page after page.
Whole == Join([i \in DOMAIN doc.pages |-> doc.pages[i].text])
LineEnds(t) == {i \in DOMAIN t : t[i] = "lf" \/ (t[i] = "cr" /\ ~(i < Len(t) /\ t[i + 1] = "lf"))}

\* The visible characters of a text, in order.
Seen(t) == FlattenSeq([i \in DOMAIN t |-> IF Visible(t[i]) THEN <<t[i]>> ELSE <<>>])

\* ModelSeesWholeText: when a run goes on to the model, after whatever timeouts,
\* edits and deployments, the text it is given has every visible character of
\* every page, in order, and as many lines as the document, ended alike; never a
\* part of it.  About DocumentNormalizer._normalize and _normalize_document.
ModelSeesWholeText ==
    run.result = "continue" =>
        /\ Seen(run.text) = Seen(Whole)
        /\ Cardinality(LineEnds(run.text)) = Cardinality(LineEnds(Whole))
        /\ \A i \in DOMAIN run.text : run.text[i] # "cr"
        /\ Len(run.text) \leq MaxChars

\* The document deserves this error, or, if it is "none", that its text is kept.
Deserves(e) ==
    LET fails == doc.reader = "malformed" \/ \E i \in DOMAIN doc.pages : doc.pages[i].fails
        long == Len(Whole) > MaxChars
    IN  /\ e \in (Errors \ {"document_text_empty"}) \cup {"none"}
        /\ e = "pdf_malformed" => fails
        /\ e = "pdf_encrypted" => doc.reader = "encrypted"
        /\ e = "document_too_large" => TooManyPages
        /\ e = "document_text_too_large" => long
        /\ e = "pdf_empty" => ~fails /\ ~TooManyPages /\ IsBlank(Whole)
        /\ e = "none" => /\ ~fails /\ doc.reader = "fine" /\ ~TooManyPages
                         /\ ~IsBlank(Whole)
                         /\ long => doc.media = "text/plain"

\* VerdictIsRight: what is stored of a document is what the document deserves,
\* however early the page loop gave up: each error has its cause, a text has none
\* of those causes, and only a timeout needs no cause.  About the order of the
\* checks in _normalize.
VerdictIsRight ==
    row # Absent /\ row.document.version = 2 => Deserves(row.document.error)

\* SnapshotIsTrue: what is kept of a document, its text or its error, is true of
\* the document, in the row and in the run that reads it.
SnapshotIsTrue == ModelSeesWholeText /\ VerdictIsRight

\* WorkIsBounded: the running count of the page loop is the length of the text
\* that joining the pages read so far gives, so that the loop stops before the
\* text it holds passes the limit, also in a thread nobody waits for any more.
\* About text_chars in _normalize.  (And the variables have their types.)
WorkIsBounded ==
    /\ DocumentTypeOK
    /\ Len(Join(parts)) \leq MaxChars
    /\ thread = "reading" => chars = Len(Join(parts))
    /\ made # Absent /\ made.error = "document_text_too_large" /\ doc.media = "application/pdf" =>
          chars = Len(Join(Append(parts, doc.pages[page].text)))

\* QueuedJobsStayReadable: a queued job of this release is refused by the preflight
\* only if the deployment lacks a normalizer or an executable action of the
\* profile it carries, and one of the earlier release only if it lacks the
\* normalizer of its document: whatever actions a release drops, that job's
\* profile is upgraded without them.  Edits of the profile before, during or
\* after the request do not matter.  About enqueue_document,
\* decode_document_snapshot, upgrade_legacy_profile_snapshot,
\* compile_tenant_profile and preflight_document.
QueuedJobsStayReadable ==
    row # Absent =>
        LET old == row.document.version = 1
            needed == IF old THEN {<<"bounded_text_pdf", 1>>}
                      ELSE {row.document.normalizer} \cup
                           {row.profile.documents[k].normalizer : k \in DOMAIN row.profile.documents}
        IN  (/\ \A n \in needed : /\ n \in DOMAIN release.normalizers
                                 /\ row.document.media \in release.normalizers[n]
             /\ IF old THEN "rate_confirmation" \in row.profile.intakes
                ELSE row.profile.actions \subseteq release.actions)
            => Preflight(row) = IF row.document.error = "none" THEN "continue"
                                ELSE "document_unreadable"

-----------------------------------------------------------------------------
(* The inductive invariant behind the properties, in parts.                *)

\* How far the request is, and what it has resolved: a profile that binds the
\* document, once, before anything is made of it.
Resolved ==
    /\ doc \in DocumentInputs /\ file \in Profiles
    /\ request = "new" => /\ bound = Absent /\ made = Absent /\ snap = Absent /\ row = Absent
                          /\ thread = "idle"
    /\ (\/ request \in {"parsing", "storing"} \/ thread # "idle"
        \/ snap # Absent \/ made # Absent) => bound # Absent
    /\ bound # Absent => /\ ValidProfile(bound) /\ Default(bound) # {} /\ ~doc.large
                         /\ bound \in Profiles
    /\ request = "storing" => snap # Absent
    /\ thread = "ended" <=> made # Absent

\* Where the page loop is: the texts of the pages before this one, all readable.
Looping ==
    /\ page = Len(parts) + 1 /\ Len(parts) \leq Len(doc.pages)
    /\ \A i \in 1 .. Len(parts) : parts[i] = doc.pages[i].text /\ ~doc.pages[i].fails
    /\ thread \in {"idle", "opening"} => parts = <<>> /\ chars = 0
    /\ thread = "reading" => /\ doc.media = "application/pdf" /\ doc.reader = "fine"
                             /\ ~TooManyPages

\* What is made of the document, and what the request has got, is what the
\* document deserves, under the binding of the resolved profile.
TrueOf(s) ==
    /\ s.version = 2 /\ s.kind = Kind(bound) /\ s.intake = Binding(bound).intake
    /\ s.normalizer = Binding(bound).normalizer /\ s.media = doc.media
    /\ (s.text = NoText) = (s.error # "none")
    /\ Deserves(s.error)
    /\ s.error = "none" => s.text = NormalizeText(Whole) /\ Len(s.text) \leq MaxChars

Truthful == \A s \in {made, snap} \ {Absent} : TrueOf(s)

\* A row has what the request got and resolved, or is the earlier release's; a
\* run that goes on has the text of the row.
RowKept ==
    /\ \/ row = Absent
       \/ request = "answered" /\ snap # Absent /\ row = [document |-> snap, profile |-> bound]
       \/ /\ request = "answered" /\ doc.media = "text/plain"
          /\ Len(doc.pages[1].text) \leq MaxChars /\ row \in LegacyRows
    /\ run.result = "continue" =>
          row # Absent /\ row.document.error = "none" /\ run.text = row.document.text

DocumentInv == WorkIsBounded /\ Resolved /\ Looping /\ Truthful /\ RowKept
=============================================================================
