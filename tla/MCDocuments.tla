---------------------------- MODULE MCDocuments ----------------------------
(***************************************************************************)
(* Documents for TLC: short texts with every line ending at either end of  *)
(* a page, profiles that differ in the kind, the intake type, the version  *)
(* of the normalizer, its absence or an action, and releases that differ   *)
(* in what they offer.                                                     *)
(***************************************************************************)
EXTENDS Documents

MCTexts == {<<>>, <<"a">>, <<"cr">>, <<"lf", "b">>, <<"a", "cr">>, <<"a", "cr", "lf", "b">>}

Bind(intake, version, default) ==
    [intake |-> intake, normalizer |-> <<"bounded_text_pdf", version>>, default |-> default]

Freight == [version |-> 2, intakes |-> {"rate_confirmation", "quote"},
            actions |-> {"create_case"},
            documents |-> [k \in {"rate_confirmation"} |-> Bind("rate_confirmation", 1, TRUE)]]
Retargeted == [Freight EXCEPT !.documents =
            [k \in {"rate_confirmation"} |-> Bind("quote", 1, TRUE)]]
Renamed == [Freight EXCEPT !.actions = @ \cup {"create_draft"}, !.documents =
            [k \in {"rate_confirmation", "order"} |->
                Bind("quote", 1, k = "order")]]
Newer == [Freight EXCEPT !.documents =
            [k \in {"rate_confirmation"} |-> Bind("rate_confirmation", 2, TRUE)]]
Repair == [Freight EXCEPT !.documents = [k \in {} |-> Bind("quote", 1, TRUE)]]

MCProfiles == {Freight, Retargeted, Renamed, Newer, Repair}
Old == [Repair EXCEPT !.version = 1, !.actions = {"create_case", "create_draft"}]
MCOldProfiles == {Old, [Old EXCEPT !.intakes = {"quote"}]}

Offer(version, media, actions) ==
    [normalizers |-> [n \in {<<"bounded_text_pdf", version>>} |-> media], actions |-> actions]
Fewer == {"create_case"}
Both == Fewer \cup {"create_draft"}
MCReleases == {Offer(1, Media, Both), Offer(2, Media, Both), Offer(1, {"text/plain"}, Fewer)}
=============================================================================
