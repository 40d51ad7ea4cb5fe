---------------------------- MODULE MCAgentQuery ----------------------------
(* Notes with tags, readers of every kind, and requests to the model. *)
EXTENDS AgentQuery, TLC

Def(label, fs, ts, rs, k, c) == [label |-> label, fields |-> fs, transforms |-> ts, refs |-> rs, keyField |-> k, class |-> c]
MCSchemaDef == [ notes |-> Def("Notes", {"title", "stars", "tags"}, {"summary"}, [tags |-> "tag"], "title", ("title" :> 0) @@ ("stars" :> 1)),
                 tag |-> Def("Notes", {"word"}, {}, <<>>, "none", ("word" :> 9)),
                 Mention |-> Def("Mention", {"at"}, {}, <<>>, "at", <<>>),
                 ai_conversations |-> Def("AI Conversations", {"answer"}, {}, <<>>, "session_id", <<>>) ]
Key(h, x) == [hash |-> h, range |-> x]
NoteRow(h, x, stars, author) == [key |-> Key(h, x), vals |-> ("title" :> h) @@ ("stars" :> stars) @@ ("tags" :> {Key("w", 0), Key("v", 0)}), author |-> author]
MCRows == [ notes |-> {NoteRow("a", 1, 3, "me"), NoteRow("b", 2, 1, "ann"), NoteRow("c", 3, 2, "ann")},
            tag |-> {[key |-> Key("w", 0), vals |-> ("word" :> "w"), author |-> "me"]},
            Mention |-> {}, ai_conversations |-> {} ]
MCTierOf == [personal |-> ("ann" :> 1)]
Reader(caller, s, fs, sorted, least, limit) ==
    [caller |-> caller, schema |-> s, fields |-> fs, sorted |-> sorted, least |-> least, limit |-> limit]
MCPager == { Reader("me", "notes", {"title", "stars"}, TRUE, ("stars" :> 2), 1),
             Reader("me", "notes", {"title"}, TRUE, <<>>, 2),
             Reader("ann", "notes", {"stars"}, FALSE, <<>>, 5), Reader("me", "Notes", {"title"}, FALSE, <<>>, 1) }
Op(s, k, vals, type) == [schema |-> s, key |-> k, vals |-> vals, type |-> type]
MCWrite == { [via |-> "route", caller |-> "me", ops |-> << Op("notes", Key("d", 4), ("title" :> "d"), "create") >>],
             [via |-> "route", caller |-> "ann", ops |-> << Op("Mention", Key("d", 4), ("at" :> "d"), "create") >>],
             [via |-> "batch", caller |-> "me", ops |-> << Op("notes", Key("a", 1), ("stars" :> 1), "update"),
                                                           Op("notes", Key("b", 2), <<>>, "delete") >>] }
Change1(kind, s, f, tier) == [kind |-> kind, schema |-> s, field |-> f, policy |-> [domain |-> "personal", tier |-> tier]]
MCEdit == { Change1("approve", "Notes", "title", 0), Change1("block", "notes", "title", 0), Change1("org", "notes", "acme", 0),
            Change1("policy", "notes", "stars", 0), Change1("approve", "gone", "x", 0),
            Change1("reset", "all", "x", 0) }
Found(s, h, f, frag) == [schema |-> s, key |-> Key(h, 1), field |-> f, fragment |-> frag]
MCHit == { Found("notes", "a", "title", "stored"), Found("notes", "z", "title", "none"), Found("Mention", "a", "at", "none") }
Asked(kind, s, friends, limit) == [kind |-> kind, schema |-> s, friends |-> friends, limit |-> limit]
MCListing == { Asked("feed", "none", {"ann"}, 1), Asked("keys", "Notes", {}, 2), Asked("search", "none", {}, 1) }

Asking(kind, session, rounds) == [kind |-> kind, session |-> session, max_iterations |-> rounds]
MCAsk == { Asking("agent", "s1", 2), Asking("agent", "s1", 1), Asking("agent", "s1", 0), Asking("agent", "s2", 0), Asking("agent", "s3", 1),
           Asking("index", "s1", 0), Asking("index", "s2", 0), Asking("chat", "s1", 0), Asking("followup", "s1", 0) }
Json(tool, has, say) == [form |-> "json", tool |-> tool, has |-> has, say |-> say]
Call(tool) == Json(tool, {}, "")
Answer == Json("none", {"answer"}, "x")
Said == { [form |-> "blank", tool |-> "none", has |-> {}, say |-> ""], [form |-> "prose", tool |-> "none", has |-> {}, say |-> "x"],
          Json("none", {"answer"}, ""), Json("none", {"other"}, ""), Json("none", {"terms"}, ""),
          Call("query"), Call("ingest_files"), Call("create_view"), Call("update_record"), Call("set_field_policy") }
MCResponse == [r \in MCAsk |-> IF r.session = "s3" THEN {Answer} \cup {Call(t) : t \in Tools}
                               ELSE IF r.max_iterations = 1 THEN {Answer} ELSE Said]
Piece(kind, name) == [kind |-> kind, name |-> name]
MCWebPage == { [ok |-> TRUE, type |-> "html", body |-> << Piece("open", "script"), Piece("text", "code"), Piece("close", "script"),
                                                          Piece("open", "p"), Piece("text", "news"), Piece("close", "p") >>],
               [ok |-> TRUE, type |-> "text", body |-> << Piece("text", "a"), Piece("text", "b"), Piece("text", "c") >>],
               [ok |-> TRUE, type |-> "image", body |-> <<>>], [ok |-> FALSE, type |-> "html", body |-> <<>>] }

\* One agent, after the imports.
AgentAlone == {Asking("agent", "s1", 2)}
AgentAloneSpec ==
    /\ AgentInit /\ DataQueryInit /\ schemas["notes"].state = "approved"
    /\ [][AgentNext(AgentAlone)]_<<agentVars, dataQueryVars>>
====
