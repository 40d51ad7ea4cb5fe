------------------------ MODULE MCDiscoveryPublishing ------------------------
(* Two schemas sharing a pseudonym, with rows of every kind, and two peers. *)
EXTENDS DiscoveryPublishing, TLC

Emb(s, c, f, ok) == [schema |-> s, content |-> c, field |-> f, readable |-> ok]
MCEmbedding == { Emb("notes", "e1", "topic", TRUE), Emb("notes", "e2", "legacy", TRUE), Emb("notes", "e3", "email", TRUE),
                 Emb("photos", "e2", "caption", TRUE), Emb("photos", "e4", "__face__", TRUE), Emb("photos", "e5", "caption", FALSE),
                 Emb("photos", "e6", "city_name", TRUE) }
MCCategoryOf == [notes |-> "reading", photos |-> "travel"]
Req(s, c, withFaces, privacy) == [schema |-> s, category |-> c, faces |-> withFaces, privacy |-> privacy, preview |-> withFaces]
MCOptInRequest == { Req("notes", "reading", FALSE, ("topic" :> "never")), Req("photos", "travel", TRUE, ("caption" :> "always")) }
MCPeerProfile == [ann |-> {"reading", "travel"}, bob |-> {"travel"}]
====
