------------------------ MODULE MCIngestion ------------------------
(* Small instances of the ingestion of files and of the graph of           *)
(* fingerprints that is drawn from what was ingested, one at a time.       *)
EXTENDS IngestionPipeline, FingerprintGraph

VARIABLE part

S(d, fs) == [desc |-> d, fields |-> fs, org |-> NoOrg]
R(s, of) == [s |-> s, of |-> of, field |-> "posts"]

\* f1 is an array of two nested items, the second with a child of another
\* structure than the first; f2 is flat.
MCDoc ==
    [f \in File |->
        IF f = "f1" THEN [nested |-> TRUE,
                          recs |-> <<R("post", 2), R("user", 0), R("image", 4), R("user", 0)>>]
                    ELSE [nested |-> FALSE, recs |-> <<R("flat", 0)>>]]

\* The flat file is proposed under the name of the posts with another field.
MCProposals ==
    [s \in Structure |->
        CASE s = "post"  -> {S("posts", {"a"})}
          [] s = "image" -> {S("posts", {"b"})}
          [] s = "user"  -> {S("users", {"a"})}
          [] s = "flat"  -> {S("posts", {"b"})}]

\* Another node has registered the posts, with a field of its own only.
MCRegistry == {[d \in Desc |-> IF d = "posts" THEN S("posts", {"b"}) ELSE NoSchema]}

\* Photos with faces two of which are similar, notes, contacts.
Src(s, schema, signals, expected) == [src |-> s, schema |-> schema, signals |-> signals, expected |-> expected]

MCKind == [p1 |-> "photo", p2 |-> "photo", p3 |-> "photo", notes |-> "text", hook |-> "hook", book |-> "contacts"]
MCItems ==
    [p1 |-> << Src("img1", "Photos", <<"f1">>, TRUE) >>,
     p2 |-> << Src("img2", "Photos", <<"f2", "f0">>, TRUE), Src("img4", "Photos", <<>>, TRUE) >>,
     p3 |-> << Src("img5", "Photos", <<"bad">>, FALSE), Src("img1", "Photos", <<"f1", "f1">>, FALSE) >>,
     notes |-> << Src("n1", "Notes", <<"phrase", "Ann", "ann@x">>, TRUE) >>,
     hook |-> << Src("row", "Edge", <<"Ann">>, FALSE), Src("c1", "Contacts", <<"ann@x", "555", "ann@X">>, FALSE) >>,
     book |-> << Src("k1", "Contacts", <<"Ann", "ann@x">>, FALSE) >>]

Tok(class, fp, box) == [class |-> class, fp |-> fp, shared |-> box]
MCToken ==
    "Ann" :> Tok("name", "ann", FALSE) @@ "ann@x" :> Tok("email", "mail", FALSE)
    @@ "ann@X" :> Tok("email", "mail", FALSE) @@ "555" :> Tok("phone", "phone", FALSE)
    @@ "phrase" :> Tok("phrase", "none", FALSE)

MCFace == {"f0", "f1", "f2", "bad"}
MCSim == [f \in MCFace |-> [g \in MCFace |->
            IF f = g THEN 1000 ELSE IF {f, g} = {"f1", "f2"} THEN 900 ELSE 100]]

MCSpec0 == [seeds |-> {"ann"}, threshold |-> 400, excludedEdges |-> {}, excludedMentions |-> {},
            includedMentions |-> {}]

MCWorkload ==
    { [jobs |-> {"p1", "p2"}, resolve |-> FALSE, sweep |-> FALSE, crashes |-> 1],
      [jobs |-> {"p2", "p3"}, resolve |-> FALSE, sweep |-> FALSE, crashes |-> 0],
      [jobs |-> {"notes", "book"}, resolve |-> TRUE, sweep |-> FALSE, crashes |-> 0],
      [jobs |-> {"hook", "book"}, resolve |-> TRUE, sweep |-> FALSE, crashes |-> 0],
      [jobs |-> {"hook", "book"}, resolve |-> FALSE, sweep |-> TRUE, crashes |-> 0] }

BothInit ==
    /\ part \in {"files", "graph"} /\ Init /\ GraphInit
    /\ part = "files" => load = CHOOSE w \in Workload : TRUE
    /\ part = "graph" => active = CHOOSE a \in Registry : TRUE
BothNext ==
    /\ \/ part = "files" /\ Next /\ UNCHANGED graphVars
       \/ part = "graph" /\ GraphNext /\ UNCHANGED vars
    /\ UNCHANGED part
BothSpec == BothInit /\ [][BothNext]_<<part, vars, graphVars>>
============================================================================
