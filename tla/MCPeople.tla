------------------------------ MODULE MCPeople ------------------------------
(* Small instances of what the node knows of people, one at a time: the    *)
(* contacts and their trust, and the personas with the cards of others.    *)
EXTENDS ContactTrust, Personas

CONSTANTS k1, friend, kin, i1, t1, t2, alice, bob, mallory, m1, m2, m3

VARIABLE subject

\* One invite, signed by the only key.  Two requests at a time are about one
\* domain, one request at a time about two.
MCDomainOf == [r \in Role |-> IF r = kin THEN "family" ELSE "personal"]
Abouts(t) == {prog'[t][j].domain : j \in {n \in DOMAIN prog'[t] : "domain" \in DOMAIN prog'[t][n]}}
MCSenderOf == [i \in {i1} |-> k1]

\* One task makes every kind of request, one accepts cards of the inbox.
MCDoes == [t \in Process |->
    CASE t = t1 -> {"patch", "delete", "merge", "suggested", "card", "reissue",
                    "import", "accept", "dismiss", "link"}
      [] t = t2 -> {"accept"}
      [] OTHER  -> {}]
\* Alice sends her card, Mallory one that does not verify and Bob's.
MCCardOf == [m \in Message |-> CASE m = m1 -> alice [] m = m2 -> mallory [] OTHER -> bob]

PeopleInit ==
    /\ subject \in {"trust", "domains", "persona"}
    /\ TrustInit /\ PersonaInit
PeopleNext ==
    /\ \/ /\ \/ subject = "trust" /\ TrustNext /\ \A t \in Task : Abouts(t) \subseteq {"personal"}
             \/ subject = "domains" /\ TaskStep(t1)
          /\ UNCHANGED personaVars
       \/ subject = "persona" /\ PersonaNext /\ UNCHANGED trustVars
    /\ UNCHANGED subject
PeopleSpec == PeopleInit /\ [][PeopleNext]_<<subject, trustVars, personaVars>>
=============================================================================
