-------------------------- MODULE MCNodeServices --------------------------
(* Small instances of the node's smaller services, one at a time. *)
EXTENDS MCDiscoveryPublishing, PeerSharing, MCAgentQuery, MCCloudAccount, TLC

VARIABLE scene

Event(h, title, place, start, end) == [hash |-> h, title |-> title, place |-> place, start |-> start, end |-> end]
Dinner == Event("d", {"dinner", "ann"}, {"home"}, 0, 4)
Lunch == Event("l", {"lunch"}, {}, 8, 9)
MCCalBatch == { {Dinner, Lunch} }
MCPeerBatch == { [peer |-> "ann", events |-> {Event("x", {"dinner"}, {"home"}, 1, 4)}],
                 [peer |-> "bob", events |-> {Event("y", {"dinner", "ann"}, {}, 3, -1)}],
                 [peer |-> "cat", events |-> {Dinner}] }
Photo(time, cell, valid) == [time |-> time, cell |-> cell, valid |-> valid]
MCPhotos == { <<Photo(5, 5, TRUE)>>, <<Photo(6, 5, TRUE), Photo(5, -1, TRUE)>>, <<Photo(9, 9, FALSE)>> }
MCPeerHashes == { [peer |-> "ann", hashes |-> {<<4, 4>>, <<5, 5>>}], [peer |-> "bob", hashes |-> {<<7, 5>>, <<0, 0>>}] }
MCShare == << [schema |-> "notes", file |-> FALSE, decodes |-> FALSE], [schema |-> "photos", file |-> TRUE, decodes |-> TRUE] >>

\* Which requests are at work together. Where one works alone, or two follow each other
\* in a session, the clock is set between them only.
Cast == [ ask1 |-> {Asking("agent", "s1", 2)},
          ask2 |-> {Asking("agent", "s1", 1), Asking("index", "s2", 0)},
          ask3 |-> {Asking("index", "s1", 0), Asking("chat", "s1", 0), Asking("followup", "s1", 0)},
          ask4 |-> {Asking("agent", "s3", 1)},
          ask5 |-> {Asking("agent", "s1", 1), Asking("agent", "s1", 0), Asking("agent", "s2", 0)} ]
AllActive == [p \in Peer |-> "active"]
Init ==
    /\ PublishInit /\ SharingInit /\ DataQueryInit /\ AgentInit /\ CloudInit
    /\ scene \in {"publish", "interest", "calendar", "moments", "referral", "invite", "data", "query", "listing", "schema",
                  "refresh", "bootstrap", "orgs", "reset"}
                 \cup DOMAIN Cast
    /\ scene \notin {"moments", "invite"} => contact = AllActive
    /\ scene \notin {"ask1", "schema"} =>
          schemas["notes"].state = IF scene \in {"query", "listing"} \cup DOMAIN Cast THEN "approved" ELSE "available"
    /\ scene \notin {"orgs", "reset"} => engine = "on"
    /\ scene # "publish" => oneStore
    /\ scene # "refresh" => keyStored = 1
    /\ scene # "bootstrap" => marker = "none"
Next ==
    /\ \/ /\ \/ scene = "publish" /\ PublishNext
             \/ scene = "interest" /\ (InterestNext \/ ((opt_in \/ publish \/ publish_schema) /\ UNCHANGED oneStore))
          /\ UNCHANGED <<sharingVars, dataQueryVars, agentVars, cloudVars>>
       \/ /\ \/ scene = "calendar" /\ CalendarNext
             \/ scene = "moments" /\ MomentNext
             \/ scene = "referral" /\ ReferralNext
             \/ scene = "invite" /\ InviteNext
             \/ scene = "data" /\ DataShareNext
          /\ UNCHANGED <<publishVars, dataQueryVars, agentVars, cloudVars>>
       \/ /\ \/ scene = "query" /\ QueryNext
             \/ scene = "listing" /\ ListingNext
             \/ scene = "schema" /\ SchemaNext
          /\ UNCHANGED <<publishVars, sharingVars, agentVars, cloudVars>>
       \/ /\ scene \in DOMAIN Cast /\ AgentNext(Cast[scene]) /\ (scene \in {"ask1", "ask5"} => disturbed' = {})
          /\ UNCHANGED <<publishVars, sharingVars, cloudVars>>
       \/ /\ \/ scene = "refresh" /\ RefreshNext /\ UNCHANGED <<orgVars, resetVars>>
             \/ scene = "bootstrap" /\ BootstrapNext /\ UNCHANGED <<orgVars, resetVars>>
             \/ scene = "orgs" /\ OrgNext /\ UNCHANGED <<refreshVars, bootVars, resetVars>>
             \/ scene = "reset" /\ ResetNext /\ UNCHANGED <<refreshVars, bootVars, orgVars>>
          /\ UNCHANGED <<publishVars, sharingVars, dataQueryVars, agentVars>>
    /\ UNCHANGED scene
Spec == Init /\ [][Next]_<<scene, publishVars, sharingVars, dataQueryVars, agentVars, cloudVars>>
====
