-------------------------- MODULE MCCloudAccount --------------------------
(* Requests about two organisations: one this node creates, one it is      *)
(* invited to.                                                             *)
EXTENDS CloudAccount

OrgAsk(kind, org, who) == [kind |-> kind, org |-> org, who |-> who]
MCOrgRequest == { OrgAsk("create", "acme", "me"), OrgAsk("join", "guild", "me"), OrgAsk("add", "acme", "ann"),
                  OrgAsk("remove", "acme", "ann"), OrgAsk("remove", "guild", "me"), OrgAsk("delete", "acme", "me"),
                  OrgAsk("decline", "guild", "me"), OrgAsk("list", "none", "me"), OrgAsk("get", "guild", "me"),
                  OrgAsk("pending", "none", "me") }
====
