------------------------------ MODULE MCReceiver ------------------------------
(***************************************************************************)
(* Instances of ReceiverEngine for TLC: one user, two entitlements nobody  *)
(* may hold together, four connectors.                                     *)
(***************************************************************************)
EXTENDS ReceiverEngine

CONSTANTS u1, e1, e2, AD, EX, SAP, Generic

MCLaneConcurrency == [l \in Lanes |-> 1]
MCSystemLane == [e \in Entitlements |-> SAP]
MCToxic == {{e1, e2}}
MCTasks == TaskSet

\* Message constructors.
Event(op, key, u, e, gated) ==
  [via |-> "event", op |-> op, key |-> key, user |-> u, ent |-> e, gated |-> gated,
   switch |-> "keep", wellFormed |-> TRUE]
Scim(op, key, u, e, switch) ==
  [via |-> "scim", op |-> op, key |-> key, user |-> u, ent |-> e, gated |-> FALSE,
   switch |-> switch, wellFormed |-> TRUE]
Malformed(m) == [m EXCEPT !.wellFormed = FALSE]

\* A REST batch of a hire and a grant, a grant that needs approval, the
\* revokes of both, an HR row for a leaver and an event on NATS.
EventRequests ==
  {<<Event("create", "hire", u1, None, FALSE), Event("grant", "g1", u1, e1, FALSE)>>,
   <<Event("grant", "g2", u1, e2, TRUE)>>,
   <<Event("revoke", "r1", u1, e1, FALSE)>>,
   <<Event("revoke", "r2", u1, e2, FALSE)>>,
   <<[Event("deactivate", "left", u1, None, FALSE) EXCEPT !.via = "hr"]>>}
EventStream == {<<Event("patch", "moved", u1, None, FALSE)>>,
                <<Event("notify", "login", u1, None, FALSE)>>}
AllEventRequests == EventRequests \cup EventStream
EventKeys == {"hire", "g1", "g2", "r1", "r2", "left", "moved", "login"}

\* Every kind of account call, and group calls that name the group late, fill,
\* empty and replace it, one of them refused half way.
ScimRequests ==
  {<<Scim("POST", "post", u1, None, "keep"), Scim("DELETE", "del", u1, None, "keep")>>,
   <<Scim("PUT", None, u1, None, "off")>>,
   <<Malformed(Scim("PUT", "put", u1, None, "off"))>>,
   <<Scim("PATCH", "patch", u1, None, "on")>>,
   <<Malformed(Scim("PATCH", "bad", u1, None, "off"))>>,
   <<Scim("group", "named", None, e1, "keep")>>,
   <<Scim("add", "add", u1, e1, "keep")>>,
   <<Scim("remove", "rem", u1, e1, "keep")>>,
   <<Scim("replace", "rep", u1, e2, "keep"), Scim("clear", "clear", u1, e2, "keep")>>}
ScimKeys == {"post", "del", "put", "patch", "bad", "named", "add", "rem", "rep", "clear"}
NoStream == {}

\* An addition, its removal and late copies of them.
CopyRequests == {<<Scim("add", "add", u1, e1, "keep")>>, <<Scim("remove", "rem", u1, e1, "keep")>>}
CopyKeys == {"add", "rem"}
=============================================================================
